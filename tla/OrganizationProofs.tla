-------------------------- MODULE OrganizationProofs --------------------------
(* Theorems about what an organization sets up for itself.  About Saml: the *)
(* configuration that is in force and the user a name signs in, for any     *)
(* number of users, names, providers, connections and requests in flight.   *)
(* About PortalPermissions: that the permissions page shows what the routes *)
(* enforce, but for the cases it names, for any number of roles,            *)
(* permissions, editors and saves in flight.  About Contexts: that a write  *)
(* is stored under the organization of its tenant and a tenant asked for is *)
(* given, for any number of organizations, tenants, people and requests.    *)
EXTENDS Saml, FiniteSetTheorems, WellFoundedInduction, TLAPS

-----------------------------------------------------------------------------
(* The shapes of the rows and of the requests in flight *)

(* What a PATCH has read and is about to write: the columns and the         *)
(* metadata agree, and the flag is the one asked for.                       *)
Agrees(r) == InForce(r) = [entity |-> r.entity, certificate |-> r.certificate]

Patches ==
  {call \in [pc: {"patch"}, id: Nat, row: Rows, body: Bodies] :
     /\ Agrees(call.row)
     /\ call.body.field = "enabled" => call.row.enabled = call.body.value}

Finds == [pc: {"find"}, id: Nat, name: NameIds, email: Users \cup {Nobody}]

Known == [pc: {"link", "member", "audit"}, id: Nat, name: NameIds, user: Users]

Requested == {Idle} \cup Patches \cup Finds \cup Known

Tables ==
  /\ id \in Nat /\ live \in BOOLEAN /\ off \in BOOLEAN
  /\ live => connection \in Rows
  /\ accounts \in [NameIds -> Users \cup {Nobody}]
  /\ members \subseteq Users /\ absent \subseteq Users /\ raced \subseteq NameIds
  /\ signIns \subseteq NameIds \X Users

CallsOK == calls \in [Calls -> Requested]

Shape == Tables /\ CallsOK

(* The columns of a request, by its program counter. *)
LEMMA CallShape ==
  ASSUME CallsOK, NEW k \in Calls
  PROVE  /\ calls[k].pc \in {"idle", "patch", "find", "link", "member", "audit"}
         /\ calls[k].pc = "patch" => calls[k] \in Patches
         /\ calls[k].pc = "find" => calls[k] \in Finds
         /\ calls[k].pc \in {"link", "member", "audit"} => calls[k] \in Known
         /\ calls[k].pc = "idle" => calls[k] = Idle
<1>1. calls[k] \in Requested
  BY DEF CallsOK
<1> QED
  BY <1>1 DEF Requested, Patches, Finds, Known, Idle

LEMMA OneCallMoves ==
  ASSUME CallsOK, NEW k \in Calls, NEW call, Becomes(k, call)
  PROVE  /\ calls'[k] = call
         /\ \A j \in Calls : j # k => calls'[j] = calls[j]
         /\ call \in Requested => CallsOK'
BY DEF CallsOK, Becomes

(* A PATCH makes of a row in which metadata and columns agree another one.  *)
LEMMA EditsAgree ==
  ASSUME SamlAssumption, NEW r \in Rows, Agrees(r), NEW body \in Bodies
  PROVE  /\ Edited(r, body) \in Rows /\ Agrees(Edited(r, body))
         /\ Edited(r, body).enabled = IF body.field = "enabled" THEN body.value ELSE r.enabled
<1>1. CASE body \in [field: {"metadataXml"}, value: Providers]
  BY <1>1 DEF Edited, Agrees, InForce, Rows
<1>2. CASE body \in [field: {"certificates"}, value: Providers]
  BY <1>2 DEF Edited, Agrees, InForce, Rows
<1>3. CASE body \in [field: {"enabled"}, value: BOOLEAN]
  BY <1>3 DEF Edited, Agrees, InForce, Rows
<1>4. CASE body \in [field: {"label"}, value: {TRUE}]
  BY <1>4 DEF Edited, Agrees, InForce, Rows
<1> QED
  BY <1>1, <1>2, <1>3, <1>4 DEF Bodies
LEMMA InitShape ==
  Init => Shape
<1> SUFFICES ASSUME Init
             PROVE  Shape
  OBVIOUS
<1>1. Tables
  BY DEF Init, Tables
<1>2. CallsOK
  BY DEF Init, CallsOK, Requested
<1> QED
  BY <1>1, <1>2 DEF Shape

LEMMA NextCalls ==
  ASSUME SamlAssumption, Shape, live => Agrees(connection), Next
  PROVE  CallsOK'
<1> USE CallShape, OneCallMoves DEF Shape
<1>1. PICK k \in Calls : AdminStep(k) \/ ConsumerStep(k) \/ Fail(k)
  BY DEF Next
<1>2. ASSUME Becomes(k, Idle)
      PROVE  CallsOK'
  BY <1>2 DEF Requested
<1>3. CASE UNCHANGED calls
  BY <1>3 DEF CallsOK
<1>4. ASSUME NEW body \in Bodies, PatchRead(k, body)
      PROVE  CallsOK'
  <2>1. [pc |-> "patch", id |-> id, row |-> Edited(connection, body), body |-> body] \in Patches
    BY <1>4, EditsAgree DEF PatchRead, Patches, Tables
  <2> QED
    BY <1>4, <2>1 DEF PatchRead, Take, Requested
<1>5. ASSUME NEW assertion \in Assertions, Receive(k, assertion)
      PROVE  CallsOK'
  <2>1. [pc |-> "find", id |-> id, name |-> assertion.nameId, email |-> assertion.email] \in Finds
    BY DEF Finds, Assertions, Tables
  <2> QED
    BY <1>5, <2>1 DEF Receive, Take, Requested
<1>6. CASE Find(k)
  <2>1. calls[k] \in Finds
    BY <1>6 DEF Find
  <2>2. CASE Knows(k)
    <3>1. [pc |-> "member", id |-> calls[k].id, name |-> calls[k].name,
           user |-> accounts[calls[k].name]] \in Known
      BY <2>1, <2>2 DEF Knows, Known, Finds, Tables
    <3> QED
      BY <1>6, <2>2, <3>1 DEF Find, Requested
  <2>3. CASE ~ Knows(k) /\ calls[k].email # Nobody
    <3>1. [pc |-> "link", id |-> calls[k].id, name |-> calls[k].name,
           user |-> calls[k].email] \in Known
      BY <2>1, <2>3 DEF Known, Finds
    <3> QED
      BY <1>6, <2>3, <3>1 DEF Find, Requested
  <2> QED
    BY <1>2, <1>6, <2>2, <2>3 DEF Find
<1>7. CASE Link(k)
  <2>1. [pc |-> "member", id |-> id, name |-> calls[k].name, user |-> calls[k].user] \in Known
    BY <1>7 DEF Link, Known, Tables
  <2> QED
    BY <1>7, <2>1 DEF Link, Requested
<1>8. CASE CheckMember(k)
  <2>1. [pc |-> "audit", id |-> calls[k].id, name |-> calls[k].name,
         user |-> calls[k].user] \in Known
    BY <1>8 DEF CheckMember, Known
  <2> QED
    BY <1>2, <1>8, <2>1 DEF CheckMember, Requested
<1>9. CASE AdminStep(k)
  BY <1>2, <1>3, <1>4, <1>9 DEF AdminStep, Create, PatchWrite, Delete, Join, Leave
<1>10. CASE ConsumerStep(k) \/ Fail(k)
  BY <1>2, <1>5, <1>6, <1>7, <1>8, <1>10 DEF ConsumerStep, SignIn, Fail
<1> QED
  BY <1>1, <1>9, <1>10

LEMMA NextTables ==
  ASSUME SamlAssumption, Shape, Next
  PROVE  Tables'
<1> USE CallShape DEF Shape, Tables, Table
<1>1. PICK k \in Calls : AdminStep(k) \/ ConsumerStep(k) \/ Fail(k)
  BY DEF Next
<1>2. ASSUME NEW provider \in Providers, NEW xml \in BOOLEAN, Create(provider, xml)
      PROVE  Tables'
  <2>1. connection' \in Rows
    BY <1>2 DEF Create, Rows
  <2>2. id' \in Nat /\ live' = TRUE /\ off' = FALSE
    BY <1>2 DEF Create
  <2> QED
    BY <1>2, <2>1, <2>2 DEF Create
<1>3. CASE PatchWrite(k)
  <2>1. calls[k].row \in Rows
    BY <1>3 DEF PatchWrite, Patches
  <2>2. off' \in BOOLEAN
    BY <1>3 DEF PatchWrite
  <2> QED
    BY <1>3, <2>1, <2>2 DEF PatchWrite
<1>4. ASSUME NEW user \in Users, Join(user) \/ Leave(user)
      PROVE  Tables'
  BY <1>4 DEF Join, Leave
<1>5. CASE Delete
  BY <1>5 DEF Delete
<1>6. CASE Find(k)
  <2>1. calls[k].name \in NameIds
    BY <1>6 DEF Find, Finds
  <2> QED
    BY <1>6, <2>1 DEF Find
<1>7. CASE Link(k) \/ SignIn(k)
  <2>1. calls[k].name \in NameIds /\ calls[k].user \in Users
    BY <1>7 DEF Link, SignIn, Known
  <2> QED
    BY <1>7, <2>1 DEF Link, SignIn
<1>8. CASE UNCHANGED <<Table, members, off, raced, signIns, absent>>
  BY <1>8
<1> QED
  BY <1>1, <1>2, <1>3, <1>4, <1>5, <1>6, <1>7, <1>8
     DEF AdminStep, ConsumerStep, PatchRead, Receive, CheckMember, Fail

-----------------------------------------------------------------------------
(* What is in force *)

(* As long as a connection counts as disabled, the row says so, and so does *)
(* every PATCH that was not asked for the flag.                             *)
InForceAsSet ==
  /\ live => Agrees(connection)
  /\ off => /\ live /\ ~ connection.enabled
            /\ \A k \in Calls : calls[k].pc = "patch" =>
                 calls[k].body.field = "enabled" \/ ~ calls[k].row.enabled

LEMMA InForceAsSetNext ==
  ASSUME SamlAssumption, Shape, InForceAsSet, [Next]_vars
  PROVE  InForceAsSet'
<1> USE CallShape, OneCallMoves DEF Shape
<1>1. ASSUME UNCHANGED <<live, connection, off>>,
             \A k \in Calls : calls'[k].pc = "patch" => calls'[k] = calls[k]
      PROVE  InForceAsSet'
  BY <1>1 DEF InForceAsSet, Agrees, InForce
<1>2. CASE UNCHANGED vars
  BY <1>1, <1>2 DEF vars, Table
<1>3. CASE Next
  <2>1. PICK k \in Calls : AdminStep(k) \/ ConsumerStep(k) \/ Fail(k)
    BY <1>3 DEF Next
  <2>2. ASSUME NEW call, Becomes(k, call), call.pc # "patch", UNCHANGED <<live, connection, off>>
        PROVE  InForceAsSet'
    BY <1>1, <2>2
  <2>3. CASE AdminStep(k)
    <3>1. ASSUME NEW provider \in Providers, NEW xml \in BOOLEAN, Create(provider, xml)
          PROVE  InForceAsSet'
      BY <3>1 DEF Create, InForceAsSet, Agrees, InForce
    <3>2. ASSUME NEW body \in Bodies, PatchRead(k, body)
          PROVE  InForceAsSet'
      <4>1. /\ calls'[k] = [pc |-> "patch", id |-> id, row |-> Edited(connection, body), body |-> body]
            /\ \A j \in Calls : j # k => calls'[j] = calls[j]
        BY <3>2 DEF PatchRead, Take
      <4>2. Edited(connection, body).enabled =
              IF body.field = "enabled" THEN body.value ELSE connection.enabled
        BY <3>2, EditsAgree DEF PatchRead, InForceAsSet, Tables
      <4>3. ASSUME off
            PROVE  body.field = "enabled" \/ ~ Edited(connection, body).enabled
        BY <4>2, <4>3 DEF InForceAsSet
      <4> QED
        BY <3>2, <4>1, <4>3 DEF PatchRead, Table, InForceAsSet, Agrees, InForce
    <3>3. CASE PatchWrite(k)
      <4>1. calls[k] \in Patches
        BY <3>3 DEF PatchWrite
      <4>2. /\ calls'[k] = Idle
            /\ \A j \in Calls : j # k => calls'[j] = calls[j]
        BY <3>3 DEF PatchWrite
      <4>3. live' /\ Agrees(connection')
        BY <3>3, <4>1 DEF PatchWrite, Patches
      <4>4. CASE calls[k].body.field = "enabled"
        <5>1. ASSUME off'
              PROVE  /\ ~ connection'.enabled
                     /\ \A j \in Calls : calls'[j].pc # "patch"
          <6>1. ~ calls[k].body.value /\ \A j \in Calls \ {k} : calls[j].pc # "patch"
            BY <3>3, <4>4, <5>1 DEF PatchWrite
          <6>2. connection' = calls[k].row /\ calls[k].row.enabled = calls[k].body.value
            BY <3>3, <4>1, <4>4 DEF PatchWrite, Patches
          <6> QED
            BY <4>2, <6>1, <6>2 DEF Idle
        <5> QED
          BY <4>3, <5>1 DEF InForceAsSet, Agrees, InForce
      <4>5. CASE calls[k].body.field # "enabled"
        <5>1. off' => off /\ ~ connection'.enabled
          BY <3>3, <4>5 DEF PatchWrite, InForceAsSet
        <5> QED
          BY <4>2, <4>3, <5>1 DEF InForceAsSet, Agrees, InForce, Idle
      <4> QED
        BY <4>4, <4>5
    <3>4. CASE Delete
      BY <3>4 DEF Delete, InForceAsSet
    <3>5. ASSUME NEW user \in Users, Join(user) \/ Leave(user)
          PROVE  InForceAsSet'
      BY <1>1, <3>5 DEF Join, Leave, Table
    <3> QED
      BY <2>3, <3>1, <3>2, <3>3, <3>4, <3>5 DEF AdminStep
  <2>4. CASE ConsumerStep(k) \/ Fail(k)
    BY <2>2, <2>4 DEF ConsumerStep, Receive, Find, Link, CheckMember, SignIn, Fail, Take, Idle, Table
  <2> QED
    BY <2>1, <2>3, <2>4
<1> QED
  BY <1>2, <1>3
-----------------------------------------------------------------------------
(* Whom a name signs in *)

(* The requests for a name of the present connection that are about to link *)
(* an account to it, and those that have one.                               *)
Linking(k, n) == calls[k].pc = "link" /\ calls[k].id = id /\ calls[k].name = n

SigningIn(k, n) == calls[k].pc \in {"member", "audit"} /\ calls[k].id = id /\ calls[k].name = n

(* A name not seen by two requests at once is linked only while it has no   *)
(* account, and by one request; whoever it signs in is the account's user.  *)
OneAccount ==
  live => \A n \in NameIds \ raced :
            /\ \A k \in Calls : Linking(k, n) =>
                 accounts[n] = Nobody /\ \A j \in Calls : Linking(j, n) => j = k
            /\ \A k \in Calls : SigningIn(k, n) => calls[k].user = accounts[n]
            /\ \A s \in signIns : s[1] = n => s[2] = accounts[n]

(* Requests of connections to come do not exist, and between two            *)
(* connections there is neither an account nor a sign-in.                   *)
NothingBefore ==
  /\ \A k \in Calls : calls[k].pc \in {"find", "link", "member", "audit"} => calls[k].id <= id
  /\ ~ live => signIns = {} /\ accounts = [n \in NameIds |-> Nobody]

(* Who is, or is about to be, signed in has been a member.                  *)
SeenInside ==
  /\ members \cap absent = {}
  /\ \A k \in Calls : calls[k].pc = "audit" => calls[k].user \notin absent
  /\ \A s \in signIns : s[2] \notin absent

LEMMA NothingBeforeNext ==
  ASSUME Shape, NothingBefore, [Next]_vars
  PROVE  NothingBefore'
<1> USE CallShape, OneCallMoves DEF Shape
<1>1. ASSUME NEW k \in Calls, NEW call, Becomes(k, call), id' = id,
             call.pc \in {"find", "link", "member", "audit"} => call.id <= id
      PROVE  \A j \in Calls : calls'[j].pc \in {"find", "link", "member", "audit"} => calls'[j].id <= id'
  BY <1>1 DEF NothingBefore
<1>2. CASE UNCHANGED vars
  BY <1>2 DEF vars, Table, NothingBefore
<1>3. CASE Next
  <2>1. PICK k \in Calls : AdminStep(k) \/ ConsumerStep(k) \/ Fail(k)
    BY <1>3 DEF Next
  <2>2. ASSUME NEW call, Becomes(k, call), UNCHANGED <<Table, signIns>>,
               call.pc \in {"find", "link", "member", "audit"} => call.id <= id
        PROVE  NothingBefore'
    BY <1>1, <2>2 DEF NothingBefore, Table
  <2>3. CASE AdminStep(k)
    <3>1. ASSUME NEW provider \in Providers, NEW xml \in BOOLEAN, Create(provider, xml)
          PROVE  NothingBefore'
      <4>1. \A j \in Calls : calls[j].pc \in {"find", "link", "member", "audit"} =>
              calls[j].id \in Nat /\ calls[j].id <= id
        BY DEF NothingBefore, Finds, Known
      <4> QED
        BY <3>1, <4>1 DEF Create, NothingBefore, Tables
    <3>2. ASSUME NEW body \in Bodies, PatchRead(k, body)
          PROVE  NothingBefore'
      BY <2>2, <3>2 DEF PatchRead, Take
    <3>3. CASE PatchWrite(k)
      BY <1>1, <3>3 DEF PatchWrite, Idle, NothingBefore
    <3>4. CASE Delete
      BY <3>4 DEF Delete, NothingBefore
    <3>5. ASSUME NEW user \in Users, Join(user) \/ Leave(user)
          PROVE  NothingBefore'
      BY <3>5 DEF Join, Leave, Table, NothingBefore
    <3> QED
      BY <2>3, <3>1, <3>2, <3>3, <3>4, <3>5 DEF AdminStep
  <2>4. ASSUME NEW assertion \in Assertions, Receive(k, assertion)
        PROVE  NothingBefore'
    BY <2>2, <2>4 DEF Receive, Take, Tables
  <2>5. CASE Find(k)
    <3>1. calls[k].id <= id
      BY <2>5 DEF Find, NothingBefore
    <3> QED
      BY <2>2, <2>5, <3>1 DEF Find, Idle
  <2>6. CASE Link(k)
    <3>1. \A j \in Calls : calls'[j].pc \in {"find", "link", "member", "audit"} => calls'[j].id <= id'
      BY <1>1, <2>6 DEF Link, Tables
    <3> QED
      BY <2>6, <3>1 DEF Link, NothingBefore
  <2>7. CASE CheckMember(k)
    <3>1. calls[k].id <= id
      BY <2>7 DEF CheckMember, NothingBefore
    <3> QED
      BY <2>2, <2>7, <3>1 DEF CheckMember, Idle
  <2>8. CASE SignIn(k)
    <3>1. \A j \in Calls : calls'[j].pc \in {"find", "link", "member", "audit"} => calls'[j].id <= id'
      BY <1>1, <2>8 DEF SignIn, Idle, Table
    <3> QED
      BY <2>8, <3>1 DEF SignIn, NothingBefore, Table
  <2>9. CASE Fail(k)
    BY <2>2, <2>9 DEF Fail, Idle
  <2> QED
    BY <2>1, <2>3, <2>4, <2>5, <2>6, <2>7, <2>8, <2>9 DEF ConsumerStep
<1> QED
  BY <1>2, <1>3

LEMMA SeenInsideNext ==
  ASSUME Shape, SeenInside, [Next]_vars
  PROVE  SeenInside'
<1> USE CallShape, OneCallMoves DEF Shape
<1>1. CASE UNCHANGED vars
  BY <1>1 DEF vars, SeenInside
<1>2. CASE Next
  <2>1. PICK k \in Calls : AdminStep(k) \/ ConsumerStep(k) \/ Fail(k)
    BY <1>2 DEF Next
  <2>2. ASSUME NEW call, Becomes(k, call), UNCHANGED <<members, signIns, absent>>,
               call.pc = "audit" => call.user \notin absent
        PROVE  SeenInside'
    BY <2>2 DEF SeenInside
  <2>3. CASE UNCHANGED <<calls, members, absent>> /\ signIns' \subseteq signIns
    BY <2>3 DEF SeenInside
  <2>4. ASSUME NEW user \in Users, Join(user) \/ Leave(user)
        PROVE  SeenInside'
    BY <2>4 DEF Join, Leave, SeenInside
  <2>5. CASE AdminStep(k)
    BY <2>2, <2>3, <2>4, <2>5 DEF AdminStep, Create, PatchRead, PatchWrite, Delete, Take, Idle
  <2>6. CASE CheckMember(k)
    BY <2>2, <2>6 DEF CheckMember, SeenInside, Idle
  <2>7. CASE SignIn(k)
    <3>1. calls[k].user \notin absent
      BY <2>7 DEF SignIn, SeenInside
    <3>2. \A s \in signIns' : s[2] \notin absent'
      BY <2>7, <3>1 DEF SignIn, SeenInside
    <3> QED
      BY <2>7, <3>2 DEF SignIn, SeenInside, Idle
  <2>8. CASE Find(k) \/ Link(k) \/ Fail(k)
    BY <2>2, <2>8 DEF Find, Link, Fail, Idle
  <2>9. ASSUME NEW assertion \in Assertions, Receive(k, assertion)
        PROVE  SeenInside'
    BY <2>2, <2>9 DEF Receive, Take
  <2> QED
    BY <2>1, <2>5, <2>6, <2>7, <2>8, <2>9 DEF ConsumerStep
<1> QED
  BY <1>1, <1>2
(* Nothing changes for a name but that a request may drop out of the race,  *)
(* or go from one step of signing in to the next.                           *)
LEMMA OneAccountKept ==
  ASSUME OneAccount, UNCHANGED <<id, live, accounts>>, raced \subseteq raced', signIns' \subseteq signIns,
         \A k \in Calls, n \in NameIds :
           /\ Linking(k, n)' => Linking(k, n)
           /\ SigningIn(k, n)' => SigningIn(k, n) /\ calls'[k].user = calls[k].user
  PROVE  OneAccount'
<1> SUFFICES ASSUME live', NEW n \in NameIds \ raced'
             PROVE  /\ \A k \in Calls : Linking(k, n)' =>
                         accounts'[n] = Nobody /\ \A j \in Calls : Linking(j, n)' => j = k
                    /\ \A k \in Calls : SigningIn(k, n)' => calls'[k].user = accounts'[n]
                    /\ \A s \in signIns' : s[1] = n => s[2] = accounts'[n]
  BY DEF OneAccount
<1> QED
  BY DEF OneAccount

LEMMA OneAccountNext ==
  ASSUME SamlAssumption, Shape, OneAccount, NothingBefore, [Next]_vars
  PROVE  OneAccount'
<1> USE CallShape, OneCallMoves DEF Shape
<1>1. CASE UNCHANGED vars
  BY <1>1, OneAccountKept DEF vars, Table, Linking, SigningIn
<1>2. CASE Next
  <2>1. PICK k \in Calls : AdminStep(k) \/ ConsumerStep(k) \/ Fail(k)
    BY <1>2 DEF Next
  <2>2. ASSUME NEW call, Becomes(k, call), UNCHANGED <<id, live, accounts>>,
               raced \subseteq raced', signIns' \subseteq signIns, call.pc \notin {"link", "member", "audit"}
        PROVE  OneAccount'
    BY <2>2, OneAccountKept DEF Linking, SigningIn
  <2>3. CASE AdminStep(k)
    <3>1. ASSUME NEW provider \in Providers, NEW xml \in BOOLEAN, Create(provider, xml)
          PROVE  OneAccount'
      <4>1. \A j \in Calls : calls[j].pc \in {"link", "member", "audit"} => calls[j].id # id'
        <5>1. ASSUME NEW j \in Calls, calls[j].pc \in {"link", "member", "audit"}
              PROVE  calls[j].id # id + 1
          <6>1. calls[j].id \in Nat /\ calls[j].id <= id
            BY <5>1 DEF NothingBefore, Known
          <6> QED
            BY <6>1 DEF Tables
        <5> QED
          BY <3>1, <5>1 DEF Create
      <4>2. calls' = calls /\ signIns' = {}
        BY <3>1 DEF Create, NothingBefore
      <4> QED
        BY <4>1, <4>2 DEF OneAccount, Linking, SigningIn
    <3>2. ASSUME NEW body \in Bodies, PatchRead(k, body)
          PROVE  OneAccount'
      BY <2>2, <3>2 DEF PatchRead, Take, Table
    <3>3. CASE PatchWrite(k)
      BY <2>2, <3>3 DEF PatchWrite, Idle
    <3>4. CASE Delete
      BY <3>4 DEF Delete, OneAccount
    <3>5. ASSUME NEW user \in Users, Join(user) \/ Leave(user)
          PROVE  OneAccount'
      BY <3>5, OneAccountKept DEF Join, Leave, Table, Linking, SigningIn
    <3> QED
      BY <2>3, <3>1, <3>2, <3>3, <3>4, <3>5 DEF AdminStep
  <2>4. ASSUME NEW assertion \in Assertions, Receive(k, assertion)
        PROVE  OneAccount'
    BY <2>2, <2>4 DEF Receive, Take, Table
  <2>5. CASE Find(k)
    <3> DEFINE name == calls[k].name
    <3>1. name \in NameIds /\ calls[k].pc = "find"
      BY <2>5 DEF Find, Finds
    <3>2. CASE Knows(k)
      <4>1. /\ calls'[k] = [pc |-> "member", id |-> calls[k].id, name |-> name, user |-> accounts[name]]
            /\ \A j \in Calls : j # k => calls'[j] = calls[j]
            /\ UNCHANGED <<id, live, accounts, raced, signIns>>
        BY <2>5, <3>2 DEF Find, Table
      <4>2. ASSUME live', NEW n \in NameIds \ raced'
            PROVE  /\ \A i \in Calls : Linking(i, n)' =>
                        accounts'[n] = Nobody /\ \A j \in Calls : Linking(j, n)' => j = i
                   /\ \A i \in Calls : SigningIn(i, n)' => calls'[i].user = accounts'[n]
                   /\ \A s \in signIns' : s[1] = n => s[2] = accounts'[n]
        <5>1. \A j \in Calls : Linking(j, n)' => Linking(j, n)
          BY <4>1 DEF Linking
        <5>2. \A j \in Calls : SigningIn(j, n)' => calls'[j].user = accounts'[n]
          BY <4>1, <4>2 DEF SigningIn, OneAccount
        <5> QED
          BY <4>1, <4>2, <5>1, <5>2 DEF OneAccount
      <4> QED
        BY <4>2 DEF OneAccount
    <3>3. CASE ~ Knows(k) /\ calls[k].email # Nobody
      <4> DEFINE others == {j \in Calls \ {k} : calls[j].pc = "link" /\ calls[j].id = calls[k].id
                                                /\ calls[j].name = name}
      <4>1. /\ calls'[k] = [pc |-> "link", id |-> calls[k].id, name |-> name, user |-> calls[k].email]
            /\ \A j \in Calls : j # k => calls'[j] = calls[j]
            /\ UNCHANGED <<id, live, accounts, signIns>>
            /\ raced \subseteq raced' /\ (others # {} /\ calls[k].id = id => name \in raced')
        BY <2>5, <3>3 DEF Find, Table
      <4>2. ASSUME live', NEW n \in NameIds \ raced'
            PROVE  /\ \A i \in Calls : Linking(i, n)' =>
                        accounts'[n] = Nobody /\ \A j \in Calls : Linking(j, n)' => j = i
                   /\ \A i \in Calls : SigningIn(i, n)' => calls'[i].user = accounts'[n]
                   /\ \A s \in signIns' : s[1] = n => s[2] = accounts'[n]
        <5>1. \A j \in Calls : SigningIn(j, n)' => SigningIn(j, n) /\ calls'[j] = calls[j]
          BY <4>1 DEF SigningIn
        <5>2. CASE name = n /\ calls[k].id = id
          <6>1. accounts[n] = Nobody
            BY <3>3, <4>1, <4>2, <5>2 DEF Knows
          <6>2. \A j \in Calls : Linking(j, n)' => j = k
            BY <4>1, <4>2, <5>2 DEF Linking
          <6> QED
            BY <4>1, <4>2, <5>1, <6>1, <6>2 DEF OneAccount
        <5>3. CASE ~ (name = n /\ calls[k].id = id)
          <6>1. \A j \in Calls : Linking(j, n)' => Linking(j, n)
            BY <4>1, <5>3 DEF Linking
          <6> QED
            BY <4>1, <4>2, <5>1, <6>1 DEF OneAccount
        <5> QED
          BY <5>2, <5>3
      <4> QED
        BY <4>2 DEF OneAccount
    <3>4. CASE ~ Knows(k) /\ calls[k].email = Nobody
      BY <2>2, <2>5, <3>4 DEF Find, Idle, Table
    <3> QED
      BY <3>2, <3>3, <3>4
  <2>6. CASE Link(k)
    <3> DEFINE name == calls[k].name
    <3>1. /\ name \in NameIds /\ calls[k].user \in Users /\ Linking(k, name)
          /\ accounts' = [accounts EXCEPT ![name] = calls[k].user]
          /\ live /\ UNCHANGED <<id, live, raced, signIns>>
      BY <2>6 DEF Link, Known, Linking
    <3>2. /\ calls'[k] = [pc |-> "member", id |-> id, name |-> name, user |-> calls[k].user]
          /\ \A j \in Calls : j # k => calls'[j] = calls[j]
      BY <2>6 DEF Link
    <3>3. ASSUME NEW n \in NameIds \ raced'
          PROVE  /\ \A i \in Calls : Linking(i, n)' =>
                      accounts'[n] = Nobody /\ \A j \in Calls : Linking(j, n)' => j = i
                 /\ \A i \in Calls : SigningIn(i, n)' => calls'[i].user = accounts'[n]
                 /\ \A s \in signIns' : s[1] = n => s[2] = accounts'[n]
      <4>1. CASE n = name
        <5>1. accounts[n] = Nobody /\ \A j \in Calls : Linking(j, n) => j = k
          BY <3>1, <3>3, <4>1 DEF OneAccount
        <5>2. accounts'[n] = calls[k].user
          BY <3>1, <4>1 DEF Tables
        <5>3. \A j \in Calls : ~ Linking(j, n)'
          BY <3>1, <3>2, <5>1 DEF Linking
        <5>4. \A j \in Calls : ~ SigningIn(j, n)
          <6>1. \A j \in Calls : SigningIn(j, n) => calls[j].user \in Users
            BY DEF SigningIn, Known
          <6> QED
            BY <3>1, <3>3, <5>1, <6>1 DEF OneAccount, SamlAssumption
        <5>5. \A j \in Calls : SigningIn(j, n)' => j = k
          BY <3>1, <3>2, <5>4 DEF SigningIn
        <5>6. \A s \in signIns : s[1] # n
          <6>1. \A s \in signIns : s[2] \in Users
            BY DEF Tables
          <6> QED
            BY <3>1, <3>3, <5>1, <6>1 DEF OneAccount, SamlAssumption
        <5> QED
          BY <3>1, <3>2, <5>2, <5>3, <5>5, <5>6
      <4>2. CASE n # name
        <5>1. accounts'[n] = accounts[n]
          BY <3>1, <4>2 DEF Tables
        <5>2. \A j \in Calls : /\ Linking(j, n)' => Linking(j, n)
                               /\ SigningIn(j, n)' => SigningIn(j, n) /\ calls'[j] = calls[j]
          BY <3>1, <3>2, <4>2 DEF Linking, SigningIn
        <5> QED
          BY <3>1, <3>3, <5>1, <5>2 DEF OneAccount
      <4> QED
        BY <4>1, <4>2
    <3> QED
      BY <3>3 DEF OneAccount
  <2>7. CASE CheckMember(k)
    <3>1. \A j \in Calls, n \in NameIds :
            /\ Linking(j, n)' => Linking(j, n)
            /\ SigningIn(j, n)' => SigningIn(j, n) /\ calls'[j].user = calls[j].user
      BY <2>7 DEF CheckMember, Linking, SigningIn, Idle, Table
    <3> QED
      BY <2>7, <3>1, OneAccountKept DEF CheckMember, Table
  <2>8. CASE SignIn(k)
    <3>1. \A j \in Calls, n \in NameIds :
            /\ Linking(j, n)' => Linking(j, n)
            /\ SigningIn(j, n)' => SigningIn(j, n) /\ calls'[j].user = calls[j].user
      BY <2>8 DEF SignIn, Linking, SigningIn, Idle, Table
    <3>2. CASE ~ (live /\ calls[k].id = id)
      BY <2>8, <3>1, <3>2, OneAccountKept DEF SignIn, Table
    <3>3. CASE live /\ calls[k].id = id
      <4>1. /\ signIns' = signIns \cup {<<calls[k].name, calls[k].user>>}
            /\ UNCHANGED <<id, live, accounts, raced>>
        BY <2>8, <3>3 DEF SignIn, Table
      <4>2. ASSUME NEW n \in NameIds \ raced'
            PROVE  \A s \in signIns' : s[1] = n => s[2] = accounts'[n]
        BY <2>8, <3>3, <4>1, <4>2 DEF SignIn, SigningIn, OneAccount
      <4> QED
        BY <3>1, <4>1, <4>2 DEF OneAccount
    <3> QED
      BY <3>2, <3>3
  <2>9. CASE Fail(k)
    BY <2>2, <2>9 DEF Fail, Idle, Table
  <2> QED
    BY <2>1, <2>3, <2>4, <2>5, <2>6, <2>7, <2>8, <2>9 DEF ConsumerStep
<1> QED
  BY <1>1, <1>2

-----------------------------------------------------------------------------
(* Theorems *)

SamlInv == Shape /\ InForceAsSet /\ OneAccount /\ NothingBefore /\ SeenInside

LEMMA SamlInvInit ==
  Init => SamlInv
<1> SUFFICES ASSUME Init
             PROVE  SamlInv
  OBVIOUS
<1>1. Shape
  BY InitShape
<1>2. \A k \in Calls : calls[k].pc = "idle"
  BY DEF Init, Idle
<1> QED
  BY <1>1, <1>2 DEF Init, SamlInv, InForceAsSet, OneAccount, NothingBefore, SeenInside

LEMMA SamlInvNext ==
  SamlAssumption => (SamlInv /\ [Next]_vars => SamlInv')
<1> SUFFICES ASSUME SamlAssumption, SamlInv, [Next]_vars
             PROVE  SamlInv'
  OBVIOUS
<1>1. Shape'
  <2>1. CASE Next
    BY <2>1, NextCalls, NextTables DEF SamlInv, Shape, InForceAsSet
  <2>2. CASE UNCHANGED vars
    BY <2>2 DEF vars, Table, SamlInv, Shape, Tables, CallsOK
  <2> QED
    BY <2>1, <2>2
<1> QED
  BY <1>1, InForceAsSetNext, OneAccountNext, NothingBeforeNext, SeenInsideNext DEF SamlInv

LEMMA SamlInvHolds == SamlAssumption => (Spec => []SamlInv)
<1> SUFFICES ASSUME SamlAssumption
             PROVE  Spec => []SamlInv
  OBVIOUS
<1>1. SamlInv /\ [Next]_vars => SamlInv'
  BY SamlInvNext
<1> QED
  BY SamlInvInit, <1>1, PTL DEF Spec

(* The connection, the accounts and the requests keep their types, and a    *)
(* PATCH in flight carries a row in which metadata and columns agree.       *)
THEOREM SamlTypesHold == SamlAssumption => (Spec => []Shape)
<1>1. SamlInv => Shape
  BY DEF SamlInv
<1> QED
  BY <1>1, SamlInvHolds, PTL

(* The provider the consumer service validates with is the one the columns  *)
(* show, whatever edits of two administrators are mixed, and what is        *)
(* disabled stays so unless a PATCH had read it enabled                     *)
(* (PATCH of a connection, buildIdentityProvider).                          *)
THEOREM ConnectionsAreAsConfigured == SamlAssumption => (Spec => []AppliedAsConfigured)
<1>1. SamlInv => AppliedAsConfigured
  BY DEF SamlInv, InForceAsSet, Agrees, AppliedAsConfigured
<1> QED
  BY <1>1, SamlInvHolds, PTL

(* A name signs one user in unless two requests saw it first together, and  *)
(* that user has been in the organization (POST /saml/:slug/acs).           *)
THEOREM NamesKeepTheirUsers == SamlAssumption => (Spec => []OneUserPerName)
<1>1. SamlInv => OneUserPerName
  <2> SUFFICES ASSUME SamlInv, NEW first \in signIns, NEW second \in signIns
               PROVE  /\ first[1] = second[1] /\ first[1] \notin raced => first[2] = second[2]
                      /\ first[2] \notin absent
    BY DEF OneUserPerName
  <2>1. live
    BY DEF SamlInv, NothingBefore
  <2>2. first[1] \in NameIds
    BY DEF SamlInv, Shape, Tables
  <2> QED
    BY <2>1, <2>2 DEF SamlInv, OneAccount, SeenInside
<1> QED
  BY <1>1, SamlInvHolds, PTL

-----------------------------------------------------------------------------
(* The portal's permissions, with a name of its own for what is in flight   *)

CONSTANTS Roles, Permissions, Defaults, Editors, RoleOf, NoOverride, Offered, Saves
VARIABLES custom, pages, saves, excused

Portal == INSTANCE PortalPermissions WITH calls <- saves, Calls <- Saves

-----------------------------------------------------------------------------
(* Shapes *)

Sets == SUBSET Permissions
Lists == [Roles -> Sets]

Saving ==
  {Portal!Idle} \cup [pc: {"sent", "allowed", "saved"}, editor: Editors \cup {Nobody}, as: Roles,
              role: Roles, set: Sets, previous: Lists]

Opened == [open: {TRUE}, shown: Lists, saving: Roles \cup {Nobody}, canModify: BOOLEAN]

SavesOK == saves \in [Saves -> Saving]

PagesOK == pages \in [Editors -> {Portal!Closed} \cup Opened]

(* A call of a page finds it open: what is open stays so, and saves of the  *)
(* page before are nobody's.                                                *)
PageIsThere == \A k \in Saves, editor \in Editors : Portal!From(k, editor) => pages[editor] \in Opened

PortalShape ==
  /\ SavesOK /\ PagesOK /\ PageIsThere
  /\ custom \in [Roles -> Sets \cup {NoOverride}]
  /\ excused \in [Editors -> SUBSET Roles]

-----------------------------------------------------------------------------
(* What a call in flight may rely on *)

(* The only call of its page for its role, unless the role is excused.      *)
Single(k) ==
  \A j \in Saves :
    Portal!From(j, saves[k].editor) /\ saves[j].role = saves[k].role => j = k

(* Before it is saved, what holds is what it would put back; from then on   *)
(* what holds is what it was sent with.                                     *)
Tells(k) ==
  IF saves[k].pc = "saved" THEN saves[k].set = Portal!Effective(saves[k].role)
  ELSE saves[k].previous[saves[k].role] = Portal!Effective(saves[k].role)

SavesTell ==
  \A k \in Saves, editor \in Editors :
    Portal!From(k, editor) /\ saves[k].role \notin excused[editor] => Single(k) /\ Tells(k)

PortalInv == PortalShape /\ SavesTell /\ Portal!PageShowsWhatHolds

(* The columns of a call. *)
LEMMA SaveShape ==
  ASSUME SavesOK, NEW k \in Saves
  PROVE  /\ saves[k].pc \in {"idle", "sent", "allowed", "saved"}
         /\ saves[k].pc = "idle" <=> saves[k] = Portal!Idle
         /\ saves[k].pc # "idle" =>
              /\ saves[k].editor \in Editors \cup {Nobody} /\ saves[k].as \in Roles
              /\ saves[k].role \in Roles /\ saves[k].set \in Sets /\ saves[k].previous \in Lists
BY DEF SavesOK, Saving, Portal!Idle

LEMMA EffectiveIsASet ==
  ASSUME Portal!PortalAssumption, PortalShape, NEW role \in Roles
  PROVE  Portal!Effective(role) \in Sets
BY DEF Portal!PortalAssumption, PortalShape, Portal!Effective, Sets

LEMMA OneSaveMoves ==
  ASSUME SavesOK, NEW k \in Saves, NEW call, Portal!Becomes(k, call)
  PROVE  /\ saves'[k] = call
         /\ \A j \in Saves : j # k => saves'[j] = saves[j]
         /\ call \in Saving => SavesOK'
BY DEF SavesOK, Portal!Becomes

LEMMA OnePageMoves ==
  ASSUME PagesOK, NEW editor \in Editors, pages[editor] \in Opened,
         NEW shown \in Lists, NEW saving \in Roles \cup {Nobody}, Portal!Shows(editor, shown, saving)
  PROVE  /\ PagesOK'
         /\ pages'[editor] \in Opened /\ pages'[editor].shown = shown
         /\ \A other \in Editors : other # editor => pages'[other] = pages[other]
BY DEF PagesOK, Portal!Shows, Opened

LEMMA PortalInit ==
  Portal!Init => PortalInv
<1> SUFFICES ASSUME Portal!Init
             PROVE  PortalInv
  OBVIOUS
<1>1. PortalShape
  BY DEF Portal!Init, PortalShape, SavesOK, PagesOK, PageIsThere, Portal!From, Portal!Idle, Saving
<1> QED
  BY <1>1 DEF Portal!Init, PortalInv, SavesTell, Portal!From, Portal!Idle, Portal!PageShowsWhatHolds, Portal!Closed
-----------------------------------------------------------------------------
(* Every step keeps it *)

(* A page that is opened takes what holds, and its saves become nobody's.   *)
LEMMA OpenKeeps ==
  ASSUME Portal!PortalAssumption, PortalInv, NEW editor \in Editors, Portal!Open(editor)
  PROVE  PortalInv'
<1> USE SaveShape DEF PortalInv, PortalShape
<1>1. PICK shown \in {[role \in Roles |-> Portal!Effective(role)], Defaults} :
        /\ pages' = [pages EXCEPT ![editor] =
                       [open |-> TRUE, shown |-> shown, saving |-> Nobody,
                        canModify |-> Portal!May(editor, "modify")]]
        /\ excused' = [excused EXCEPT ![editor] =
                         {role \in Roles : shown[role] # Portal!Effective(role) \/ Portal!Busy(editor, role)}]
  BY DEF Portal!Open
<1>2. shown \in Lists
  BY EffectiveIsASet DEF Portal!PortalAssumption, Lists, Sets
<1> DEFINE orphan(k) == [pc |-> saves[k].pc, editor |-> Nobody, as |-> saves[k].as,
                         role |-> saves[k].role, set |-> saves[k].set, previous |-> Defaults]
<1>3. \A k \in Saves : /\ Portal!From(k, editor) => saves'[k] = orphan(k)
                       /\ ~ Portal!From(k, editor) => saves'[k] = saves[k]
  BY DEF Portal!Open
<1>4. SavesOK'
  <2>1. \A k \in Saves : saves'[k] \in Saving
    <3>1. ASSUME NEW k \in Saves, Portal!From(k, editor)
          PROVE  saves'[k] \in Saving
      <4>1. /\ saves[k].pc \in {"sent", "allowed", "saved"} /\ saves[k].as \in Roles
            /\ saves[k].role \in Roles /\ saves[k].set \in Sets
        BY <3>1 DEF Portal!From
      <4>2. Defaults \in Lists
        BY DEF Portal!PortalAssumption, Lists, Sets
      <4>3. orphan(k) \in Saving
        BY <4>1, <4>2 DEF Saving
      <4> HIDE DEF orphan
      <4> QED
        BY <1>3, <3>1, <4>3
    <3>2. ASSUME NEW k \in Saves, ~ Portal!From(k, editor)
          PROVE  saves'[k] \in Saving
      BY <1>3, <3>2 DEF SavesOK
    <3> QED
      BY <3>1, <3>2
  <2>2. saves' = [k \in Saves |-> saves'[k]]
    BY DEF Portal!Open
  <2> QED
    BY <2>1, <2>2 DEF SavesOK
<1>5. ASSUME NEW k \in Saves, NEW other \in Editors
      PROVE  IF Portal!From(k, editor) THEN ~ Portal!From(k, other)' /\ (Portal!From(k, other) => other = editor)
             ELSE saves'[k] = saves[k] /\ (Portal!From(k, other)' <=> Portal!From(k, other))
  <2>1. Nobody # other
    BY DEF Portal!PortalAssumption
  <2>2. CASE Portal!From(k, editor)
    <3>1. orphan(k).editor = Nobody
      OBVIOUS
    <3> HIDE DEF orphan
    <3>2. saves'[k].editor = Nobody
      BY <1>3, <2>2, <3>1
    <3> QED
      BY <2>1, <2>2, <3>2 DEF Portal!From
  <2>3. CASE ~ Portal!From(k, editor)
    <3>1. saves'[k] = saves[k]
      BY <1>3, <2>3
    <3> QED
      BY <2>3, <3>1 DEF Portal!From
  <2> QED
    BY <2>2, <2>3
<1>6. ASSUME NEW k \in Saves, NEW other \in Editors, Portal!From(k, other)'
      PROVE  other # editor /\ saves'[k] = saves[k]
  BY <1>5, <1>6
<1>7. ASSUME NEW other \in Editors, other # editor, NEW k \in Saves
      PROVE  Portal!From(k, other)' <=> Portal!From(k, other)
  BY <1>5, <1>7
<1>8. /\ PagesOK' /\ pages'[editor].shown = shown
      /\ \A other \in Editors : other # editor => pages'[other] = pages[other]
  <2>1. [open |-> TRUE, shown |-> shown, saving |-> Nobody, canModify |-> Portal!May(editor, "modify")]
          \in Opened
    BY <1>2 DEF Opened, Portal!May
  <2> QED
    BY <1>1, <2>1 DEF PagesOK
<1>9. PageIsThere'
  BY <1>6, <1>7, <1>8 DEF PageIsThere
<1>10. PortalShape'
  BY <1>1, <1>4, <1>8, <1>9 DEF Portal!Open
<1>11. \A role \in Roles : Portal!Effective(role)' = Portal!Effective(role)
  BY DEF Portal!Open, Portal!Effective
<1>12. SavesTell'
  <2> SUFFICES ASSUME NEW k \in Saves, NEW other \in Editors, Portal!From(k, other)',
                      saves'[k].role \notin excused'[other]
               PROVE  (Single(k) /\ Tells(k))'
    BY DEF SavesTell
  <2>1. other # editor /\ saves'[k] = saves[k] /\ Portal!From(k, other) /\ excused'[other] = excused[other]
    BY <1>1, <1>6, <1>7
  <2>2. Single(k) /\ Tells(k)
    BY <2>1 DEF SavesTell
  <2>3. saves[k].editor = other /\ saves[k].role \in Roles
    BY <2>1 DEF Portal!From
  <2>4. Single(k)'
    BY <1>6, <1>7, <2>1, <2>2, <2>3 DEF Single
  <2> QED
    BY <1>11, <2>1, <2>2, <2>3, <2>4 DEF Tells
<1>13. Portal!PageShowsWhatHolds'
  <2> SUFFICES ASSUME NEW other \in Editors, NEW role \in Roles, pages'[other].open,
                      ~ Portal!Busy(other, role)', role \notin excused'[other]
               PROVE  pages'[other].shown[role] = Portal!Effective(role)'
    BY DEF Portal!PageShowsWhatHolds
  <2>1. CASE other = editor
    BY <1>1, <1>8, <1>11, <2>1
  <2>2. CASE other # editor
    <3>1. ~ Portal!Busy(other, role)
      BY <1>3, <1>6, <1>7, <2>2 DEF Portal!Busy
    <3> QED
      BY <1>1, <1>8, <1>11, <2>2, <3>1 DEF Portal!PageShowsWhatHolds
  <2> QED
    BY <2>1, <2>2
<1> QED
  BY <1>10, <1>12, <1>13

(* A switch that is flipped sends what the page showed along.               *)
LEMMA ToggleKeeps ==
  ASSUME Portal!PortalAssumption, PortalInv, NEW editor \in Editors, NEW role \in Roles,
         NEW permission \in Offered, NEW k \in Saves, Portal!Toggle(editor, role, permission, k)
  PROVE  PortalInv'
<1> USE SaveShape DEF PortalInv, PortalShape
<1> DEFINE page == pages[editor]
           set == page.shown[role]
           flipped == IF permission \in set THEN set \ {permission} ELSE set \cup {permission}
           call == [pc |-> "sent", editor |-> editor, as |-> RoleOf[editor], role |-> role,
                    set |-> flipped, previous |-> page.shown]
<1>1. page.open /\ page \in Opened
  BY DEF Portal!Toggle, PagesOK, Portal!Closed
<1>2. page.shown \in Lists /\ [page.shown EXCEPT ![role] = flipped] \in Lists /\ flipped \in Sets
  BY <1>1 DEF Opened, Lists, Sets, Portal!PortalAssumption
<1>3. /\ saves[k] = Portal!Idle /\ Portal!Becomes(k, call) /\ Portal!Shows(editor, [page.shown EXCEPT ![role] = flipped], role)
      /\ UNCHANGED custom
      /\ excused' = IF Portal!Busy(editor, role) THEN [excused EXCEPT ![editor] = @ \cup {role}] ELSE excused
  BY DEF Portal!Toggle
<1>4. call \in Saving
  BY <1>2 DEF Saving, Portal!PortalAssumption
<1> HIDE DEF call, flipped
<1>5. saves'[k] = call /\ SavesOK' /\ \A j \in Saves : j # k => saves'[j] = saves[j]
  BY <1>3, <1>4, OneSaveMoves
<1>6. /\ PagesOK' /\ pages'[editor] \in Opened
      /\ pages'[editor].shown = [page.shown EXCEPT ![role] = flipped]
      /\ \A other \in Editors : other # editor => pages'[other] = pages[other]
  BY <1>1, <1>2, <1>3, OnePageMoves
<1>7. call.pc = "sent" /\ call.editor = editor /\ call.role = role /\ call.previous = page.shown
  BY DEF call
<1>8. \A j \in Saves, other \in Editors :
        Portal!From(j, other)' <=> IF j = k THEN other = editor ELSE Portal!From(j, other)
  BY <1>5, <1>7 DEF Portal!From
<1>9. PortalShape'
  <2>1. PageIsThere'
    BY <1>6, <1>8 DEF PageIsThere
  <2> QED
    BY <1>3, <1>5, <1>6, <2>1
<1>10. \A r \in Roles : Portal!Effective(r)' = Portal!Effective(r)
  BY <1>3 DEF Portal!Effective
<1>11. \A other \in Editors : excused[other] \subseteq excused'[other]
  BY <1>3
<1>12. ~ Portal!From(k, editor)
  BY <1>3 DEF Portal!From, Portal!Idle
<1>13. ASSUME NEW j \in Saves, NEW other \in Editors, Portal!From(j, other)',
              saves'[j].role \notin excused'[other]
       PROVE  (Single(j) /\ Tells(j))'
  <2>1. CASE j = k
    <3>1. other = editor /\ role \notin excused'[editor] /\ saves'[k] = call
      BY <1>5, <1>7, <1>8, <1>13, <2>1
    <3>2. ~ Portal!Busy(editor, role)
      BY <1>3, <3>1
    <3>3. page.shown[role] = Portal!Effective(role)
      BY <1>1, <1>11, <3>1, <3>2 DEF Portal!PageShowsWhatHolds
    <3>4. Single(k)'
      BY <1>5, <1>7, <1>8, <3>1, <3>2 DEF Single, Portal!Busy
    <3> QED
      BY <1>7, <1>10, <2>1, <3>1, <3>3, <3>4 DEF Tells
  <2>2. CASE j # k
    <3>1. saves'[j] = saves[j] /\ Portal!From(j, other) /\ saves[j].editor = other /\ saves[j].role \in Roles
      BY <1>5, <1>8, <1>13, <2>2 DEF Portal!From
    <3>2. Single(j) /\ Tells(j)
      BY <1>11, <1>13, <3>1 DEF SavesTell
    <3>3. ~ (other = editor /\ saves[j].role = role)
      BY <1>3, <1>13, <3>1 DEF Portal!Busy
    <3>4. Single(j)'
      BY <1>5, <1>7, <1>8, <3>1, <3>2, <3>3 DEF Single
    <3> QED
      BY <1>10, <3>1, <3>2, <3>4 DEF Tells
  <2> QED
    BY <2>1, <2>2
<1>14. SavesTell'
  BY <1>13 DEF SavesTell
<1>15. Portal!PageShowsWhatHolds'
  <2> SUFFICES ASSUME NEW other \in Editors, NEW r \in Roles, pages'[other].open,
                      ~ Portal!Busy(other, r)', r \notin excused'[other]
               PROVE  pages'[other].shown[r] = Portal!Effective(r)'
    BY DEF Portal!PageShowsWhatHolds
  <2>1. ~ (other = editor /\ r = role)
    BY <1>5, <1>7, <1>8 DEF Portal!Busy
  <2>2. pages'[other].open => pages[other].open
    BY <1>1, <1>6
  <2>3. pages'[other].shown[r] = pages[other].shown[r]
    BY <1>2, <1>6, <2>1 DEF Lists
  <2>4. ~ Portal!Busy(other, r)
    BY <1>3, <1>5, <1>8 DEF Portal!Busy, Portal!From, Portal!Idle
  <2> QED
    BY <1>10, <1>11, <2>2, <2>3, <2>4 DEF Portal!PageShowsWhatHolds
<1> QED
  BY <1>9, <1>14, <1>15
LEMMA AllowKeeps ==
  ASSUME Portal!PortalAssumption, PortalInv, NEW k \in Saves, Portal!Allow(k)
  PROVE  PortalInv'
<1> USE SaveShape DEF PortalInv, PortalShape
<1>1. /\ saves[k].pc = "sent" /\ Portal!Becomes(k, Portal!At(saves[k], "allowed"))
      /\ UNCHANGED <<custom, pages, excused>>
  BY DEF Portal!Allow
<1>2. Portal!At(saves[k], "allowed") \in Saving
  BY <1>1 DEF Portal!At, Saving
<1>3. /\ saves'[k] = Portal!At(saves[k], "allowed") /\ SavesOK'
      /\ \A j \in Saves : j # k => saves'[j] = saves[j]
  BY <1>1, <1>2, OneSaveMoves
<1>4. ASSUME NEW j \in Saves
      PROVE  /\ saves'[j].role = saves[j].role
             /\ Portal!From(j, saves[j].editor)' => saves'[j].editor = saves[j].editor
             /\ \A editor : Portal!From(j, editor)' <=> Portal!From(j, editor)
             /\ Tells(j)' <=> Tells(j)
             /\ saves'[j].pc # "idle" => saves'[j].editor = saves[j].editor
  BY <1>1, <1>3 DEF Portal!At, Portal!From, Tells, Portal!Effective
<1>5. PortalShape'
  BY <1>1, <1>3, <1>4 DEF PagesOK, PageIsThere
<1>6. \A j \in Saves, editor \in Editors : Portal!From(j, editor) => saves'[j].editor = saves[j].editor
  BY <1>4 DEF Portal!From
<1>7. SavesTell'
  BY <1>1, <1>4, <1>6 DEF SavesTell, Single
<1>8. Portal!PageShowsWhatHolds'
  BY <1>1, <1>4 DEF Portal!PageShowsWhatHolds, Portal!Busy, Portal!Effective
<1> QED
  BY <1>5, <1>7, <1>8

(* What is stored is what the call was sent with; the other pages miss it.  *)
LEMMA SaveKeeps ==
  ASSUME Portal!PortalAssumption, PortalInv, NEW k \in Saves, Portal!Save(k)
  PROVE  PortalInv'
<1> USE SaveShape DEF PortalInv, PortalShape
<1> DEFINE role == saves[k].role
<1>1. /\ saves[k].pc = "allowed" /\ Portal!Becomes(k, Portal!At(saves[k], "saved")) /\ Portal!Missed(k)
      /\ custom' = [custom EXCEPT ![role] =
                      IF saves[k].set = Defaults[role] THEN NoOverride ELSE saves[k].set]
      /\ UNCHANGED pages
  BY DEF Portal!Save
<1>2. Portal!At(saves[k], "saved") \in Saving /\ role \in Roles /\ saves[k].set \in Sets
  BY <1>1 DEF Portal!At, Saving
<1>3. /\ saves'[k] = Portal!At(saves[k], "saved") /\ SavesOK'
      /\ \A j \in Saves : j # k => saves'[j] = saves[j]
  BY <1>1, <1>2, OneSaveMoves
<1>4. ASSUME NEW j \in Saves, NEW editor
      PROVE  /\ saves'[j].role = saves[j].role
             /\ Portal!From(j, editor)' <=> Portal!From(j, editor)
             /\ Portal!From(j, editor) => saves'[j].editor = editor /\ saves[j].editor = editor
  BY <1>1, <1>3 DEF Portal!At, Portal!From
<1>5. /\ \A r \in Roles : r = role => Portal!Effective(r)' = saves[k].set
      /\ \A r \in Roles : r # role => Portal!Effective(r)' = Portal!Effective(r)
  <2>1. saves[k].set # NoOverride
    BY <1>2 DEF Portal!PortalAssumption, Sets
  <2>2. custom'[role] = IF saves[k].set = Defaults[role] THEN NoOverride ELSE saves[k].set
    BY <1>1, <1>2
  <2>3. \A r \in Roles : r # role => custom'[r] = custom[r]
    BY <1>1, <1>2
  <2>4. \A r \in Roles : r = role => Portal!Effective(r)' = saves[k].set
    BY <2>1, <2>2 DEF Portal!Effective
  <2> QED
    BY <2>3, <2>4 DEF Portal!Effective
<1>6. \A editor \in Editors : /\ excused[editor] \subseteq excused'[editor]
                              /\ editor # saves[k].editor => role \in excused'[editor]
  BY <1>1 DEF Portal!Missed
<1>7. PortalShape'
  <2>1. excused' \in [Editors -> SUBSET Roles]
    BY <1>1, <1>2 DEF Portal!Missed
  <2>2. custom' \in [Roles -> Sets \cup {NoOverride}]
    BY <1>1, <1>2
  <2> QED
    BY <1>1, <1>3, <1>4, <2>1, <2>2 DEF PagesOK, PageIsThere
<1>8. ASSUME NEW j \in Saves, NEW editor \in Editors, Portal!From(j, editor)',
             saves'[j].role \notin excused'[editor]
      PROVE  (Single(j) /\ Tells(j))'
  <2>1. Portal!From(j, editor) /\ saves[j].role \notin excused[editor] /\ saves[j].role \in Roles
    BY <1>4, <1>6, <1>8 DEF Portal!From
  <2>2. Single(j) /\ Tells(j)
    BY <2>1 DEF SavesTell
  <2>3. Single(j)'
    BY <1>4, <2>1, <2>2 DEF Single
  <2>4. CASE saves[j].role = role
    <3>1. Portal!From(k, editor)
      BY <1>1, <1>4, <1>6, <1>8, <2>4 DEF Portal!From
    <3>2. k = j
      BY <1>4, <2>1, <2>2, <2>4, <3>1 DEF Single
    <3>3. /\ saves'[k].pc = "saved" /\ saves'[k].set = saves[k].set
          /\ saves'[k].role = saves[k].role
      BY <1>3 DEF Portal!At
    <3> QED
      BY <1>2, <1>5, <2>3, <3>2, <3>3 DEF Tells
  <2>5. CASE saves[j].role # role
    <3>1. saves'[j] = saves[j]
      BY <1>3, <2>5
    <3> QED
      BY <1>5, <2>1, <2>2, <2>3, <2>5, <3>1 DEF Tells
  <2> QED
    BY <2>4, <2>5
<1>9. SavesTell'
  BY <1>8 DEF SavesTell
<1>10. Portal!PageShowsWhatHolds'
  <2> SUFFICES ASSUME NEW editor \in Editors, NEW r \in Roles, pages'[editor].open,
                      ~ Portal!Busy(editor, r)', r \notin excused'[editor]
               PROVE  pages'[editor].shown[r] = Portal!Effective(r)'
    BY DEF Portal!PageShowsWhatHolds
  <2>1. ~ Portal!Busy(editor, r)
    BY <1>4 DEF Portal!Busy
  <2>2. r # role
    BY <1>1, <1>6, <2>1 DEF Portal!Busy, Portal!From
  <2> QED
    BY <1>1, <1>5, <1>6, <2>1, <2>2 DEF Portal!PageShowsWhatHolds
<1> QED
  BY <1>7, <1>9, <1>10

(* A call that ends leaves the others as they were.                         *)
LEMMA EndingKeepsSaves ==
  ASSUME Portal!PortalAssumption, PortalInv, NEW k \in Saves, Portal!Becomes(k, Portal!Idle), UNCHANGED custom,
         \A editor \in Editors : excused[editor] \subseteq excused'[editor]
  PROVE  /\ SavesOK' /\ SavesTell'
         /\ \A j \in Saves, editor \in Editors : Portal!From(j, editor)' <=> Portal!From(j, editor) /\ j # k
<1> USE SaveShape DEF PortalInv, PortalShape
<1>1. SavesOK' /\ saves'[k] = Portal!Idle /\ \A j \in Saves : j # k => saves'[j] = saves[j]
  BY OneSaveMoves DEF Saving
<1>2. \A j \in Saves, editor \in Editors : Portal!From(j, editor)' <=> Portal!From(j, editor) /\ j # k
  BY <1>1 DEF Portal!From, Portal!Idle
<1>3. ASSUME NEW j \in Saves, NEW editor \in Editors, Portal!From(j, editor)',
             saves'[j].role \notin excused'[editor]
      PROVE  (Single(j) /\ Tells(j))'
  <2>1. Portal!From(j, editor) /\ saves'[j] = saves[j] /\ saves[j].editor = editor
    BY <1>1, <1>2, <1>3 DEF Portal!From
  <2>2. Single(j) /\ Tells(j)
    BY <1>3, <2>1 DEF SavesTell
  <2>3. Single(j)'
    BY <1>1, <1>2, <2>1, <2>2 DEF Single
  <2> QED
    BY <2>1, <2>2, <2>3 DEF Tells, Portal!Effective
<1> QED
  BY <1>1, <1>2, <1>3 DEF SavesTell

LEMMA AnswerKeeps ==
  ASSUME Portal!PortalAssumption, PortalInv, NEW k \in Saves, Portal!Answer(k)
  PROVE  PortalInv'
<1> USE SaveShape DEF PortalInv, PortalShape
<1> DEFINE author == saves[k].editor
           role == saves[k].role
<1>1. saves[k].pc = "saved" /\ Portal!Becomes(k, Portal!Idle) /\ UNCHANGED <<custom, excused>>
  BY DEF Portal!Answer
<1>2. /\ SavesOK' /\ SavesTell'
      /\ \A j \in Saves, editor \in Editors : Portal!From(j, editor)' <=> Portal!From(j, editor) /\ j # k
  BY <1>1, EndingKeepsSaves
<1>3. \A j \in Saves : j # k => saves'[j] = saves[j]
  BY <1>1, OneSaveMoves
<1>4. role \in Roles /\ saves[k].set \in Sets /\ author \in Editors \cup {Nobody}
  BY <1>1
<1>5. CASE author = Nobody
  <2>1. UNCHANGED pages
    BY <1>5 DEF Portal!Answer
  <2>2. \A j \in Saves, editor \in Editors : Portal!From(j, editor)' <=> Portal!From(j, editor)
    BY <1>2, <1>5 DEF Portal!From, Portal!PortalAssumption
  <2>3. Portal!PageShowsWhatHolds'
    BY <1>1, <1>3, <1>5, <2>1, <2>2 DEF Portal!PageShowsWhatHolds, Portal!Busy, Portal!Effective, Portal!From, Portal!PortalAssumption
  <2> QED
    BY <1>1, <1>2, <2>1, <2>2, <2>3 DEF PagesOK, PageIsThere
<1>6. CASE author \in Editors /\ author # Nobody
  <2>1. Portal!From(k, author) /\ pages[author] \in Opened
    BY <1>1, <1>6 DEF Portal!From, PageIsThere
  <2>2. [pages[author].shown EXCEPT ![role] = saves[k].set] \in Lists
    BY <1>4, <2>1 DEF Opened, Lists
  <2>3. /\ PagesOK' /\ pages'[author] \in Opened
        /\ pages'[author].shown = [pages[author].shown EXCEPT ![role] = saves[k].set]
        /\ \A other \in Editors : other # author => pages'[other] = pages[other]
    BY <1>6, <2>1, <2>2, OnePageMoves DEF Portal!Answer
  <2>4. PageIsThere'
    BY <1>2, <2>3 DEF PageIsThere
  <2>5. Portal!PageShowsWhatHolds'
    <3> SUFFICES ASSUME NEW editor \in Editors, NEW r \in Roles, pages'[editor].open,
                        ~ Portal!Busy(editor, r)', r \notin excused'[editor]
                 PROVE  pages'[editor].shown[r] = Portal!Effective(r)'
      BY DEF Portal!PageShowsWhatHolds
    <3>1. CASE editor = author /\ r = role
      <4>1. saves[k].set = Portal!Effective(role)
        BY <1>1, <2>1, <3>1 DEF SavesTell, Tells
      <4>2. pages[author].shown \in Lists
        BY <2>1 DEF Opened
      <4>3. pages'[author].shown[role] = saves[k].set
        BY <1>4, <2>3, <4>2 DEF Lists
      <4> QED
        BY <1>1, <3>1, <4>1, <4>3 DEF Portal!Effective
    <3>2. CASE ~ (editor = author /\ r = role)
      <4>1. ~ Portal!Busy(editor, r)
        BY <1>2, <1>3, <3>2 DEF Portal!Busy, Portal!From
      <4>2. pages[editor].open /\ pages'[editor].shown[r] = pages[editor].shown[r]
        <5>1. CASE editor = author
          <6>1. pages[author].shown \in Lists /\ pages[author].open
            BY <2>1 DEF Opened
          <6>2. pages'[author].shown[r] = pages[author].shown[r]
            BY <1>4, <2>3, <3>2, <5>1, <6>1 DEF Lists
          <6> QED
            BY <5>1, <6>1, <6>2
        <5>2. CASE editor # author
          BY <2>3, <5>2
        <5> QED
          BY <5>1, <5>2
      <4> QED
        BY <1>1, <4>1, <4>2 DEF Portal!PageShowsWhatHolds, Portal!Effective
    <3> QED
      BY <3>1, <3>2
  <2> QED
    BY <1>1, <1>2, <2>3, <2>4, <2>5
<1> QED
  BY <1>4, <1>5, <1>6

(* The list that is put back agrees with what holds for the call's role,    *)
(* and with what the page showed, or the role is excused.                   *)
LEMMA FailKeeps ==
  ASSUME Portal!PortalAssumption, PortalInv, NEW k \in Saves, Portal!Fail(k)
  PROVE  PortalInv'
<1> USE SaveShape DEF PortalInv, PortalShape
<1> DEFINE author == saves[k].editor
           role == saves[k].role
<1>1. saves[k] # Portal!Idle /\ Portal!Becomes(k, Portal!Idle) /\ UNCHANGED custom
  BY DEF Portal!Fail
<1>2. role \in Roles /\ saves[k].previous \in Lists /\ author \in Editors \cup {Nobody} /\ saves[k].pc # "idle"
  BY <1>1
<1>3. \A j \in Saves : j # k => saves'[j] = saves[j]
  BY <1>1, OneSaveMoves
<1>4. CASE author = Nobody
  <2>1. UNCHANGED <<pages, excused>>
    BY <1>4 DEF Portal!Fail
  <2>2. /\ SavesOK' /\ SavesTell'
        /\ \A j \in Saves, editor \in Editors : Portal!From(j, editor)' <=> Portal!From(j, editor) /\ j # k
    BY <1>1, <2>1, EndingKeepsSaves
  <2>3. \A j \in Saves, editor \in Editors : Portal!From(j, editor)' <=> Portal!From(j, editor)
    BY <1>4, <2>2 DEF Portal!From, Portal!PortalAssumption
  <2>4. Portal!PageShowsWhatHolds'
    BY <1>1, <1>3, <1>4, <2>1, <2>3 DEF Portal!PageShowsWhatHolds, Portal!Busy, Portal!Effective, Portal!From, Portal!PortalAssumption
  <2> QED
    BY <1>1, <2>1, <2>2, <2>3, <2>4 DEF PagesOK, PageIsThere
<1>5. CASE author \in Editors /\ author # Nobody
  <2>1. Portal!From(k, author) /\ pages[author] \in Opened
    BY <1>2, <1>5 DEF Portal!From, PageIsThere
  <2>2. /\ Portal!Shows(author, saves[k].previous, Nobody)
        /\ excused' = [excused EXCEPT ![author] = excused[author] \cup
             {r \in Roles : \/ r # role /\ saves[k].previous[r] # pages[author].shown[r]
                            \/ r = role /\ saves[k].pc = "saved"}]
    BY <1>5 DEF Portal!Fail
  <2>3. /\ PagesOK' /\ pages'[author] \in Opened /\ pages'[author].shown = saves[k].previous
        /\ \A other \in Editors : other # author => pages'[other] = pages[other]
    BY <1>2, <1>5, <2>1, <2>2, OnePageMoves
  <2>4. \A editor \in Editors : excused[editor] \subseteq excused'[editor]
    BY <2>2
  <2>5. /\ SavesOK' /\ SavesTell'
        /\ \A j \in Saves, editor \in Editors : Portal!From(j, editor)' <=> Portal!From(j, editor) /\ j # k
    BY <1>1, <2>4, EndingKeepsSaves
  <2>6. PageIsThere'
    BY <2>3, <2>5 DEF PageIsThere
  <2>7. excused' \in [Editors -> SUBSET Roles]
    BY <2>2
  <2>8. Portal!PageShowsWhatHolds'
    <3> SUFFICES ASSUME NEW editor \in Editors, NEW r \in Roles, pages'[editor].open,
                        ~ Portal!Busy(editor, r)', r \notin excused'[editor]
                 PROVE  pages'[editor].shown[r] = Portal!Effective(r)'
      BY DEF Portal!PageShowsWhatHolds
    <3>1. CASE editor = author /\ r = role
      <4>1. saves[k].pc # "saved" /\ r \notin excused[author]
        BY <1>5, <2>2, <2>4, <3>1
      <4>2. saves[k].previous[role] = Portal!Effective(role)
        BY <2>1, <1>5, <3>1, <4>1 DEF SavesTell, Tells
      <4> QED
        BY <1>1, <2>3, <3>1, <4>2 DEF Portal!Effective
    <3>2. CASE ~ (editor = author /\ r = role)
      <4>1. ~ Portal!Busy(editor, r)
        BY <1>3, <2>5, <3>2 DEF Portal!Busy, Portal!From
      <4>2. pages[editor].open /\ pages'[editor].shown[r] = pages[editor].shown[r]
        <5>1. CASE editor = author
          <6>1. pages[author].open
            BY <2>1 DEF Opened
          <6>2. excused'[author] = excused[author] \cup
                  {q \in Roles : \/ q # role /\ saves[k].previous[q] # pages[author].shown[q]
                                 \/ q = role /\ saves[k].pc = "saved"}
            BY <1>5, <2>2
          <6>3. saves[k].previous[r] = pages[author].shown[r]
            BY <3>2, <5>1, <6>2
          <6> QED
            BY <2>3, <5>1, <6>1, <6>3
        <5>2. CASE editor # author
          BY <2>3, <5>2
        <5> QED
          BY <5>1, <5>2
      <4> QED
        BY <1>1, <2>4, <4>1, <4>2 DEF Portal!PageShowsWhatHolds, Portal!Effective
    <3> QED
      BY <3>1, <3>2
  <2> QED
    BY <1>1, <2>3, <2>5, <2>6, <2>7, <2>8
<1> QED
  BY <1>2, <1>4, <1>5

LEMMA PortalInvNext ==
  Portal!PortalAssumption => (PortalInv /\ [Portal!Next]_(Portal!vars) => PortalInv')
<1>1. ASSUME PortalInv, UNCHANGED Portal!vars
      PROVE  PortalInv'
  BY <1>1 DEF Portal!vars, PortalInv, PortalShape, SavesOK, PagesOK, PageIsThere, Portal!From, SavesTell, Single, Tells,
              Portal!Effective, Portal!PageShowsWhatHolds, Portal!Busy
<1> QED
  BY <1>1, OpenKeeps, ToggleKeeps, AllowKeeps, SaveKeeps, AnswerKeeps, FailKeeps DEF Portal!Next

(* The table, the pages and the saves keep their types, and the page a call *)
(* will answer is open.                                                     *)
THEOREM PortalTypesHold == Portal!PortalAssumption => (Portal!Spec => []PortalShape)
<1> SUFFICES ASSUME Portal!PortalAssumption
             PROVE  Portal!Spec => []PortalShape
  OBVIOUS
<1>1. PortalInv /\ [Portal!Next]_(Portal!vars) => PortalInv'
  BY PortalInvNext
<1>2. PortalInv => PortalShape
  BY DEF PortalInv
<1> QED
  BY PortalInit, <1>1, <1>2, PTL DEF Portal!Spec

(* What the switches of a role show when it is not being saved is what the  *)
(* routes enforce, but for the cases the property names (handleToggle,      *)
(* PATCH /portal/permissions/:role).                                        *)
THEOREM SwitchesShowWhatHolds == Portal!PortalAssumption => (Portal!Spec => []Portal!PageShowsWhatHolds)
<1> SUFFICES ASSUME Portal!PortalAssumption
             PROVE  Portal!Spec => []Portal!PageShowsWhatHolds
  OBVIOUS
<1>1. PortalInv /\ [Portal!Next]_(Portal!vars) => PortalInv'
  BY PortalInvNext
<1>2. PortalInv => Portal!PageShowsWhatHolds
  BY DEF PortalInv
<1> QED
  BY PortalInit, <1>1, <1>2, PTL DEF Portal!Spec

-----------------------------------------------------------------------------
(* Where a user is, with names of their own for the requests in flight.     *)

CONSTANTS Orgs, NoOrg, Tenants, NoTenant, OrgOf, Me, Others, ClaimedOrg, ClaimedTenant, Askers,
          MaxChanges, MaxAsked

VARIABLES joined, staff, places, granted, requests, page, portal, rows, changes, asked, been,
          abroad, misled, shut

Where == INSTANCE Contexts WITH Calls <- Askers, calls <- requests

(* The instance counts as this module does.                                 *)
LEMMA CountsAlike ==
  /\ \A S : Where!IsFiniteSet(S) <=> IsFiniteSet(S)
  /\ \A S : Where!Cardinality(S) = Cardinality(S)
BY DEF Where!IsFiniteSet, IsFiniteSet, Where!Cardinality, Cardinality

(* Of finitely many rows one is the oldest.                                 *)
LEMMA OldestIsOne ==
  ASSUME NEW S, IsFiniteSet(S), S # {}, \A row \in S : row.since \in Int
  PROVE  Where!Oldest(S) \in S
<1> DEFINE HasOldest(U) == \E r \in U : \A other \in U : r.since <= other.since
           Bad == {U \in SUBSET S : U # {} /\ ~ HasOldest(U)}
<1>1. SUFFICES ASSUME Bad # {}
               PROVE  FALSE
  <2>1. S \in SUBSET S
    OBVIOUS
  <2>2. SUFFICES ASSUME ~ (Where!Oldest(S) \in S)
                 PROVE  S \in Bad
    OBVIOUS
  <2>3. ~ HasOldest(S)
    BY <2>2 DEF Where!Oldest
  <2> QED
    BY <2>1, <2>3
<1>2. Bad \subseteq FiniteSubsetsOf(S)
  BY FS_Subset DEF FiniteSubsetsOf
<1>3. PICK U \in Bad : \A V \in Bad : <<V, U>> \notin StrictSubsetOrdering(S)
  BY <1>1, <1>2, FS_StrictSubsetOrderingWellFounded, WFMin
<1>4. PICK x \in U : TRUE
  BY <1>3
<1>5. U \ {x} \notin Bad
  BY <1>3, <1>4 DEF StrictSubsetOrdering
<1>6. CASE U \ {x} = {}
  <2>1. U = {x} /\ x.since \in Int
    BY <1>3, <1>4, <1>6
  <2> QED
    BY <1>3, <2>1
<1>7. CASE U \ {x} # {}
  <2>1. PICK r \in U \ {x} : \A other \in U \ {x} : r.since <= other.since
    BY <1>3, <1>5, <1>7
  <2>2. \A row \in U : row.since \in Int
    BY <1>3
  <2>3. HasOldest(U)
    <3>1. CASE x.since <= r.since
      <4>1. \A other \in U : x.since <= other.since
        BY <1>4, <2>1, <2>2, <3>1
      <4> QED
        BY <1>4, <4>1
    <3>2. CASE ~ (x.since <= r.since)
      <4>1. \A other \in U : r.since <= other.since
        BY <1>4, <2>1, <2>2, <3>2
      <4> QED
        BY <2>1, <4>1
    <3> QED
      BY <3>1, <3>2
  <2> QED
    BY <1>3, <2>3
<1> QED
  BY <1>6, <1>7

-----------------------------------------------------------------------------
(* What the tables and the requests in flight contain *)

Wishes == Tenants \cup {NoTenant}
Kinds == {"context", "users", "write"}

Asked == [pc: {"org"}, kind: Kinds, wanted: Wishes, open: BOOLEAN]
Placed == [pc: {"tenant"}, kind: Kinds, wanted: Wishes, open: BOOLEAN, org: Orgs]
Settling == [pc: {"act"}, kind: Kinds, wanted: Wishes, open: BOOLEAN, org: Orgs, tenant: Tenants]

ContextTypes ==
  /\ joined \subseteq [org: Orgs, role: {"OWNER", "ADMIN", "MEMBER"}, since: Int]
  /\ granted \subseteq [user: Others \cup {Me}, tenant: Tenants, org: Orgs, since: Int]
  /\ places \subseteq Tenants /\ been \subseteq Orgs /\ changes \in Nat
  /\ requests \in [Askers -> {Where!Idle} \cup Asked \cup Placed \cup Settling]
  /\ page \in [tenant: Wishes, people: SUBSET (Others \cup {Me})]
  /\ portal.tenants \subseteq Tenants /\ portal.at \in Nat

(* The directory: the user has been in the organizations of the memberships *)
(* and of the entitlements, but for those given abroad.                     *)
Directories ==
  /\ IsFiniteSet(joined) /\ IsFiniteSet(granted) /\ IsFiniteSet(been) /\ been # {}
  /\ \A m \in joined : m.org \in been
  /\ \A e \in granted : e.user = Me => OrgOf[e.tenant] \in been \/ e.tenant \in abroad

(* A request that is still open asks for a tenant that is still promised;   *)
(* the organization it was given is the only one, if there is only one; and *)
(* the tenant it goes on with is in an organization the user has been in,   *)
(* or was given abroad.                                                     *)
Sound(call) ==
  call # Where!Idle =>
    /\ call.open => Where!Promised(call.wanted)
    /\ call.pc \in {"tenant", "act"} /\ Where!Settled => call.org \in been
    /\ call.pc = "act" => OrgOf[call.tenant] \in been \/ call.tenant \in abroad

(* What the launcher showed last, if nothing has changed since.             *)
Shows ==
  portal.at <= changes
  /\ (portal.at = changes => \A t \in portal.tenants : Where!Opens(t) \/ Where!EntitledTo(Me, t))

ContextInv ==
  /\ ContextTypes /\ Directories /\ Shows
  /\ \A k \in Askers : Sound(requests[k])
  /\ Where!WritesStayInTheOrganization /\ Where!AskedTenantIsGiven

LEMMA OneOrganization ==
  ASSUME IsFiniteSet(been), Where!Settled
  PROVE  \E org : been = {org}
BY CountsAlike, FS_Singleton DEF Where!Settled

(* More organizations settle nothing.                                       *)
LEMMA SettledBefore ==
  ASSUME IsFiniteSet(been'), been # {}, been \subseteq been', Where!Settled'
  PROVE  been' = been /\ Where!Settled
<1>1. PICK org : been' = {org}
  BY CountsAlike, FS_Singleton DEF Where!Settled
<1>2. been = been'
  BY <1>1
<1> QED
  BY <1>2 DEF Where!Settled

LEMMA ContextsStart ==
  ASSUME Where!ContextsAssumption, Where!Init
  PROVE  ContextInv
<1>1. PICK org \in Orgs, role \in {"ADMIN", "MEMBER"} :
        /\ joined = {[org |-> org, role |-> role, since |-> 0]} /\ been = {org}
        /\ places = {t \in Tenants : OrgOf[t] = org}
        /\ \E since \in [places -> 1 - Cardinality(places) .. 0] :
             granted = {[user |-> Me, tenant |-> t, org |-> org, since |-> since[t]] : t \in places}
  BY CountsAlike DEF Where!Init
<1>2. PICK since \in [places -> 1 - Cardinality(places) .. 0] :
        granted = {[user |-> Me, tenant |-> t, org |-> org, since |-> since[t]] : t \in places}
  BY <1>1
<1>3. /\ requests = [k \in Askers |-> Where!Idle]
      /\ page = [tenant |-> NoTenant, people |-> {}]
      /\ portal = [org |-> NoOrg, tenants |-> {}, at |-> 0]
      /\ rows = {} /\ changes = 0 /\ misled = {} /\ shut = {}
  BY DEF Where!Init
<1>4. places \subseteq Tenants /\ IsFiniteSet(places)
  <2>1. places \in SUBSET Tenants /\ IsFiniteSet(Tenants)
    BY <1>1, CountsAlike DEF Where!ContextsAssumption
  <2> QED
    BY <2>1, FS_Subset
<1>5. \A t \in places : since[t] \in Int
  <2>1. Cardinality(places) \in Nat
    BY <1>4, FS_CardinalityType
  <2> QED
    BY <1>2, <2>1
<1>6. ContextTypes
  <2>1. joined \subseteq [org: Orgs, role: {"OWNER", "ADMIN", "MEMBER"}, since: Int]
    BY <1>1
  <2>2. granted \subseteq [user: Others \cup {Me}, tenant: Tenants, org: Orgs, since: Int]
    BY <1>1, <1>2, <1>4, <1>5
  <2>3. /\ page \in [tenant: Wishes, people: SUBSET (Others \cup {Me})]
        /\ portal.tenants \subseteq Tenants /\ portal.at \in Nat
    BY <1>3 DEF Wishes
  <2> QED
    BY <1>1, <1>3, <1>4, <2>1, <2>2, <2>3 DEF ContextTypes
<1>7. IsFiniteSet(granted)
  <2> DEFINE f == [t \in places |-> [user |-> Me, tenant |-> t, org |-> org, since |-> since[t]]]
  <2>1. f \in Surjection(places, granted)
    BY <1>2 DEF Surjection
  <2> QED
    BY ONLY <1>4, <2>1, FS_Surjection
<1>8. Directories
  <2>1. IsFiniteSet(joined) /\ IsFiniteSet(been)
    BY <1>1, FS_Singleton
  <2>2. \A e \in granted : e.tenant \in places
    BY <1>2
  <2> QED
    BY <1>1, <1>7, <2>1, <2>2 DEF Directories
<1> QED
  BY <1>3, <1>6, <1>8 DEF ContextInv, Shows, Sound, Where!WritesStayInTheOrganization,
                          Where!AskedTenantIsGiven

(* The organization a request is given is one the user has been in, or the  *)
(* claims' one; there is one if the user or the token has one.              *)
LEMMA GivenOrganization ==
  ASSUME Where!ContextsAssumption, ContextInv, Where!TasksOrg # NoOrg
  PROVE  Where!TasksOrg \in Orgs /\ (Where!Settled => Where!TasksOrg \in been)
<1>1. CASE ClaimedOrg # NoOrg
  BY <1>1 DEF Where!TasksOrg, Where!ContextsAssumption, Where!Settled
<1>2. CASE ClaimedOrg = NoOrg
  <2>1. joined # {} /\ Where!TasksOrg = Where!Oldest(joined).org
    BY <1>2 DEF Where!TasksOrg
  <2>2. Where!Oldest(joined) \in joined
    BY <2>1, OldestIsOne DEF ContextInv, ContextTypes, Directories
  <2> QED
    BY <2>1, <2>2 DEF ContextInv, ContextTypes, Directories
<1> QED
  BY <1>1, <1>2

LEMMA FoundOrganization ==
  ASSUME Where!ContextsAssumption, ContextInv, ClaimedOrg # NoOrg \/ joined # {}
  PROVE  Where!TasksOrg # NoOrg
<1>1. CASE ClaimedOrg # NoOrg
  BY <1>1 DEF Where!TasksOrg
<1>2. CASE ClaimedOrg = NoOrg
  <2>1. joined # {} /\ Where!TasksOrg = Where!Oldest(joined).org
    BY <1>2 DEF Where!TasksOrg
  <2>2. Where!Oldest(joined) \in joined
    BY <2>1, OldestIsOne DEF ContextInv, ContextTypes, Directories
  <2>3. Where!Oldest(joined).org \in Orgs /\ NoOrg \notin Orgs
    BY <2>2 DEF ContextInv, ContextTypes, Where!ContextsAssumption
  <2> QED
    BY <2>1, <2>3
<1> QED
  BY <1>1, <1>2

(* The tenant a request is given is one where the user has the product, and *)
(* the one it asks for if that is one.                                      *)
LEMMA GivenTenant ==
  ASSUME ContextInv, Where!Mine # {}, NEW wanted
  PROVE  /\ Where!Active(wanted, Where!Mine) \in Tenants
         /\ Where!EntitledTo(Me, Where!Active(wanted, Where!Mine))
         /\ Where!EntitledTo(Me, wanted) => Where!Active(wanted, Where!Mine) = wanted
         /\ \/ OrgOf[Where!Active(wanted, Where!Mine)] \in been
            \/ Where!Active(wanted, Where!Mine) \in abroad
<1> DEFINE mine == Where!Mine
           tenant == Where!Active(wanted, mine)
<1>1. mine \subseteq granted /\ mine # {} /\ \A e \in mine : e.user = Me
  BY DEF Where!Mine
<1>2. IsFiniteSet(mine)
  BY <1>1, FS_Subset DEF ContextInv, Directories
<1>3. Where!Oldest(mine) \in mine
  BY <1>1, <1>2, OldestIsOne DEF ContextInv, ContextTypes
<1>4. \E e \in mine : tenant = e.tenant
  BY <1>3 DEF Where!Active
<1>5. Where!EntitledTo(Me, wanted) => tenant = wanted
  BY DEF Where!EntitledTo, Where!Mine, Where!Active
<1>6. Where!EntitledTo(Me, tenant) /\ tenant \in Tenants
  BY <1>1, <1>4 DEF Where!EntitledTo, ContextInv, ContextTypes
<1>7. OrgOf[tenant] \in been \/ tenant \in abroad
  BY <1>6 DEF Where!EntitledTo, ContextInv, Directories
<1> QED
  BY <1>5, <1>6, <1>7

-----------------------------------------------------------------------------
(* The steps *)

Stored(row) == Where!Settled => row.tenant \in abroad \/ row.org = OrgOf[row.tenant]

(* A step of a request, in which the directory does not change.             *)
LEMMA RequestKeeps ==
  ASSUME ContextInv, NEW k \in Askers, NEW call,
         call \in {Where!Idle} \cup Asked \cup Placed \cup Settling, Sound(call),
         requests' = [requests EXCEPT ![k] = call],
         page' \in [tenant: Wishes, people: SUBSET (Others \cup {Me})],
         \A row \in rows' : row \in rows \/ Stored(row),
         misled' = misled,
         UNCHANGED <<joined, staff, places, granted, changes, been, abroad, portal, shut>>
  PROVE  ContextInv'
<1>1. /\ Where!Settled' = Where!Settled
      /\ \A t : Where!EntitledTo(Me, t)' = Where!EntitledTo(Me, t)
      /\ \A t : Where!Promised(t)' = Where!Promised(t)
      /\ \A t : Where!Opens(t)' = Where!Opens(t)
  BY DEF Where!Settled, Where!EntitledTo, Where!Promised, Where!Opens
<1>2. ContextTypes'
  BY DEF ContextInv, ContextTypes
<1>3. Directories'
  BY <1>1 DEF ContextInv, Directories
<1>4. Shows'
  BY <1>1 DEF ContextInv, Shows
<1>5. \A j \in Askers : Sound(requests[j])'
  <2> SUFFICES ASSUME NEW j \in Askers
               PROVE  Sound(requests[j])'
    OBVIOUS
  <2>1. requests'[j] = call \/ requests'[j] = requests[j]
    BY DEF ContextInv, ContextTypes
  <2>2. \A c : Sound(c) => /\ c # Where!Idle =>
                               /\ c.open => Where!Promised(c.wanted)'
                               /\ c.pc \in {"tenant", "act"} /\ Where!Settled' => c.org \in been'
                               /\ c.pc = "act" => OrgOf[c.tenant] \in been' \/ c.tenant \in abroad'
    BY <1>1 DEF Sound
  <2> QED
    BY <2>1, <2>2 DEF ContextInv, Sound
<1>6. Where!WritesStayInTheOrganization'
  BY <1>1 DEF ContextInv, Where!WritesStayInTheOrganization, Stored
<1>7. Where!AskedTenantIsGiven'
  BY DEF ContextInv, Where!AskedTenantIsGiven
<1> QED
  BY <1>2, <1>3, <1>4, <1>5, <1>6, <1>7 DEF ContextInv

LEMMA AskKeeps ==
  ASSUME ContextInv, NEW k \in Askers, Where!Ask(k)
  PROVE  ContextInv'
<1>1. PICK kind \in Kinds, t \in Wishes :
        /\ requests' = [requests EXCEPT ![k] =
             [pc |-> "org", kind |-> kind, wanted |-> t, open |-> Where!Promised(t)]]
  BY DEF Where!Ask, Kinds, Wishes
<1> DEFINE call == [pc |-> "org", kind |-> kind, wanted |-> t, open |-> Where!Promised(t)]
<1>2. Where!Promised(t) \in BOOLEAN
  BY DEF Where!EntitledTo, Where!Promised
<1>3. call \in Asked
  BY <1>2 DEF Asked
<1>4. Sound(call)
  BY <1>1 DEF Sound
<1> HIDE DEF call
<1>5. /\ page' \in [tenant: Wishes, people: SUBSET (Others \cup {Me})]
      /\ UNCHANGED <<joined, staff, places, granted, changes, been, abroad, portal, rows, misled, shut>>
  BY DEF Where!Ask, Where!Directory, ContextInv, ContextTypes
<1> QED
  BY <1>1, <1>3, <1>4, <1>5, RequestKeeps DEF call

LEMMA ResolveOrgKeeps ==
  ASSUME Where!ContextsAssumption, ContextInv, NEW k \in Askers, Where!ResolveOrg(k)
  PROVE  ContextInv'
<1> DEFINE old == requests[k]
           new == [pc |-> "tenant", kind |-> old.kind, wanted |-> old.wanted, open |-> old.open,
                   org |-> Where!TasksOrg]
           call == IF Where!TasksOrg = NoOrg THEN Where!Idle ELSE new
<1>1. old \in Asked /\ Sound(old)
  BY DEF Where!ResolveOrg, ContextInv, ContextTypes, Placed, Settling, Where!Idle
<1>2. requests' = [requests EXCEPT ![k] = call]
  BY DEF Where!ResolveOrg
<1>3. Where!TasksOrg # NoOrg => new \in Placed /\ Sound(new)
  <2> SUFFICES ASSUME Where!TasksOrg # NoOrg
               PROVE  new \in Placed /\ Sound(new)
    OBVIOUS
  <2>1. Where!TasksOrg \in Orgs /\ (Where!Settled => Where!TasksOrg \in been)
    BY GivenOrganization
  <2> QED
    BY <1>1, <2>1 DEF Asked, Placed, Sound, Where!Idle
<1>4. call \in {Where!Idle} \cup Asked \cup Placed \cup Settling /\ Sound(call)
  BY <1>3 DEF Sound
<1>6. misled' = misled
  <2>1. misled' = misled \cup IF Where!TasksOrg = NoOrg /\ old.open THEN {old.wanted} ELSE {}
    BY DEF Where!ResolveOrg
  <2>2. old.open => Where!TasksOrg # NoOrg
    BY <1>1, FoundOrganization DEF Sound, Where!Promised, Where!Idle, Asked
  <2> QED
    BY <2>1, <2>2
<1> HIDE DEF call
<1>5. /\ page' \in [tenant: Wishes, people: SUBSET (Others \cup {Me})]
      /\ UNCHANGED <<joined, staff, places, granted, changes, been, abroad, portal, rows, shut>>
  BY DEF Where!ResolveOrg, Where!Directory, ContextInv, ContextTypes
<1> QED
  BY <1>2, <1>4, <1>5, <1>6, RequestKeeps

LEMMA ResolveTenantKeeps ==
  ASSUME ContextInv, NEW k \in Askers, Where!ResolveTenant(k)
  PROVE  ContextInv'
<1> DEFINE old == requests[k]
           tenant == Where!Active(old.wanted, Where!Mine)
           new == [pc |-> "act", kind |-> old.kind, wanted |-> old.wanted, open |-> old.open,
                   org |-> old.org, tenant |-> tenant]
<1>1. old \in Placed /\ Sound(old) /\ old # Where!Idle
  BY DEF Where!ResolveTenant, ContextInv, ContextTypes, Asked, Settling, Placed, Where!Idle
<1>2. /\ page' \in [tenant: Wishes, people: SUBSET (Others \cup {Me})]
      /\ UNCHANGED <<joined, staff, places, granted, changes, been, abroad, portal, rows, shut>>
  BY DEF Where!ResolveTenant, Where!Directory, ContextInv, ContextTypes
<1>3. Where!Idle \in {Where!Idle} \cup Asked \cup Placed \cup Settling /\ Sound(Where!Idle)
  BY DEF Sound
<1>4. CASE Where!Mine = {}
  <2>1. /\ requests' = [requests EXCEPT ![k] = Where!Idle]
        /\ misled' = misled \cup IF old.open THEN {old.wanted} ELSE {}
    BY <1>4 DEF Where!ResolveTenant
  <2>2. ~ old.open
    BY <1>1, <1>4 DEF Sound, Where!Promised, Where!EntitledTo, Where!Mine
  <2> QED
    BY <1>2, <1>3, <2>1, <2>2, RequestKeeps
<1>5. CASE Where!Mine # {}
  <2>1. /\ requests' = [requests EXCEPT ![k] = IF Where!GoOn(old, tenant) THEN new ELSE Where!Idle]
        /\ misled' = misled \cup IF tenant # old.wanted /\ old.open THEN {old.wanted} ELSE {}
    BY <1>5 DEF Where!ResolveTenant
  <2>2. /\ tenant \in Tenants /\ (OrgOf[tenant] \in been \/ tenant \in abroad)
        /\ Where!EntitledTo(Me, old.wanted) => tenant = old.wanted
    BY <1>5, GivenTenant
  <2> HIDE DEF tenant
  <2>3. misled' = misled
    BY <1>1, <2>1, <2>2 DEF Sound, Where!Promised
  <2>4. Where!GoOn(old, tenant) => new \in Settling /\ Sound(new)
    BY <1>1, <2>2 DEF Sound, Placed, Settling
  <2> HIDE DEF new
  <2>5. CASE Where!GoOn(old, tenant)
    BY <1>2, <2>1, <2>3, <2>4, <2>5, RequestKeeps
  <2>6. CASE ~ Where!GoOn(old, tenant)
    BY <1>2, <1>3, <2>1, <2>3, <2>6, RequestKeeps
  <2> QED
    BY <2>5, <2>6
<1> QED
  BY <1>4, <1>5

LEMMA ActKeeps ==
  ASSUME ContextInv, NEW k \in Askers,
         Where!ShowContext(k) \/ Where!Store(k) \/ Where!ListUsers(k)
  PROVE  ContextInv'
<1> DEFINE call == requests[k]
<1>1. call \in Settling /\ Sound(call) /\ call # Where!Idle
  BY DEF Where!ShowContext, Where!Store, Where!ListUsers, ContextInv, ContextTypes, Asked, Settling,
         Placed, Where!Idle
<1>2. /\ requests' = [requests EXCEPT ![k] = Where!Idle]
      /\ UNCHANGED <<joined, staff, places, granted, changes, been, abroad, portal, shut>>
  BY DEF Where!ShowContext, Where!Store, Where!ListUsers, Where!Directory
<1>3. Where!Idle \in {Where!Idle} \cup Asked \cup Placed \cup Settling /\ Sound(Where!Idle)
  BY DEF Sound
<1>4. page \in [tenant: Wishes, people: SUBSET (Others \cup {Me})]
  BY DEF ContextInv, ContextTypes
<1>5. Where!Settled => call.tenant \in abroad \/ call.org = OrgOf[call.tenant]
  BY <1>1, OneOrganization DEF Sound, ContextInv, Directories, Settling
<1>6. CASE Where!ShowContext(k)
  <2>1. page' = [tenant |-> call.tenant, people |-> {}] /\ UNCHANGED <<rows, misled>>
    BY <1>6 DEF Where!ShowContext
  <2>2. page' \in [tenant: Wishes, people: SUBSET (Others \cup {Me})]
    BY <1>1, <2>1 DEF Settling, Wishes
  <2> QED
    BY <1>2, <1>3, <2>1, <2>2, RequestKeeps
<1>7. CASE Where!Store(k)
  <2> DEFINE row == [tenant |-> call.tenant, org |-> call.org]
  <2>1. rows' = rows \cup {row} /\ UNCHANGED <<page, misled>>
    BY <1>7 DEF Where!Store
  <2>2. Stored(row)
    BY <1>5 DEF Stored
  <2> HIDE DEF row
  <2> QED
    BY <1>2, <1>3, <1>4, <2>1, <2>2, RequestKeeps
<1>8. CASE Where!ListUsers(k)
  <2>1. /\ page' = [page EXCEPT !.people = Where!People(call)]
        /\ misled' = misled \cup
             IF /\ Where!Settled /\ call.tenant \notin abroad
                /\ ~ (Where!Expected(call.tenant) \subseteq Where!People(call))
             THEN {call.tenant} ELSE {}
        /\ rows' = rows
    BY <1>8 DEF Where!ListUsers
  <2>2. Where!People(call) \subseteq Others \cup {Me}
    BY DEF Where!People
  <2>3. page' \in [tenant: Wishes, people: SUBSET (Others \cup {Me})]
    BY <1>4, <2>1, <2>2
  <2>4. Where!Settled /\ call.tenant \notin abroad =>
          Where!Expected(call.tenant) \subseteq Where!People(call)
    BY <1>5 DEF Where!Expected, Where!People
  <2>5. misled' = misled
    BY <2>1, <2>4
  <2> QED
    BY <1>2, <1>3, <2>1, <2>3, <2>5, RequestKeeps
<1> QED
  BY <1>6, <1>7, <1>8

(* The launcher is shown what holds, and opens it.                          *)
LEMMA PortalKeeps ==
  ASSUME ContextInv, Where!Launch \/ \E t \in Tenants : Where!Open(t)
  PROVE  ContextInv'
<1>1. /\ Where!Settled' = Where!Settled
      /\ \A t : Where!EntitledTo(Me, t)' = Where!EntitledTo(Me, t)
      /\ \A t : Where!Opens(t)' = Where!Opens(t)
      /\ \A t : Where!Promised(t)' = Where!Promised(t)
      /\ UNCHANGED <<joined, staff, places, granted, changes, been, abroad, requests, page, rows,
                     misled>>
  BY DEF Where!Settled, Where!EntitledTo, Where!Promised, Where!Opens, Where!Launch, Where!Open,
         Where!Directory
<1>2. portal'.tenants \subseteq Tenants /\ portal'.at \in Nat /\ Shows'
  <2>1. CASE Where!Launch
    <3>1. portal' = [org |-> Where!PortalOrg, tenants |-> Where!Visible(Where!PortalOrg),
                     at |-> changes]
      BY <2>1 DEF Where!Launch
    <3>2. /\ Where!Visible(Where!PortalOrg) \subseteq Tenants
          /\ \A t \in Where!Visible(Where!PortalOrg) : Where!Opens(t) \/ Where!EntitledTo(Me, t)
      BY DEF Where!Visible, Where!Opens
    <3> QED
      BY <1>1, <3>1, <3>2 DEF Shows, ContextInv, ContextTypes
  <2>2. CASE \E t \in Tenants : Where!Open(t)
    BY <1>1, <2>2 DEF Where!Open, Shows, ContextInv, ContextTypes
  <2> QED
    BY <2>1, <2>2
<1>3. \A s \in shut' : s.entitled
  <2>1. CASE Where!Launch
    BY <2>1 DEF Where!Launch, ContextInv, Where!AskedTenantIsGiven
  <2>2. ASSUME NEW t \in Tenants, Where!Open(t)
        PROVE  \A s \in shut' : s.entitled
    <3>1. Where!Opens(t) \/ Where!EntitledTo(Me, t)
      BY <2>2 DEF Where!Open, ContextInv, Shows
    <3>2. shut' = shut \cup IF Where!Opens(t) THEN {}
                            ELSE {[tenant |-> t, entitled |-> Where!EntitledTo(Me, t)]}
      BY <2>2 DEF Where!Open
    <3> QED
      BY <3>1, <3>2 DEF ContextInv, Where!AskedTenantIsGiven
  <2> QED
    BY <2>1, <2>2
<1>4. ContextTypes' /\ Directories'
  BY <1>1, <1>2 DEF ContextInv, ContextTypes, Directories
<1>5. \A k \in Askers : Sound(requests[k])'
  BY <1>1 DEF ContextInv, Sound
<1>6. Where!WritesStayInTheOrganization' /\ Where!AskedTenantIsGiven'
  BY <1>1, <1>3 DEF ContextInv, Where!WritesStayInTheOrganization, Where!AskedTenantIsGiven
<1> QED
  BY <1>2, <1>4, <1>5, <1>6 DEF ContextInv

(* A change of the directory: the launcher shows what was before, and what  *)
(* holds of the requests and the rows was decided then.                     *)
LEMMA ChangeKeeps ==
  ASSUME ContextInv, ContextTypes', Directories', changes' = changes + 1, been \subseteq been',
         abroad \subseteq abroad',
         UNCHANGED <<page, portal, rows, misled, shut>>,
         \A k \in Askers :
           \/ /\ requests'[k] = requests[k]
              /\ requests[k] # Where!Idle /\ Where!Promised(requests[k].wanted) =>
                   Where!Promised(requests[k].wanted)'
           \/ /\ requests[k] # Where!Idle
              /\ requests'[k] = [requests[k] EXCEPT !.open = FALSE]
  PROVE  ContextInv'
<1>1. Where!Settled' => Where!Settled /\ been' = been
  BY SettledBefore DEF ContextInv, Directories
<1>2. Shows'
  BY DEF ContextInv, Shows, ContextTypes
<1>3. ASSUME NEW k \in Askers
      PROVE  Sound(requests[k])'
  <2> DEFINE old == requests[k]
             new == requests'[k]
  <2>1. old \in {Where!Idle} \cup Asked \cup Placed \cup Settling /\ Sound(old)
    BY DEF ContextInv, ContextTypes
  <2>2. new # Where!Idle => old # Where!Idle
    OBVIOUS
  <2>3. new # Where!Idle =>
          /\ new.kind = old.kind /\ new.wanted = old.wanted /\ new.pc = old.pc
          /\ old.pc \in {"tenant", "act"} => new.org = old.org
          /\ old.pc = "act" => new.tenant = old.tenant
          /\ new.open => Where!Promised(old.wanted)'
    <3>1. CASE new = old
      BY <2>1, <3>1 DEF Sound, Asked, Placed, Settling
    <3>2. CASE old # Where!Idle /\ new = [old EXCEPT !.open = FALSE]
      BY <2>1, <3>2 DEF Asked, Placed, Settling
    <3> QED
      BY <3>1, <3>2
  <2> QED
    BY <1>1, <2>1, <2>2, <2>3 DEF Sound
<1>4. Where!WritesStayInTheOrganization' /\ Where!AskedTenantIsGiven'
  BY <1>1 DEF ContextInv, Where!WritesStayInTheOrganization, Where!AskedTenantIsGiven
<1> QED
  BY <1>2, <1>3, <1>4 DEF ContextInv

(* An organization more.                                                    *)
LEMMA JoinKeeps ==
  ASSUME ContextInv, NEW org \in Orgs, NEW role \in {"ADMIN", "MEMBER"}, Where!Join(org, role)
  PROVE  ContextInv'
<1> DEFINE row == [org |-> org, role |-> role, since |-> changes + 1]
<1>1. /\ joined' = joined \cup {row} /\ been' = been \cup {org} /\ changes' = changes + 1
      /\ UNCHANGED <<places, granted, requests, abroad, page, portal, rows, misled, shut>>
  BY DEF Where!Join, Where!Changes, Where!Others0
<1>2. ContextTypes'
  BY <1>1 DEF ContextInv, ContextTypes
<1> HIDE DEF row
<1>3. IsFiniteSet(joined') /\ IsFiniteSet(been')
  BY <1>1, FS_AddElement DEF ContextInv, Directories
<1>5. \A t : Where!Promised(t) => Where!Promised(t)'
  BY <1>1 DEF Where!EntitledTo, Where!Promised
<1>6. row.org = org
  BY DEF row
<1>7. Directories'
  BY <1>1, <1>3, <1>6 DEF ContextInv, Directories
<1> QED
  BY <1>1, <1>2, <1>5, <1>7, ChangeKeeps

(* What ends takes the requests with it that ask for it.                    *)
LEMMA EndingKeepsTypes ==
  ASSUME ContextInv, NEW tenants
  PROVE  /\ Where!Ending(tenants) \in [Askers -> {Where!Idle} \cup Asked \cup Placed \cup Settling]
         /\ \A k \in Askers :
              \/ Where!Ending(tenants)[k] = requests[k]
                 /\ (requests[k] # Where!Idle => requests[k].wanted \notin tenants)
              \/ requests[k] # Where!Idle
                 /\ Where!Ending(tenants)[k] = [requests[k] EXCEPT !.open = FALSE]
<1>1. \A k \in Askers : requests[k] \in {Where!Idle} \cup Asked \cup Placed \cup Settling
  BY DEF ContextInv, ContextTypes
<1>2. \A k \in Askers :
        requests[k] # Where!Idle => [requests[k] EXCEPT !.open = FALSE] \in Asked \cup Placed \cup Settling
  BY <1>1 DEF Asked, Placed, Settling
<1> QED
  BY <1>1, <1>2 DEF Where!Ending

LEMMA LeaveKeeps ==
  ASSUME ContextInv, NEW org \in Orgs, Where!Leave(org)
  PROVE  ContextInv'
<1> DEFINE lost == {t \in Tenants : ~ Where!Promised(t)'}
<1>1. /\ joined' = {m \in joined : m.org # org} /\ places' = {t \in places : OrgOf[t] # org}
      /\ granted' = {e \in granted : e.user # Me \/ e.org # org}
      /\ requests' = Where!Ending(lost) /\ changes' = changes + 1
      /\ UNCHANGED <<been, abroad, page, portal, rows, misled, shut>>
  BY DEF Where!Leave, Where!Changes, Where!Others0
<1>2. ContextTypes'
  BY <1>1, EndingKeepsTypes DEF ContextInv, ContextTypes
<1>3. \A t : t \notin lost /\ Where!Promised(t) => Where!Promised(t)'
  BY DEF Where!Promised, Where!EntitledTo, ContextInv, ContextTypes
<1>5. Directories'
  <2>1. IsFiniteSet(joined') /\ IsFiniteSet(granted')
    BY <1>1, FS_Subset DEF ContextInv, Directories
  <2> QED
    BY <1>1, <2>1 DEF ContextInv, Directories
<1> HIDE DEF lost
<1> QED
  BY <1>1, <1>2, <1>3, <1>5, EndingKeepsTypes, ChangeKeeps

(* Somebody else leaves.                                                    *)
LEMMA DismissKeeps ==
  ASSUME Where!ContextsAssumption, ContextInv, NEW user \in Others, NEW org \in Orgs,
         Where!Dismiss(user, org)
  PROVE  ContextInv'
<1>1. /\ granted' = {e \in granted : e.user # user \/ e.org # org}
      /\ changes' = changes + 1 /\ user # Me
      /\ UNCHANGED <<joined, places, requests, been, abroad, page, portal, rows, misled, shut>>
  BY DEF Where!Dismiss, Where!Changes, Where!Others0, Where!ContextsAssumption
<1>2. ContextTypes'
  BY <1>1 DEF ContextInv, ContextTypes
<1>3. \A t : Where!Promised(t) => Where!Promised(t)'
  BY <1>1 DEF Where!EntitledTo, Where!Promised
<1>5. Directories'
  <2>1. IsFiniteSet(granted')
    BY <1>1, FS_Subset DEF ContextInv, Directories
  <2> QED
    BY <1>1, <2>1 DEF ContextInv, Directories
<1> QED
  BY <1>1, <1>2, <1>3, <1>5, ChangeKeeps

LEMMA PlaceKeeps ==
  ASSUME ContextInv, NEW t \in Tenants, Where!Place(t)
  PROVE  ContextInv'
<1>1. /\ changes' = changes + 1
      /\ places' = IF t \in places THEN places \ {t} ELSE places \cup {t}
      /\ UNCHANGED <<joined, granted, requests, been, abroad, page, portal, rows, misled, shut>>
  BY DEF Where!Place, Where!Changes, Where!Others0
<1>2. ContextTypes'
  BY <1>1 DEF ContextInv, ContextTypes
<1>4. \A u : Where!Promised(u)' = Where!Promised(u)
  BY <1>1 DEF Where!EntitledTo, Where!Promised
<1>5. Directories'
  BY <1>1 DEF ContextInv, Directories
<1> QED
  BY <1>1, <1>2, <1>4, <1>5, ChangeKeeps

LEMMA GrantKeeps ==
  ASSUME ContextInv, NEW user \in Others \cup {Me}, NEW t \in Tenants, NEW org \in Orgs,
         Where!Grant(user, t, org)
  PROVE  ContextInv'
<1> DEFINE row == [user |-> user, tenant |-> t, org |-> org, since |-> changes + 1]
<1>1. /\ granted' = granted \cup {row} /\ changes' = changes + 1
      /\ abroad' = abroad \cup IF user = Me /\ OrgOf[t] \notin been THEN {t} ELSE {}
      /\ UNCHANGED <<joined, places, requests, been, page, portal, rows, misled, shut>>
  BY DEF Where!Grant, Where!Changes, Where!Others0
<1>2. ContextTypes'
  BY <1>1 DEF ContextInv, ContextTypes
<1>3. row.user = user /\ row.tenant = t
  OBVIOUS
<1> HIDE DEF row
<1>5. \A u : Where!Promised(u) => Where!Promised(u)'
  BY <1>1 DEF Where!EntitledTo, Where!Promised
<1>6. Directories'
  <2>1. IsFiniteSet(granted')
    BY <1>1, FS_AddElement DEF ContextInv, Directories
  <2> QED
    BY <1>1, <1>3, <2>1 DEF ContextInv, Directories
<1> QED
  BY <1>1, <1>2, <1>5, <1>6, ChangeKeeps

LEMMA RevokeKeeps ==
  ASSUME ContextInv, NEW user \in Others \cup {Me}, NEW t \in Tenants, Where!Revoke(user, t)
  PROVE  ContextInv'
<1>1. /\ granted' = {e \in granted : e.user # user \/ e.tenant # t}
      /\ requests' = (IF user = Me THEN Where!Ending({t}) ELSE requests)
      /\ changes' = changes + 1
      /\ UNCHANGED <<joined, places, been, abroad, page, portal, rows, misled, shut>>
  BY DEF Where!Revoke, Where!Changes, Where!Others0
<1>2. ContextTypes'
  BY <1>1, EndingKeepsTypes DEF ContextInv, ContextTypes
<1>4. \A u : (u # t \/ user # Me) /\ Where!Promised(u) => Where!Promised(u)'
  BY <1>1 DEF Where!EntitledTo, Where!Promised
<1>5. Directories'
  <2>1. IsFiniteSet(granted')
    BY <1>1, FS_Subset DEF ContextInv, Directories
  <2> QED
    BY <1>1, <2>1 DEF ContextInv, Directories
<1>6. CASE user = Me
  BY <1>1, <1>2, <1>4, <1>5, <1>6, EndingKeepsTypes, ChangeKeeps
<1>7. CASE user # Me
  BY <1>1, <1>2, <1>4, <1>5, <1>7, ChangeKeeps
<1> QED
  BY <1>6, <1>7

LEMMA ContextStep ==
  ASSUME Where!ContextsAssumption, ContextInv, [Where!Next]_Where!vars
  PROVE  ContextInv'
<1>1. ASSUME NEW k \in Askers,
             \/ Where!Ask(k) \/ Where!ResolveOrg(k) \/ Where!ResolveTenant(k)
             \/ Where!ShowContext(k) \/ Where!Store(k) \/ Where!ListUsers(k)
      PROVE  ContextInv'
  BY <1>1, AskKeeps, ResolveOrgKeeps, ResolveTenantKeeps, ActKeeps
<1>2. CASE Where!Launch \/ \E t \in Tenants : Where!Open(t)
  BY <1>2, PortalKeeps
<1>3. ASSUME NEW t \in Tenants, Where!Place(t)
      PROVE  ContextInv'
  BY <1>3, PlaceKeeps
<1>4. ASSUME NEW user \in Others \cup {Me}, NEW t \in Tenants,
             Where!Revoke(user, t) \/ \E org \in Orgs : Where!Grant(user, t, org)
      PROVE  ContextInv'
  BY <1>4, GrantKeeps, RevokeKeeps
<1>5. ASSUME NEW org \in Orgs,
             \/ Where!Leave(org)
             \/ \E role \in {"ADMIN", "MEMBER"} : Where!Join(org, role)
             \/ \E user \in Others : Where!Dismiss(user, org)
      PROVE  ContextInv'
  BY <1>5, LeaveKeeps, JoinKeeps, DismissKeeps
<1>6. CASE UNCHANGED Where!vars
  <2>1. UNCHANGED <<joined, staff, places, granted, requests, page, portal, rows, changes, been,
                    abroad, misled, shut>>
    BY <1>6 DEF Where!vars
  <2>2. /\ Where!Settled' = Where!Settled
        /\ \A t : Where!EntitledTo(Me, t)' = Where!EntitledTo(Me, t)
        /\ \A t : Where!Opens(t)' = Where!Opens(t)
        /\ \A t : Where!Promised(t)' = Where!Promised(t)
    BY <2>1 DEF Where!Settled, Where!EntitledTo, Where!Promised, Where!Opens
  <2>3. ContextTypes' /\ Directories' /\ Shows'
    BY <2>1, <2>2 DEF ContextInv, ContextTypes, Directories, Shows
  <2>4. \A k \in Askers : Sound(requests[k])'
    BY <2>1, <2>2 DEF ContextInv, Sound
  <2>5. Where!WritesStayInTheOrganization' /\ Where!AskedTenantIsGiven'
    BY <2>1, <2>2 DEF ContextInv, Where!WritesStayInTheOrganization, Where!AskedTenantIsGiven
  <2> QED
    BY <2>3, <2>4, <2>5 DEF ContextInv
<1> QED
  BY <1>1, <1>2, <1>3, <1>4, <1>5, <1>6 DEF Where!Next

LEMMA ContextHolds ==
  Where!ContextsAssumption => (Where!Spec => []ContextInv)
<1> SUFFICES ASSUME Where!ContextsAssumption
             PROVE  Where!Spec => []ContextInv
  OBVIOUS
<1>1. Where!Init => ContextInv
  BY ContextsStart
<1>2. ContextInv /\ [Where!Next]_Where!vars => ContextInv'
  BY ContextStep
<1> QED
  BY <1>1, <1>2, PTL DEF Where!Spec

(* WritesStayInTheOrganization: a task is stored under the organization of  *)
(* its tenant, whatever memberships and entitlements do in between, if the  *)
(* user has been in one organization only and was not given the product     *)
(* there from outside of it.                                                *)
THEOREM WritesAreStoredAtHome ==
  Where!ContextsAssumption => (Where!Spec => []Where!WritesStayInTheOrganization)
<1>1. ContextInv => Where!WritesStayInTheOrganization
  BY DEF ContextInv
<1> QED
  BY <1>1, ContextHolds, PTL

(* AskedTenantIsGiven: a request for a tenant where the user has the        *)
(* product, and an organization, throughout is given that tenant, and finds *)
(* the people of its organization; and what the launcher shows can be       *)
(* opened, or is a product without a membership.                            *)
THEOREM TenantsAreGivenAsAsked ==
  Where!ContextsAssumption => (Where!Spec => []Where!AskedTenantIsGiven)
<1>1. ContextInv => Where!AskedTenantIsGiven
  BY DEF ContextInv
<1> QED
  BY <1>1, ContextHolds, PTL
=============================================================================
