------------------------------ MODULE MCIdentity ------------------------------
(* The identity service's components for TLC, one at a time: the life of an *)
(* organization's tenants (Tenants, asked for their lives, for two owners   *)
(* who come and go, or for what the tenants hold), SAML connections (Saml,  *)
(* their configuration or the sign-ins), the portal's permissions, the      *)
(* grants of two clients or two tenants, and bulk jobs that fail.  They     *)
(* share nothing; focus says which one moves.  The constants of Tenants are *)
(* those of the lives; two owners have the default tenant and no other.     *)
EXTENDS Tenants, TLC

CONSTANTS ann, bob, Nobody, idp1, idp2, name, NoXml, NoOverride, k1, k2,
          r1, c1, c2, worker, orphan, tn1, tn2, ses1, NoSession, admin, NoEntitlement, code1, tok1, tok2

VARIABLES
  focus,
  id, live, connection, accounts, members, sCalls, off, raced, signIns, absent,
  custom, pages, pCalls, excused,
  ent, codes, tokens, reqs, audit, gGranted, missed, lost,
  post, row, queue, work, call, jAudit, retries, crashes, overlap

sVars == <<id, live, connection, accounts, members, sCalls, off, raced, signIns, absent>>
pVars == <<custom, pages, pCalls, excused>>
gVars == <<ent, codes, tokens, reqs, audit, gGranted, missed, lost>>
jVars == <<post, row, queue, work, call, jAudit, retries, crashes, overlap>>

Holdings == INSTANCE Tenants WITH
  Users <- {ann, bob}, Owners <- {ann, bob},
  Asked <- {"people", "member", "product"}

Owned == INSTANCE Tenants WITH
  Users <- {ann, bob}, Owners <- {ann, bob},
  Asked <- {"organization", "people"}

Configured == INSTANCE Saml WITH
  Users <- {}, NameIds <- {}, Providers <- {idp1, idp2}, MaxConnections <- 2,
  Calls <- {k1, k2}, calls <- sCalls

SignedIn == INSTANCE Saml WITH
  Users <- {ann, bob}, NameIds <- {name}, Providers <- {idp1}, MaxConnections <- 2,
  Calls <- {k1, k2}, calls <- sCalls

(* ann may modify by default, bob once his role was given it. *)
MCDefaults == [OWNER |-> {"view", "modify"}, MEMBER |-> {"view"}]

Alone == INSTANCE PortalPermissions WITH
  Roles <- {"OWNER", "MEMBER"}, Permissions <- {"view", "modify"}, Defaults <- MCDefaults,
  Editors <- {ann}, RoleOf <- (ann :> "OWNER"),
  Offered <- {"modify"}, Calls <- {k1, k2}, calls <- pCalls

Together == INSTANCE PortalPermissions WITH
  Roles <- {"OWNER", "MEMBER"}, Permissions <- {"view", "modify"}, Defaults <- MCDefaults,
  Editors <- {ann, bob}, RoleOf <- (ann :> "OWNER" @@ bob :> "MEMBER"),
  Offered <- {"modify"}, Calls <- {k1}, calls <- pCalls

ByClient == INSTANCE OAuthGrants WITH
  Requests <- {r1}, Users <- {ann}, Clients <- {c1, c2}, Tenants <- {tn1},
  Sessions <- {ses1}, SessionUser <- (ses1 :> ann), RoleSets <- {admin},
  Codes <- {code1}, Tokens <- {tok1, tok2}, granted <- gGranted

ByTenant == INSTANCE OAuthGrants WITH
  Requests <- {r1}, Users <- {ann}, Clients <- {c1}, Tenants <- {tn1, tn2},
  Sessions <- {ses1}, SessionUser <- (ses1 :> ann), RoleSets <- {admin},
  Codes <- {code1}, Tokens <- {tok1, tok2}, granted <- gGranted

Jobs == INSTANCE BulkJobs WITH
  Workers <- {worker}, Orphans <- {orphan}, Admins <- {ann}, Total <- 2, BadSets <- {{}, {1}}, Export <- TRUE,
  MaxRetries <- 1, MaxCrashes <- 1, audit <- jAudit

ASSUME
  /\ Configured!SamlAssumption /\ SignedIn!SamlAssumption
  /\ Alone!PortalAssumption /\ Together!PortalAssumption

MCInit ==
  /\ focus \in {"lives", "owners", "holdings", "configuration", "sign-ins", "page", "pages",
               "clients", "tenants", "jobs"}
  /\ Init
  /\ \/ focus = "sign-ins" /\ SignedIn!Init
     \/ focus # "sign-ins" /\ Configured!Init
  /\ \/ focus = "clients" /\ ByClient!Init
     \/ focus # "clients" /\ ByTenant!Init
  /\ \/ focus = "pages" /\ Together!Init
     \/ focus # "pages" /\ Alone!Init
  /\ Jobs!Init

MCNext ==
  /\ UNCHANGED focus
  /\ \/ focus = "lives" /\ Next /\ UNCHANGED <<sVars, pVars, gVars, jVars>>
     \/ focus = "owners" /\ Owned!Next /\ tenants'[2] = "unborn" /\ UNCHANGED <<sVars, pVars, gVars, jVars>>
     \/ focus = "holdings" /\ Holdings!Next /\ UNCHANGED <<sVars, pVars, gVars, jVars>>
     \/ focus = "configuration" /\ Configured!Next /\ UNCHANGED <<vars, pVars, gVars, jVars>>
     \/ focus = "sign-ins" /\ SignedIn!Next /\ UNCHANGED <<vars, pVars, gVars, jVars>>
     \/ focus = "page" /\ Alone!Next /\ UNCHANGED <<vars, sVars, gVars, jVars>>
     \/ focus = "pages" /\ Together!Next /\ UNCHANGED <<vars, sVars, gVars, jVars>>
     \/ focus = "clients" /\ ByClient!Next /\ UNCHANGED <<vars, sVars, pVars, jVars>>
     \/ focus = "tenants" /\ ByTenant!Next /\ UNCHANGED <<vars, sVars, pVars, jVars>>
     \/ focus = "jobs" /\ ~ overlap /\ Jobs!FaultyNext /\ UNCHANGED <<vars, sVars, pVars, gVars>>

MCSpec == MCInit /\ [][MCNext]_<<focus, vars, sVars, pVars, gVars, jVars>>

AppliedAsConfigured ==
  IF focus = "sign-ins" THEN SignedIn!AppliedAsConfigured ELSE Configured!AppliedAsConfigured
OneUserPerName == IF focus = "sign-ins" THEN SignedIn!OneUserPerName ELSE Configured!OneUserPerName
PageShowsWhatHolds ==
  IF focus = "pages" THEN Together!PageShowsWhatHolds ELSE Alone!PageShowsWhatHolds
TokensAsGranted ==
  IF focus = "clients" THEN ByClient!TokensAsGranted ELSE ByTenant!TokensAsGranted

SucceededIsComplete == focus = "jobs" => Jobs!SucceededIsComplete

Symmetry == Permutations({k1, k2})
=============================================================================
