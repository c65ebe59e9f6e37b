--------------------------- MODULE MCOAuthGrants ---------------------------
(* A small instance of OAuthGrants for TLC, with one of two emphases: a     *)
(* family of three tokens and everything that can befall it, or two codes   *)
(* and two tokens, for one session or none, while entitlements last and     *)
(* nothing expires.                                                         *)
EXTENDS OAuthGrants, FiniteSets, TLC

CONSTANTS u1, code1

VARIABLE focus

MCSessionUser == [s \in Sessions |-> u1]

MCInit == focus \in {"family", "session"} /\ Init

InFocus ==
  \/ /\ focus = "family"
     /\ \A c \in Codes \ {code1} : codes[c].status = "unborn"
  \/ /\ focus = "session"
     /\ Cardinality({t \in Tokens : Born(t)}) <= 2
     /\ \A c \in Codes : codes[c].status # "unborn" => ~ codes[c].expired
     /\ \A t \in Tokens : Born(t) => ~ tokens[t].expired

MCNext ==
  /\ UNCHANGED focus
  /\ Next
  /\ InFocus'
  /\ focus = "session" => \A k \in Keys : ent[k] # NoEntitlement => ent'[k] # NoEntitlement

MCSpec == MCInit /\ [][MCNext]_<<focus, vars>>

(* Request slots and the ids of tokens are interchangeable. *)
Symmetry == Permutations(Requests) \cup Permutations(Tokens)
=============================================================================
