---------------------------- MODULE OneTimeCodes ----------------------------
(***************************************************************************)
(* What the authorization-code store promises to the rest of the service:  *)
(* a code goes through its life once.  It is issued, then either claimed   *)
(* by one exchange or dropped; a claimed code pays out at most one token   *)
(* set, and a dropped one pays nothing, for ever.                          *)
(***************************************************************************)
CONSTANT Codes

VARIABLE stage

Stages == {"new", "issued", "claimed", "paid", "dropped"}

Init == stage = [c \in Codes |-> "new"]

Advance(c, from, to) ==
  /\ stage[c] = from
  /\ stage' = [stage EXCEPT ![c] = to]

Issue(c) == Advance(c, "new", "issued")
Claim(c) == Advance(c, "issued", "claimed")
Pay(c) == Advance(c, "claimed", "paid")

(* Refused, expired, pruned, or its exchange died.  The pruner drops        *)
(* several at once.                                                         *)
Drop(cs) ==
  /\ cs # {}
  /\ \A c \in cs : stage[c] \in {"issued", "claimed"}
  /\ stage' = [c \in Codes |-> IF c \in cs THEN "dropped" ELSE stage[c]]

Next ==
  \/ \E c \in Codes : Issue(c) \/ Claim(c) \/ Pay(c)
  \/ \E cs \in SUBSET Codes : Drop(cs)

Spec == Init /\ [][Next]_stage
=============================================================================
