---------------------------- MODULE MCMembership ----------------------------
(* Small instances of Membership for TLC. *)
EXTENDS Membership, TLC

CONSTANTS bob, t1

Offer(role, tenant) == [user |-> bob, role |-> role, tenant |-> tenant, products |-> TRUE]

(* The highest and the lowest, so that one invitation can follow, overlap   *)
(* or undercut another.                                                     *)
RankOffers == {Offer(role, NoTenant) : role \in {"OWNER", "MEMBER"}}

AppOffers == {Offer("MEMBER", t1)}

Symmetry == Permutations(Requests) \cup Permutations(MemberIds)
=============================================================================
