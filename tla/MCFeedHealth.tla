----------------------------- MODULE MCFeedHealth ----------------------------
(***************************************************************************)
(* Instances of FeedHealth for TLC.  Nothing orders pairs, so that they    *)
(* are symmetric; documents are not, for min() picks the lease.  No action *)
(* reads whom the adapter remembers, so that states may be told apart      *)
(* without it.                                                             *)
(***************************************************************************)
EXTENDS FeedHealth, TLC

PairSymmetry == Permutations(Pair)
FeedView ==
    <<bridge.known, bridge.age, bridge.ready, bridge.status, bridge.lease, admitted, quiet>>
=============================================================================
