---------------------------- MODULE MCApprovals -----------------------------
(***************************************************************************)
(* Instances of the approval queue for TLC: two rows with keys of their    *)
(* own, as the unique detection_id makes them.                             *)
(***************************************************************************)
EXTENDS ApprovalReview, TLC

CONSTANTS a1, a2, k1, k2, w1, w2

MCKeyOf == a1 :> k1 @@ a2 :> k2
AllJobs == {"approve", "reject", "backfill", "collect"}
=============================================================================
