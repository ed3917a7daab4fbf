------------------------- MODULE MCReviewedDocument -------------------------
(* A document under review for TLC, beside its upload: requests and Nobody are
   model values, each activity has as many attempts as the .cfg says. *)
EXTENDS ReviewedDocument, TLC

CONSTANTS d1, d2

OneOfEach == d1 :> "approved" @@ d2 :> "rejected"
=============================================================================
