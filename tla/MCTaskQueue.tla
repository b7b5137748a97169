----------------------------- MODULE MCTaskQueue -----------------------------
(***************************************************************************)
(* TaskQueue with two tasks: a review, and an execution that may close.    *)
(***************************************************************************)
EXTENDS TaskQueue, TLC

CONSTANTS review, execute

MCContent == {review, execute}
MCReviews == {review}
MCFollowUp == review :> "review_requested" @@ execute :> "closed"
=============================================================================
