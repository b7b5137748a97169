-------------------------- MODULE MCReleasePublish --------------------------
(***************************************************************************)
(* Two clones of one origin: in one a developer commits features and has a *)
(* work branch, in the other a developer commits fixes.                    *)
(***************************************************************************)
EXTENDS ReleasePublish

CONSTANTS a, b

MCSinceTags == {FirstVersion}
MCKinds == (a :> {"feat"}) @@ (b :> {"fix"})
=============================================================================
