-------------------------- MODULE MCAnchorPipeline --------------------------
(***************************************************************************)
(* Instances of AnchorPipeline: block contents with no event, one event,   *)
(* and two events of one or of two contracts.                              *)
(***************************************************************************)
EXTENDS AnchorPipeline

CONSTANTS c1, c2

MCBlockContents == {<<>>, <<c1>>, <<c2, c1>>}
=============================================================================
