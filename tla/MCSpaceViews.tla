---------------------------- MODULE MCSpaceViews ----------------------------
(***************************************************************************)
(* One example space with its fixed view, one space that users create, and *)
(* the uuid of one more view.                                              *)
(***************************************************************************)
EXTENDS SpaceViews, TLC

CONSTANTS example, mine, exampleView, v1

MCExampleView == example :> exampleView
=============================================================================
