---------------------------- MODULE MCMultiAnchor ----------------------------
(***************************************************************************)
(* Anchor lists for TLC: the default one with a second mirror, and a       *)
(* mirror alone.                                                           *)
(***************************************************************************)
EXTENDS MultiAnchor

MCAnchors == <<"origin", "mirror", "mirror">>
MCTwoAnchors == <<"origin", "mirror">>
=============================================================================
