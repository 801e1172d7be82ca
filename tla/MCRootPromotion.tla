--------------------------- MODULE MCRootPromotion --------------------------
(* Small instances of RootPromotion.                                       *)
EXTENDS RootPromotion
=============================================================================
