--------------------------- MODULE MCModelClient ---------------------------
(***************************************************************************)
(* Two currencies, answers of a few tokens.                                *)
(***************************************************************************)
EXTENDS ModelClient

CONSTANTS usd, cny
=============================================================================
