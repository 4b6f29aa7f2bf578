--------------------------- MODULE MCProductLookup ---------------------------
(***************************************************************************)
(* Three products and room for two, so that a third evicts; two callers    *)
(* with either kind of lifetime.                                           *)
(***************************************************************************)
EXTENDS ProductLookup

CONSTANTS c1, c2, k1, k2, k3
=============================================================================
