--------------------------- MODULE MCCommerceSandbox ---------------------------
(***************************************************************************)
(* An instance of CommerceSandbox for TLC: the one order, payment and SKU  *)
(* of the fixture and an unknown one of each.                              *)
(***************************************************************************)
EXTENDS CommerceSandbox, TLC

CONSTANTS order, payment, sku, unknown,
          full, oversized, invalid,
          k1, k1padded, k2, message, messagePadded

\* Only the padded texts have spaces to strip.
StripPadding ==
  [t \in Texts |-> CASE t = k1padded -> k1
                     [] t = messagePadded -> message
                     [] OTHER -> t]
===============================================================================
