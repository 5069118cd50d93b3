----------------------------- MODULE MCDelivery -----------------------------
(***************************************************************************)
(* Two reporters and two reports: one may overtake another.                *)
(***************************************************************************)
EXTENDS Delivery

CONSTANTS r1, r2
============================================================================
