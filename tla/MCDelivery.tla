----------------------------- MODULE MCDelivery -----------------------------
(***************************************************************************)
(* TLC instances of Delivery: one permit, room for one file, and windows   *)
(* enough to evict, resend and reorder.  The bounds are in the .cfg files. *)
(***************************************************************************)
EXTENDS Delivery
=============================================================================
