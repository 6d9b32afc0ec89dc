------------------------------ MODULE MCDelivery ------------------------------
(* An instance of Delivery for TLC.                                         *)
EXTENDS Delivery, TLC
=============================================================================
