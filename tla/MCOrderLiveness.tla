-------------------------- MODULE MCOrderLiveness --------------------------
(* TLC's runs of OrderLiveness, with the values of MCOrderSystem. *)
EXTENDS MCOrderSystem, OrderLiveness
=============================================================================
