---------------------------- MODULE MCRunBilling ----------------------------
(* Bounded instances of RunBilling.                                         *)
EXTENDS RunBilling

=============================================================================
