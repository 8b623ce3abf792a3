------------------------------- MODULE MCBilling ------------------------------
(* Model-checking instance of Billing.                                        *)
EXTENDS Billing
=============================================================================
