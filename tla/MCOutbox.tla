------------------------------- MODULE MCOutbox -------------------------------
(* Model-checking instances of Outbox.                                        *)
EXTENDS Outbox

(* All of them are less than an hour, which is the unit of time.              *)
MCBackoff == [k \in 0..(MaxAttempts - 1) |-> 0]
=============================================================================
