-------------------------- MODULE MCOutboxPublisher --------------------------
(***************************************************************************)
(* Values for the run of OutboxPublisher.                                 *)
(***************************************************************************)
EXTENDS OutboxPublisher, TLC

CONSTANTS e1, e2, e3, e4, p1, p2

\* The old publisher has made one attempt of e2, and both of e3.
Attempted == (e2 :> 1) @@ (e3 :> 2)
=============================================================================
