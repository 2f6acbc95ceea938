------------------------- MODULE MCInboundDeliveries -------------------------
(***************************************************************************)
(* Values for the run of InboundDeliveries.                                *)
(***************************************************************************)
EXTENDS InboundDeliveries, TLC

CONSTANTS dateA, dateB, h1, h2, none

ThereAndBack == {(dateA :> 2) @@ (dateB :> 1)}
=============================================================================
