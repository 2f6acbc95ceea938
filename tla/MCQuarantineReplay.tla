-------------------------- MODULE MCQuarantineReplay --------------------------
(***************************************************************************)
(* Values for the run of QuarantineReplay.                                 *)
(***************************************************************************)
EXTENDS QuarantineReplay, TLC

CONSTANTS date, bad, h1, h2, none

OneOrTheOther == {(date :> 2) @@ (bad :> 0), (date :> 0) @@ (bad :> 2)}
=============================================================================
