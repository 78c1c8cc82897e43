----------------------------- MODULE MCDmaDriver -----------------------------
(* The driver for TLC: two threads, two pages (bus addresses 1 and 2) with *)
(* different contents, an area of one cell with the registers behind it.   *)
EXTENDS DmaDriver, TLC

MCUserInit == (1 :> 2) @@ (2 :> 3)

MCNoSelfBar == [a \in {} |-> "other"]

(* Programs store to one register. *)
MCInputs == [r \in BarRegs |-> IF r = "reg0" THEN {2} ELSE {}]

MCModes == {}
=============================================================================
