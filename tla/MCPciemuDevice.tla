--------------------------- MODULE MCPciemuDevice ---------------------------
(* A device that is plugged up to three times, under a guest that uses its *)
(* interrupts in every mode and runs transfers without a cell.             *)
EXTENDS PciemuDevice

MCNoSelfBar == [a \in {} |-> "other"]

MCInterrupts ==
  [r \in BarRegs |->
     CASE r = "dst" -> {1} [] r = "cmd" -> {1}
       [] r \in {"irq0_raise", "irq0_lower", "doorbell", "other"} -> {1}
       [] OTHER -> {}]

MCAllModes == BOOLEAN \X BOOLEAN
=============================================================================
