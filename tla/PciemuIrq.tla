------------------------------ MODULE PciemuIrq ------------------------------
(***************************************************************************)
(* The interrupt half of the emulated device, front_end/irq.c: which of    *)
(* MSI-X, MSI and the INTx pin carries an interrupt, the status union that *)
(* remembers what was raised, and what the guest sees of it.               *)
(*                                                                         *)
(* IRQStatus is a C union.  MSIVector is a pointer followed by a bool, so  *)
(* the MSI and the MSI-X arrays overlay each other element by element (one *)
(* function, raised, stands for both), while the pin's bool overlays the   *)
(* first byte of an unused pointer and is a cell of its own.               *)
(***************************************************************************)
EXTENDS Naturals

CONSTANTS
  MSI_MAX,   (* PCIEMU_IRQ_MAX_VECTORS_MSI: length of the MSI array        *)
  MSIX_MAX,  (* PCIEMU_IRQ_MAX_VECTORS_MSIX: length of the MSI-X array     *)
  MSI_END,   (* PCIEMU_HW_IRQ_VECTOR_END: last MSI vector of the device    *)
  MSIX_END   (* PCIEMU_HW_IRQ_MSIX_VECTOR_END: last MSI-X vector           *)

(* 32, 2048, 0 and 127 in the headers. *)
ASSUME IrqAssumption ==
  /\ MSI_MAX \in Nat \ {0} /\ MSIX_MAX \in Nat /\ MSI_MAX <= MSIX_MAX
  /\ MSI_END \in Nat /\ MSI_END < MSI_MAX
  /\ MSIX_END \in Nat /\ MSIX_END < MSIX_MAX

VARIABLES
  msixOn, msiOn,  (* the enable bits of the two capabilities (PCI config)  *)
  raised,         (* status.msi / status.msix: the raised flag of a vector *)
  pin,            (* status.pin.raised                                     *)
  line,           (* level of the INTx line, as pci_set_irq left it        *)
  irr             (* messages sent to the guest and not yet taken by it    *)

pciVars == <<msixOn, msiOn>>
irqVars == <<raised, pin, line, irr>>

Vectors == 0 .. MSIX_MAX - 1

IrqInit ==
  /\ raised = [v \in Vectors |-> FALSE]
  /\ pin = FALSE /\ line = FALSE
  /\ irr = {}

IrqTypeOK ==
  /\ msixOn \in BOOLEAN /\ msiOn \in BOOLEAN
  /\ raised \in [Vectors -> BOOLEAN]
  /\ pin \in BOOLEAN /\ line \in BOOLEAN
  /\ irr \subseteq Vectors

-----------------------------------------------------------------------------
pciemu_irq_raise_intx ==
  /\ pin' = TRUE
  /\ line' = TRUE
  /\ UNCHANGED <<raised, irr>>

(* pciemu_irq_raise_msi and pciemu_irq_raise_msix: the same code over the  *)
(* two views of the union; max is the length of the view.                  *)
pciemu_irq_raise_msg(vector, max) ==
  IF vector >= max
    THEN UNCHANGED irqVars
    ELSE /\ raised' = [raised EXCEPT ![vector] = TRUE]
         /\ irr' = irr \cup {vector}
         /\ UNCHANGED <<pin, line>>

(* A bug this code could have: MSI-X is overlooked when a mode is chosen.  *)
RaiseIgnoringMsix(vector) ==
  IF msiOn THEN pciemu_irq_raise_msg(vector, MSI_MAX) ELSE pciemu_irq_raise_intx

(* A bug this code could have: a flag that is set already stands for an    *)
(* interrupt that is on its way.                                           *)
RaiseOnce(vector) ==
  IF (msixOn \/ msiOn) /\ raised[vector] THEN UNCHANGED irqVars
  ELSE IF msixOn THEN pciemu_irq_raise_msg(vector, MSIX_MAX)
  ELSE IF msiOn THEN pciemu_irq_raise_msg(vector, MSI_MAX)
  ELSE pciemu_irq_raise_intx

pciemu_irq_raise(vector) ==
  IF msixOn THEN pciemu_irq_raise_msg(vector, MSIX_MAX)
  ELSE IF msiOn THEN pciemu_irq_raise_msg(vector, MSI_MAX)
  ELSE pciemu_irq_raise_intx

pciemu_irq_lower_intx ==
  /\ pin' = FALSE
  /\ line' = FALSE
  /\ UNCHANGED <<raised, irr>>

(* Lowering a message-signalled interrupt clears its flag; nothing is sent. *)
pciemu_irq_lower_msg(vector, max) ==
  /\ raised' = IF vector >= max THEN raised ELSE [raised EXCEPT ![vector] = FALSE]
  /\ UNCHANGED <<pin, line, irr>>

pciemu_irq_lower(vector) ==
  IF msixOn THEN pciemu_irq_lower_msg(vector, MSIX_MAX)
  ELSE IF msiOn THEN pciemu_irq_lower_msg(vector, MSI_MAX)
  ELSE pciemu_irq_lower_intx

(* Lowers what the mode enabled now can raise, and only that.  The line is *)
(* left to the caller: the function runs inside a reset of the whole       *)
(* device, in which QEMU deasserts it in every mode.                       *)
pciemu_irq_reset ==
  /\ raised' = [v \in Vectors |->
                  /\ raised[v]
                  /\ msixOn => v > MSIX_END
                  /\ ~msixOn /\ msiOn => v > MSI_END]
  /\ pin' = (pin /\ (msixOn \/ msiOn))

-----------------------------------------------------------------------------
(* QEMU and the guest's PCI core, external to the repository.              *)

(* The guest writes an enable bit; enabling deasserts the INTx line.       *)
SetIrqMode(x, m) ==
  /\ msixOn' = x /\ msiOn' = m
  /\ line' = (line /\ ~x /\ ~m)
  /\ UNCHANGED <<raised, pin, irr>>

(* A vCPU takes the message of a vector. *)
TakeMessage(vector) ==
  /\ vector \in irr
  /\ irr' = irr \ {vector}
  /\ UNCHANGED <<raised, pin, line>>
=============================================================================
