---------------------------- MODULE PciemuDevice ----------------------------
(***************************************************************************)
(* The life of the emulated device inside QEMU: front_end/pciemu.c, the    *)
(* init and fini functions of the BARs, of irq.c and of the backend, with  *)
(* the device of module Aurora at work between them.                       *)
(*                                                                         *)
(* QEMU realizes and unrealizes a device under its big lock, so each is    *)
(* one step.  A realize that reports an error makes no device: QEMU drops  *)
(* the object and does not call exit.  An error reported twice, or a       *)
(* region taken out of a BAR it is not in, fails an assertion of QEMU, and *)
(* a null backend is dereferenced: each of these stops QEMU.               *)
(***************************************************************************)
EXTENDS Aurora

CONSTANTS
  CanFail,   (* whether malloc, msi_init and msix_init may fail            *)
  MaxPlugs   (* devices a QEMU process sees (bounds the runs)              *)

ASSUME DeviceAssumption == CanFail \in BOOLEAN /\ MaxPlugs \in Nat

Capabilities == {"msi", "msix"}

(* PCIEMU_HW_MEM_BAR, PCIEMU_HW_INT_BAR and PCIEMU_HW_REG_BAR *)
MEM_BAR == 0
INT_BAR == 2
REG_BAR == 3

VARIABLES
  life,     (* "absent", "realized", or "stopped" when QEMU itself is      *)
  backend,  (* whether dev->backend points to an AURORADevice              *)
  bars,     (* base address register -> the region registered there        *)
  heap,     (* AURORADevices allocated and not freed                       *)
  orphans,  (* of these, the ones no device points to any more (history)   *)
  plugs     (* devices so far                                              *)

lifeVars == <<life, backend, bars, heap, orphans, plugs>>
deviceVars == <<devVars, lifeVars>>
engineVars == <<status, cfg, buff, regs, dpc, idx>>

NoBars == [b \in 0 .. 5 |-> "none"]

DeviceInit ==
  /\ DevInit
  /\ life = "absent" /\ backend = FALSE /\ bars = NoBars
  /\ heap = 0 /\ orphans = 0 /\ plugs = 0

-----------------------------------------------------------------------------
(* pciemu_device_init                                                      *)

(* pci_register_bar, external: a 64-bit BAR takes the next register, too.  *)
pci_register_bar(regions, nr, wide, region) ==
  [b \in 0 .. 5 |-> IF b = nr \/ (wide = 64 /\ b = nr + 1) THEN region ELSE regions[b]]

pciemu_regbar_init(regions) == pci_register_bar(regions, REG_BAR, 32, "reg")
pciemu_internal_bar_init(regions) == pci_register_bar(regions, INT_BAR, 32, "internal")
pciemu_membar_init(regions) == pci_register_bar(regions, MEM_BAR, 64, "dmem")

(* QEMU hands over a new object, zeroed, without enabled capabilities. *)
NewObject ==
  /\ life = "absent"
  /\ plugs < MaxPlugs /\ plugs' = plugs + 1
  /\ msixOn' = FALSE /\ msiOn' = FALSE
  /\ raised' = [v \in Vectors |-> FALSE] /\ pin' = FALSE
  /\ UNCHANGED <<line, irr, mem>>

(* pciemu_irq_init: the capabilities that could be set up.  Each one that  *)
(* could not has set the error of realize.                                 *)
pciemu_irq_init(set_up) == set_up \subseteq Capabilities /\ (CanFail \/ set_up = Capabilities)

(* A bug this code could have: malloc's garbage is taken for a status.     *)
BackendInitNoReset(made) ==
  /\ made /\ heap' = heap + 1
  /\ regs' \in [Regs -> Garbage]
  /\ status' \in {"IDLE", "EXECUTING"} /\ cfg' = ZeroCfg /\ buff' = ZeroBuff
  /\ UNCHANGED <<dpc, idx>>

(* glue_backend_init; a malloc that fails is logged and reported to nobody. *)
aurora_backend_init(made) ==
  \/ /\ made /\ heap' = heap + 1
     /\ regs' \in [Regs -> Garbage]
     /\ status' = "IDLE" /\ cfg' = ZeroCfg /\ buff' = ZeroBuff
     /\ UNCHANGED <<dpc, idx>>
  \/ /\ ~made /\ CanFail
     /\ UNCHANGED <<heap, engineVars>>

(* The device appears, with both capabilities and perhaps no backend. *)
Realize ==
  /\ NewObject
  /\ bars' = pciemu_membar_init(pciemu_internal_bar_init(pciemu_regbar_init(NoBars)))
  /\ pciemu_irq_init(Capabilities)
  /\ \E made \in BOOLEAN : aurora_backend_init(made) /\ backend' = made
  /\ life' = "realized"
  /\ UNCHANGED orphans

(* One capability fails: realize goes on and makes the backend all the     *)
(* same, and QEMU drops the object that points to it.                      *)
RealizeFails ==
  /\ NewObject
  /\ pciemu_irq_init({"msi"}) \/ pciemu_irq_init({"msix"})
  /\ \E made \in BOOLEAN :
       /\ aurora_backend_init(made)
       /\ orphans' = IF made THEN orphans + 1 ELSE orphans
  /\ UNCHANGED <<life, backend, bars>>

(* Both fail, as they do on a machine without MSI: the second error is put *)
(* where the first one is, before there is a backend.                      *)
RealizeFailsTwice ==
  /\ NewObject
  /\ pciemu_irq_init({})
  /\ life' = "stopped"
  /\ UNCHANGED <<engineVars, backend, bars, heap, orphans>>

-----------------------------------------------------------------------------
(* The device at work, and pciemu_device_fini.                             *)

Works ==
  /\ life = "realized" /\ backend
  /\ DevNext
  /\ UNCHANGED lifeVars

(* Without a backend the guest can still set modes; addresses that no      *)
(* register answers are ignored.                                           *)
WorksWithoutBackend ==
  /\ life = "realized" /\ ~backend
  /\ GuestSetsMode
  /\ UNCHANGED lifeVars

(* Any register written, a reset, or the unplug of a device without a      *)
(* backend: get_aurora_dev gives NULL and somebody dereferences it.        *)
NullDereference ==
  /\ life = "realized" /\ ~backend
  /\ life' = "stopped"
  /\ UNCHANGED <<devVars, backend, bars, heap, orphans, plugs>>

(* A bug this code could have: the backend is not freed. *)
FiniForgetsFree ==
  /\ backend' = FALSE
  /\ status' = "IDLE" /\ cfg' = ZeroCfg /\ buff' = ZeroBuff
  /\ UNCHANGED <<heap, regs, dpc, idx>>

(* The last state before free; DMA_STATUS_OFF is gone with the struct. *)
aurora_backend_fini ==
  /\ backend' = FALSE /\ heap' = heap - 1
  /\ status' = "IDLE" /\ cfg' = ZeroCfg /\ buff' = ZeroBuff
  /\ UNCHANGED <<regs, dpc, idx>>

(* Where pciemu_irq_init_msix puts the MSI-X table. *)
MsixRegion == "internal"

(* msix_uninit, external: it asserts that the table is in the region. *)
msix_uninit(region) == life' = IF region = MsixRegion THEN "absent" ELSE "stopped"

(* A bug this code could have: the interrupt is not lowered. *)
FiniKeepsLine ==
  /\ msix_uninit("reg")
  /\ UNCHANGED <<raised, pin, line>>

(* The reset lowers the line in the mode that can assert it. *)
pciemu_irq_fini ==
  /\ pciemu_irq_reset
  /\ line' = (line /\ (msixOn \/ msiOn))
  /\ msix_uninit("reg")

Unplug ==
  /\ life = "realized" /\ backend /\ dpc = "idle"
  /\ aurora_backend_fini
  /\ pciemu_irq_fini
  /\ UNCHANGED <<pciVars, irr, mem, bars, orphans, plugs>>

(* Somebody starts QEMU again. *)
Restart ==
  /\ msixOn' = FALSE /\ msiOn' = FALSE
  /\ raised' = [v \in Vectors |-> FALSE] /\ pin' = FALSE
  /\ line' = FALSE /\ irr' = {}
  /\ status' = "IDLE" /\ cfg' = ZeroCfg /\ buff' = ZeroBuff
  /\ dpc' = "idle" /\ idx' = 0
  /\ regs' \in [Regs -> Garbage] /\ mem' \in [Ram -> Garbage]
  /\ life' = "absent" /\ backend' = FALSE /\ bars' = NoBars
  /\ heap' = 0 /\ orphans' = 0 /\ plugs' = 0

DeviceNext ==
  \/ Realize \/ RealizeFails \/ RealizeFailsTwice
  \/ Works \/ WorksWithoutBackend \/ NullDereference
  \/ Unplug \/ Restart

DeviceSpec == DeviceInit /\ [][DeviceNext]_deviceVars

-----------------------------------------------------------------------------
LifeTypeOK ==
  /\ life \in {"absent", "realized", "stopped"} /\ backend \in BOOLEAN
  /\ bars \in [0 .. 5 -> {"none", "reg", "internal", "dmem"}]
  /\ heap \in Nat /\ orphans \in Nat /\ plugs \in Nat

(* A backend is freed once, and the only ones never freed are those of     *)
(* devices whose realize failed after QEMU had been told so                *)
(* (pciemu.c:29-30, aurora.c:91-109).                                      *)
BackendsConserved == heap = orphans + (IF backend THEN 1 ELSE 0)

(* The line is asserted only while there is a backend that the guest's ACK *)
(* can reach: no mode switch, failed realize or unplug leaves it behind    *)
(* (irq.c:144-163, 175-180, pciemu.c:33-41).                               *)
LineEndsWithBackend == line => backend

(* Where there is a backend there is a realized device around it, and an   *)
(* engine whose status says whether a doorbell is in progress: malloc's    *)
(* garbage, a realize after a failed one or a reset leave no status of     *)
(* their own.  Where there is none (an absent device, or a realized one    *)
(* whose malloc failed) no doorbell is in progress, no line is asserted,   *)
(* and nothing is claimed of an engine (pciemu.c:23-41, aurora.c:91-109,   *)
(* dma.c:173-180, irq.c:144-180).  This is the inductive invariant.        *)
DeviceInv ==
  /\ DevTypeOK /\ LifeTypeOK
  /\ backend => life = "realized" /\ EngineStatus
  /\ ~backend => dpc = "idle" /\ idx = 0
  /\ BackendsConserved /\ AssertedLineIsAckable /\ LineEndsWithBackend
=============================================================================
