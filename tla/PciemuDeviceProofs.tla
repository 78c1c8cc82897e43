------------------------- MODULE PciemuDeviceProofs -------------------------
(***************************************************************************)
(* The life of the device, for any number of devices, failures and         *)
(* restarts, under an arbitrary guest.                                     *)
(***************************************************************************)
EXTENDS PciemuDevice, AuroraProofs

(* The object QEMU hands over, and the engine as aurora_dma_init leaves it *)
(* where malloc gave one; where it did not, what is left of the variables  *)
(* keeps its types.                                                        *)
LEMMA NewObjectTypes ==
  ASSUME DevTypeOK, NewObject,
         \/ UNCHANGED engineVars
         \/ \E made \in BOOLEAN : aurora_backend_init(made)
  PROVE  DevTypeOK'
<1>1. IrqTypeOK'
  BY DEF DevTypeOK, IrqTypeOK, NewObject
<1>2. CASE UNCHANGED engineVars
  BY <1>1, <1>2 DEF DevTypeOK, AuroraTypeOK, NewObject, engineVars
<1>3. CASE \E made \in BOOLEAN : aurora_backend_init(made)
  BY <1>1, <1>3, <1>2, AuroraAssumption
     DEF DevTypeOK, AuroraTypeOK, NewObject, aurora_backend_init, ZeroCfg, ZeroBuff
<1> QED
  BY <1>2, <1>3

(* A step of a device that has a backend. *)
LEMMA WorksStep ==
  ASSUME DeviceInv, Works
  PROVE  DeviceInv'
<1>1. DevInv
  BY DEF DeviceInv, DevInv, Works
<1>2. DevInv' /\ AssertedLineIsAckable'
  BY <1>1, DevInvStep, LineStep DEF DeviceInv, Works
<1> QED
  BY <1>2 DEF DeviceInv, DevInv, Works, lifeVars, LifeTypeOK,
              BackendsConserved, LineEndsWithBackend

(* Modes set by the guest of a device that has none. *)
LEMMA WorksWithoutStep ==
  ASSUME DeviceInv, WorksWithoutBackend
  PROVE  DeviceInv'
<1>1. DevNext
  BY DEF WorksWithoutBackend, DevNext
<1>2. AssertedLineIsAckable'
  BY <1>1, LineStep DEF DeviceInv
<1>3. PICK x \in Modes : SetIrqMode(x[1], x[2])
  BY DEF WorksWithoutBackend, GuestSetsMode
<1>4. line' => line
  BY <1>3, Zenon DEF SetIrqMode
<1>5. line' \in BOOLEAN
  BY <1>3, Zenon DEF SetIrqMode
<1>6. IrqTypeOK'
  BY <1>3, <1>5, AuroraAssumption DEF SetIrqMode, DeviceInv, DevTypeOK, IrqTypeOK
<1>7. AuroraTypeOK' /\ UNCHANGED <<dpc, idx>>
  BY DEF WorksWithoutBackend, GuestSetsMode, DeviceInv, DevTypeOK, AuroraTypeOK
<1>8. LineEndsWithBackend'
  BY <1>4 DEF DeviceInv, LineEndsWithBackend, WorksWithoutBackend, lifeVars
<1> QED
  BY <1>2, <1>6, <1>7, <1>8 DEF DeviceInv, DevTypeOK, WorksWithoutBackend, lifeVars,
                                LifeTypeOK, BackendsConserved

(* An absent device has no doorbell in progress, no line and no backend.   *)
LEMMA NewDevice ==
  ASSUME DeviceInv, NewObject
  PROVE  ~backend /\ dpc = "idle" /\ idx = 0 /\ ~line /\ AssertedLineIsAckable'
BY DEF DeviceInv, NewObject, LineEndsWithBackend, AssertedLineIsAckable

(* What the three registrations make of the base address registers. *)
LEMMA BarsType ==
  pciemu_membar_init(pciemu_internal_bar_init(pciemu_regbar_init(NoBars)))
    \in [0 .. 5 -> {"none", "reg", "internal", "dmem"}]
BY DEF pciemu_membar_init, pciemu_internal_bar_init, pciemu_regbar_init,
       pci_register_bar, NoBars, REG_BAR, INT_BAR, MEM_BAR

LEMMA RealizeStep ==
  ASSUME DeviceInv, Realize
  PROVE  DeviceInv'
<1>1. ~backend /\ dpc = "idle" /\ idx = 0 /\ ~line /\ AssertedLineIsAckable'
  BY NewDevice DEF Realize
<1>2. PICK made \in BOOLEAN : aurora_backend_init(made) /\ backend' = made
  BY DEF Realize
<1>3. DevTypeOK'
  BY <1>2, NewObjectTypes DEF DeviceInv, Realize
<1>4. dpc' = "idle" /\ idx' = 0 /\ ~line'
  BY <1>1, <1>2 DEF aurora_backend_init, engineVars, Realize, NewObject
<1>5. backend' => EngineStatus'
  BY <1>2, <1>4 DEF aurora_backend_init, EngineStatus
<1>6. heap' \in Nat /\ plugs' \in Nat /\ BackendsConserved'
  BY <1>1, <1>2 DEF DeviceInv, LifeTypeOK, BackendsConserved, aurora_backend_init,
                    Realize, NewObject
<1>7. LifeTypeOK'
  BY <1>2, <1>6, BarsType DEF LifeTypeOK, DeviceInv, Realize
<1> QED
  BY <1>1, <1>3, <1>4, <1>5, <1>6, <1>7 DEF DeviceInv, Realize, LineEndsWithBackend

LEMMA RealizeFailsStep ==
  ASSUME DeviceInv, RealizeFails \/ RealizeFailsTwice
  PROVE  DeviceInv'
<1>1. ~backend /\ dpc = "idle" /\ idx = 0 /\ ~line /\ AssertedLineIsAckable'
  BY NewDevice DEF RealizeFails, RealizeFailsTwice
<1>2. DevTypeOK'
  BY NewObjectTypes DEF DeviceInv, RealizeFails, RealizeFailsTwice
<1>3. dpc' = "idle" /\ idx' = 0 /\ ~line' /\ backend' = backend
  BY <1>1 DEF aurora_backend_init, engineVars, RealizeFails, RealizeFailsTwice, NewObject
<1>4. heap' \in Nat /\ orphans' \in Nat /\ plugs' \in Nat /\ BackendsConserved'
  BY <1>1, <1>3 DEF DeviceInv, LifeTypeOK, BackendsConserved, aurora_backend_init,
                    RealizeFails, RealizeFailsTwice, NewObject
<1>5. LifeTypeOK'
  BY <1>3, <1>4 DEF LifeTypeOK, DeviceInv, RealizeFails, RealizeFailsTwice, NewObject
<1> QED
  BY <1>1, <1>2, <1>3, <1>4, <1>5 DEF DeviceInv, LineEndsWithBackend

LEMMA UnplugStep ==
  ASSUME DeviceInv, Unplug
  PROVE  DeviceInv'
<1>1. ~line' /\ line' \in BOOLEAN
  BY Zenon DEF DeviceInv, AssertedLineIsAckable, Unplug, pciemu_irq_fini
<1>2. raised' \in [Vectors -> BOOLEAN] /\ pin' \in BOOLEAN
  BY Zenon DEF Unplug, pciemu_irq_fini, pciemu_irq_reset
<1>3. IrqTypeOK'
  BY <1>1, <1>2 DEF DeviceInv, DevTypeOK, IrqTypeOK, Unplug, pciVars
<1>4. AuroraTypeOK'
  BY AuroraAssumption DEF DeviceInv, DevTypeOK, AuroraTypeOK, ZeroCfg, ZeroBuff,
                          Unplug, aurora_backend_fini
<1>5. dpc' = "idle" /\ idx' = 0 /\ backend' = FALSE
  BY DEF DeviceInv, EngineStatus, Unplug, aurora_backend_fini
<1>6. heap' \in Nat /\ BackendsConserved'
  BY DEF DeviceInv, LifeTypeOK, BackendsConserved, Unplug, aurora_backend_fini
<1>7. life' = "stopped"
  BY DEF Unplug, pciemu_irq_fini, msix_uninit, MsixRegion
<1> QED
  BY <1>1, <1>3, <1>4, <1>5, <1>6, <1>7
     DEF DeviceInv, DevTypeOK, LifeTypeOK, Unplug, AssertedLineIsAckable, LineEndsWithBackend

LEMMA RestartStep ==
  ASSUME DeviceInv, Restart
  PROVE  DeviceInv'
<1>1. IrqTypeOK'
  BY DEF Restart, IrqTypeOK
<1>2. AuroraTypeOK'
  BY AuroraAssumption DEF Restart, AuroraTypeOK, ZeroCfg, ZeroBuff
<1>3. BackendsConserved'
  BY DEF Restart, BackendsConserved
<1>4. LifeTypeOK'
  BY DEF Restart, LifeTypeOK, NoBars
<1> QED
  BY <1>1, <1>2, <1>3, <1>4
     DEF Restart, DeviceInv, DevTypeOK, AssertedLineIsAckable, LineEndsWithBackend

(* Where the device's own variables stay, so does what is said of them. *)
LEMMA DevKept ==
  ASSUME DeviceInv, UNCHANGED devVars
  PROVE  /\ DevTypeOK' /\ AssertedLineIsAckable'
         /\ EngineStatus' = EngineStatus /\ UNCHANGED <<line, dpc, idx>>
BY DEF DeviceInv, devVars, pciVars, irqVars, DevTypeOK, IrqTypeOK, AuroraTypeOK,
       AssertedLineIsAckable, EngineStatus, Accepted, aurora_dma_inside_device_boundaries

LEMMA NullStep ==
  ASSUME DeviceInv, NullDereference
  PROVE  DeviceInv'
BY DevKept DEF DeviceInv, NullDereference, LifeTypeOK, BackendsConserved, LineEndsWithBackend

LEMMA DeviceStutter ==
  ASSUME DeviceInv, UNCHANGED deviceVars
  PROVE  DeviceInv'
<1>1. UNCHANGED devVars /\ UNCHANGED lifeVars
  BY DEF deviceVars
<1> QED
  BY <1>1, DevKept DEF DeviceInv, lifeVars, LifeTypeOK, BackendsConserved, LineEndsWithBackend

LEMMA DeviceInvInit == DeviceInit => DeviceInv
<1> SUFFICES ASSUME DeviceInit PROVE DeviceInv
  OBVIOUS
<1>1. DevInv
  BY DevInvInit DEF DeviceInit
<1>2. LifeTypeOK
  BY DEF DeviceInit, LifeTypeOK, NoBars
<1>3. BackendsConserved /\ ~backend /\ life = "absent"
  BY DEF DeviceInit, BackendsConserved
<1>4. dpc = "idle" /\ idx = 0 /\ ~line
  BY DEF DeviceInit, DevInit, IrqInit, AuroraInit
<1> QED
  BY <1>1, <1>2, <1>3, <1>4 DEF DeviceInv, DevInv, AssertedLineIsAckable, LineEndsWithBackend

(* Through any number of realizations, failures, unplugs and restarts: a   *)
(* backend belongs to a realized device and its status is true, whatever   *)
(* malloc's memory held, and without a backend nothing is in progress and  *)
(* no line is asserted (pciemu.c:23-41, aurora.c:91-109).                  *)
THEOREM DeviceInvHolds == DeviceSpec => []DeviceInv
<1>1. DeviceInv /\ [DeviceNext]_deviceVars => DeviceInv'
  <2> SUFFICES ASSUME DeviceInv, [DeviceNext]_deviceVars PROVE DeviceInv'
    OBVIOUS
  <2> QED
    BY RealizeStep, RealizeFailsStep, WorksStep, WorksWithoutStep, NullStep, UnplugStep,
       RestartStep, DeviceStutter DEF DeviceNext
<1> QED
  BY <1>1, DeviceInvInit, PTL DEF DeviceSpec

(* Backends are freed once; the ones lost are those of failed realizations *)
(* (pciemu.c:29-30, aurora.c:91-109).                                      *)
THEOREM BackendsCounted == DeviceSpec => []BackendsConserved
<1>1. DeviceInv => BackendsConserved
  BY DEF DeviceInv
<1> QED
  BY <1>1, DeviceInvHolds, PTL

(* No asserted line outlives the backend that can lower it (irq.c:175-180). *)
THEOREM LineEnds == DeviceSpec => []LineEndsWithBackend
<1>1. DeviceInv => LineEndsWithBackend
  BY DEF DeviceInv
<1> QED
  BY <1>1, DeviceInvHolds, PTL

(* On a device that is realized, reset, switched between all modes and     *)
(* unplugged in any order, the end of a transfer still reaches the guest   *)
(* in the mode enabled then (irq.c:106-124, 144-163, pciemu.c:14-41).      *)
THEOREM EndSignalledThroughLife == DeviceSpec => EndIsSignalled
<1>1. DeviceInv /\ [DeviceNext]_deviceVars
        => [dpc = "copy" /\ dpc' = "end" =>
              IF msixOn \/ msiOn THEN 0 \in irr' ELSE line']_devVars
  <2> SUFFICES ASSUME DeviceInv, [DeviceNext]_deviceVars, dpc = "copy", dpc' = "end"
               PROVE  IF msixOn \/ msiOn THEN 0 \in irr' ELSE line'
    OBVIOUS
  <2>1. backend
    BY DEF DeviceInv
  <2>2. life = "realized"
    BY <2>1 DEF DeviceInv
  <2>3. Works
    BY <2>1, <2>2 DEF DeviceNext, Realize, RealizeFails, RealizeFailsTwice, NewObject,
                      WorksWithoutBackend, NullDereference, Unplug, Restart,
                      deviceVars, devVars
  <2> QED
    BY <2>1, <2>3, EndInMode DEF DeviceInv, DevInv, Works
<1> QED
  BY <1>1, DeviceInvHolds, PTL DEF DeviceSpec, EndIsSignalled
=============================================================================
