---------------------------- MODULE AuroraProofs ----------------------------
(***************************************************************************)
(* The device under an arbitrary guest, for every size of the area, of the *)
(* bus and of the interrupt arrays.                                        *)
(***************************************************************************)
EXTENDS Aurora, TLAPS

LEMMA RaiseLowerType ==
  ASSUME IrqTypeOK, UNCHANGED pciVars,
         pciemu_irq_raise(0) \/ pciemu_irq_lower(0)
  PROVE  IrqTypeOK'
<1>1. 0 \in Vectors
  BY IrqAssumption DEF Vectors
<1>2. CASE pciemu_irq_raise_intx \/ pciemu_irq_lower_intx
  BY <1>2 DEF IrqTypeOK, pciVars, pciemu_irq_raise_intx, pciemu_irq_lower_intx
<1>3. ASSUME NEW max \in Nat,
             pciemu_irq_raise_msg(0, max) \/ pciemu_irq_lower_msg(0, max)
      PROVE  IrqTypeOK'
  BY <1>1, <1>3
     DEF IrqTypeOK, pciVars, irqVars, pciemu_irq_raise_msg, pciemu_irq_lower_msg
<1> QED
  BY <1>2, <1>3, IrqAssumption
     DEF IrqTypeOK, pciemu_irq_raise, pciemu_irq_lower

LEMMA WriteRegType ==
  ASSUME DevTypeOK, UNCHANGED pciVars,
         NEW reg, NEW value \in Val,
         aurora_write_reg_by_addr(reg, value)
  PROVE  /\ IrqTypeOK'
         /\ status' \in {"IDLE", "EXECUTING"}
         /\ cfg' \in [CfgRegs -> Val]
         /\ regs' \in [Regs -> Val]
         /\ dpc' \in {"idle", "copy", "end"}
<1> USE DEF DevTypeOK, AuroraTypeOK
<1>0. UNCHANGED irqVars => IrqTypeOK'
  BY DEF IrqTypeOK, irqVars, pciVars
<1>1. CASE reg \in Regs /\ regs' = [regs EXCEPT ![reg] = value]
           /\ UNCHANGED <<irqVars, dmaVars>>
  BY <1>0, <1>1 DEF dmaVars
<1>2. CASE (pciemu_irq_raise(0) \/ pciemu_irq_lower(0)) /\ UNCHANGED <<regs, dmaVars>>
  BY <1>2, RaiseLowerType DEF dmaVars
<1>3. CASE reg \in CfgRegs /\ aurora_dma_config(reg, value)
           /\ UNCHANGED <<irqVars, regs, status, dpc>>
  BY <1>0, <1>3 DEF aurora_dma_config
<1>4. CASE aurora_dma_doorbell_ring /\ UNCHANGED <<irqVars, regs, cfg>>
  BY <1>0, <1>4 DEF aurora_dma_doorbell_ring
<1>5. CASE UNCHANGED <<irqVars, regs, dmaVars>>
  BY <1>0, <1>5 DEF dmaVars
<1> QED
  BY <1>1, <1>2, <1>3, <1>4, <1>5 DEF aurora_write_reg_by_addr

LEMMA RegNamesType ==
  ASSUME NEW i \in 1 .. REG_CNT
  PROVE  RegNames[i] \in Regs
<1>1. i \in {1, 2, 3, 4}
  BY DEF REG_CNT
<1> QED
  BY <1>1 DEF Regs, RegNames

LEMMA BusCellType ==
  ASSUME DevTypeOK, NEW a
  PROVE  BusCell(a) \in Val
BY AuroraAssumption
   DEF DevTypeOK, AuroraTypeOK, BusCell, aurora_read_reg_by_addr

LEMMA DevCellType ==
  ASSUME DevTypeOK, NEW o \in Nat, NEW v \in DevCell(o)
  PROVE  v \in Val
<1>1. CASE o < AREA_SIZE
  BY <1>1, AuroraAssumption DEF DevTypeOK, AuroraTypeOK, DevCell
<1>2. CASE ~(o < AREA_SIZE) /\ o < AREA_SIZE + REG_CNT
  <2>1. o - AREA_SIZE + 1 \in 1 .. REG_CNT
    BY <1>2, AuroraAssumption DEF REG_CNT
  <2> QED
    BY <1>2, <2>1, RegNamesType DEF DevTypeOK, AuroraTypeOK, DevCell
<1> QED
  BY <1>1, <1>2 DEF DevCell

LEMMA SetDevCellType ==
  ASSUME DevTypeOK, NEW o \in Nat, NEW v \in Val, SetDevCell(o, v)
  PROVE  buff' \in [0 .. AREA_SIZE - 1 -> Val] /\ regs' \in [Regs -> Val]
<1>1. buff' \in [0 .. AREA_SIZE - 1 -> Val]
  BY AuroraAssumption DEF DevTypeOK, AuroraTypeOK, SetDevCell
<1>2. regs' \in [Regs -> Val]
  BY RegNamesType DEF DevTypeOK, AuroraTypeOK, SetDevCell
<1> QED
  BY <1>1, <1>2

LEMMA CfgNat ==
  ASSUME DevTypeOK
  PROVE  cfg.src \in Nat /\ cfg.dst \in Nat /\ cfg.len \in Nat /\ idx \in Nat
<1>1. \A r \in CfgRegs : cfg[r] \in Nat
  BY AuroraAssumption DEF DevTypeOK, AuroraTypeOK
<1> QED
  BY <1>1 DEF DevTypeOK, AuroraTypeOK, CfgRegs

(* The window of the engine starts at AREA_START: no offset is negative.   *)
LEMMA OffsetType ==
  ASSUME DevInv, dpc = "copy"
  PROVE  /\ cfg.cmd = TO_DEVICE => cfg.dst - AREA_START + idx \in Nat
         /\ cfg.cmd = FROM_DEVICE => cfg.src - AREA_START + idx \in Nat
<1>1. cfg.src \in Nat /\ cfg.dst \in Nat /\ idx \in Nat /\ AREA_START \in Nat
  BY AuroraAssumption, CfgNat DEF DevInv
<1>2. /\ cfg.cmd = TO_DEVICE => AREA_START <= cfg.dst
      /\ cfg.cmd = FROM_DEVICE => AREA_START <= cfg.src
  BY DEF DevInv, EngineStatus, Accepted, aurora_dma_inside_device_boundaries,
         TO_DEVICE, FROM_DEVICE
<1> QED
  BY <1>1, <1>2

LEMMA ReadCellType ==
  ASSUME DevInv, dpc = "copy", ReadCell, UNCHANGED pciVars, idx' = idx + 1
  PROVE  DevTypeOK'
<1> DEFINE o == cfg.dst - AREA_START + idx
           v == BusCell(aurora_dma_addr_mask(cfg.src) + idx)
<1>1. o \in Nat /\ v \in Val /\ SetDevCell(o, v)
  BY OffsetType, BusCellType DEF DevInv, ReadCell
<1> HIDE DEF o, v
<1>2. buff' \in [0 .. AREA_SIZE - 1 -> Val] /\ regs' \in [Regs -> Val]
  BY <1>1, SetDevCellType DEF DevInv
<1> QED
  BY <1>2 DEF DevInv, DevTypeOK, AuroraTypeOK, IrqTypeOK, ReadCell,
              irqVars, dmaVars, pciVars

LEMMA WriteCellType ==
  ASSUME DevInv, dpc = "copy", WriteCell, UNCHANGED pciVars, idx' = idx + 1
  PROVE  DevTypeOK'
<1> DEFINE a == aurora_dma_addr_mask(cfg.dst) + idx
<1>1. PICK v \in DevCell(cfg.src - AREA_START + idx) : BusWrite(a, v)
  BY DEF WriteCell
<1>2. v \in Val
  BY OffsetType, DevCellType DEF DevInv, WriteCell
<1> HIDE DEF a
<1>3. CASE a \notin DOMAIN SelfBar /\ UNCHANGED <<irqVars, regs, dmaVars>>
  BY <1>1, <1>2, <1>3
     DEF DevInv, DevTypeOK, AuroraTypeOK, IrqTypeOK, WriteCell, BusWrite,
         irqVars, dmaVars, pciVars
<1>4. CASE aurora_write_reg_by_addr(SelfBar[a], v) /\ UNCHANGED mem
  BY <1>2, <1>4, WriteRegType DEF DevInv, DevTypeOK, AuroraTypeOK, WriteCell
<1> QED
  BY <1>1, <1>3, <1>4 DEF BusWrite

(* The type invariant is preserved by every step of the device. *)
LEMMA DevTypeStep ==
  ASSUME DevInv, [DevNext]_devVars
  PROVE  DevTypeOK'
<1> USE DEF DevInv
<1>1. CASE \E reg \in BarRegs : \E value \in Inputs[reg] : GuestWrite(reg, value)
  <2>1. PICK reg \in BarRegs : \E value \in Inputs[reg] : GuestWrite(reg, value)
    BY <1>1
  <2>2. PICK value \in Val : GuestWrite(reg, value)
    BY <2>1, AuroraAssumption
  <2> QED
    BY <2>2, WriteRegType DEF GuestWrite, DevTypeOK, AuroraTypeOK
<1>2. CASE CopyCell
  BY <1>2, ReadCellType, WriteCellType DEF CopyCell
<1>3. CASE RaiseEnded
  BY <1>3, RaiseLowerType DEF RaiseEnded, DevTypeOK, AuroraTypeOK
<1>4. CASE DoorbellEnd
  BY <1>4 DEF DoorbellEnd, DevTypeOK, AuroraTypeOK, IrqTypeOK, irqVars, pciVars
<1>5. CASE GuestSetsMode
  BY <1>5, AuroraAssumption
     DEF GuestSetsMode, SetIrqMode, DevTypeOK, AuroraTypeOK, IrqTypeOK
<1>6. CASE GuestTakesMessage
  BY <1>6 DEF GuestTakesMessage, TakeMessage, DevTypeOK, AuroraTypeOK, IrqTypeOK, pciVars
<1>7. CASE MachineReset
  <2>1. ZeroCfg \in [CfgRegs -> Val] /\ ZeroBuff \in [0 .. AREA_SIZE - 1 -> Val]
    BY AuroraAssumption DEF ZeroCfg, ZeroBuff
  <2>2. IrqTypeOK'
    BY <1>7 DEF MachineReset, ResetDevice, pciemu_irq_reset, DevTypeOK, IrqTypeOK
  <2> QED
    BY <1>7, <2>1, <2>2
       DEF MachineReset, ResetDevice, aurora_backend_reset, DevTypeOK, AuroraTypeOK
<1>8. CASE UNCHANGED devVars
  BY <1>8 DEF devVars, DevTypeOK, AuroraTypeOK, IrqTypeOK, irqVars, pciVars
<1> QED
  BY <1>1, <1>2, <1>3, <1>4, <1>5, <1>6, <1>7, <1>8 DEF DevNext

(* A register write leaves the descriptor of an executing transfer alone.  *)
LEMMA WriteRegKeepsCfg ==
  ASSUME status = "EXECUTING", NEW reg, NEW value,
         aurora_write_reg_by_addr(reg, value)
  PROVE  UNCHANGED dmaVars
BY DEF aurora_write_reg_by_addr, aurora_dma_config, aurora_dma_doorbell_ring, dmaVars

LEMMA CopyCellKeepsCfg ==
  ASSUME DevInv, CopyCell
  PROVE  UNCHANGED dmaVars
<1>1. status = "EXECUTING"
  BY DEF DevInv, EngineStatus, CopyCell
<1>2. CASE ReadCell
  BY <1>2 DEF ReadCell
<1>3. CASE WriteCell
  BY <1>1, <1>3, WriteRegKeepsCfg DEF WriteCell, BusWrite
<1> QED
  BY <1>2, <1>3 DEF CopyCell

LEMMA DevInvStep ==
  ASSUME DevInv, [DevNext]_devVars
  PROVE  DevInv'
<1>1. DevTypeOK'
  BY DevTypeStep
<1> SUFFICES EngineStatus'
  BY <1>1 DEF DevInv
<1> USE DEF DevInv, EngineStatus
<1>2. CASE \E reg \in BarRegs : \E value \in Inputs[reg] : GuestWrite(reg, value)
  <2>1. PICK reg, value : GuestWrite(reg, value)
    BY <1>2
  <2>2. dpc = "idle" /\ status = "IDLE" /\ idx = 0 /\ idx' = 0
    BY <2>1 DEF GuestWrite, DevTypeOK, AuroraTypeOK
  <2>3. CASE UNCHANGED <<status, dpc>>
    BY <2>2, <2>3
  <2>4. CASE aurora_dma_doorbell_ring /\ UNCHANGED cfg
    <3>1. Accepted' = Accepted
      BY <2>4 DEF Accepted
    <3>2. 0 <= cfg'.len
      BY <2>4, CfgNat
    <3> QED
      BY <2>2, <2>4, <3>1, <3>2 DEF aurora_dma_doorbell_ring
  <2> QED
    BY <2>1, <2>3, <2>4 DEF GuestWrite, aurora_write_reg_by_addr, dmaVars
<1>3. CASE CopyCell
  <2>1. UNCHANGED <<status, cfg, dpc>>
    BY <1>3, CopyCellKeepsCfg DEF dmaVars
  <2>2. idx' <= cfg.len
    BY <1>3, CfgNat DEF CopyCell
  <2>3. Accepted' = Accepted
    BY <2>1 DEF Accepted
  <2> QED
    BY <1>3, <2>1, <2>2, <2>3 DEF CopyCell
<1>4. CASE RaiseEnded
  BY <1>4 DEF RaiseEnded
<1>5. CASE DoorbellEnd
  BY <1>5 DEF DoorbellEnd
<1>6. CASE GuestSetsMode \/ GuestTakesMessage \/ UNCHANGED devVars
  <2>1. UNCHANGED <<status, cfg, dpc, idx>>
    BY <1>6 DEF GuestSetsMode, GuestTakesMessage, devVars
  <2>2. Accepted' = Accepted
    BY <2>1 DEF Accepted
  <2> QED
    BY <2>1, <2>2
<1>7. CASE MachineReset
  BY <1>7 DEF MachineReset, ResetDevice, aurora_backend_reset
<1> QED
  BY <1>2, <1>3, <1>4, <1>5, <1>6, <1>7 DEF DevNext

LEMMA DevInvInit == DevInit => DevInv
<1> SUFFICES ASSUME DevInit PROVE DevInv
  OBVIOUS
<1>1. IrqTypeOK
  BY IrqAssumption DEF DevInit, IrqInit, IrqTypeOK, Vectors
<1>2. AuroraTypeOK
  BY AuroraAssumption
     DEF DevInit, AuroraInit, AuroraTypeOK, ZeroCfg, ZeroBuff
<1> QED
  BY <1>1, <1>2 DEF DevInit, AuroraInit, DevInv, DevTypeOK, EngineStatus

-----------------------------------------------------------------------------
(* Whatever a guest writes, in whatever order, and whatever a transfer     *)
(* writes back into the device: the variables keep their types, dma.status *)
(* says whether a doorbell is in progress, and only an accepted descriptor *)
(* is ever copied (dma.c, aurora.c, irq.c).                                *)
THEOREM DevInvHolds == DevSpec => []DevInv
<1>1. DevInv /\ [DevNext]_devVars => DevInv'
  BY DevInvStep
<1> QED
  BY <1>1, DevInvInit, PTL DEF DevSpec

(* The type invariant alone. *)
THEOREM DevTypeCorrect == DevSpec => []DevTypeOK
<1>1. DevInv => DevTypeOK
  BY DEF DevInv
<1> QED
  BY <1>1, DevInvHolds, PTL

(* No step changes the descriptor of an executing transfer (dma.c:86-112). *)
THEOREM ConfigStable == DevSpec => ConfigStableWhileExecuting
<1>1. DevInv /\ [DevNext]_devVars => [status = "EXECUTING" => UNCHANGED cfg]_devVars
  <2> SUFFICES ASSUME DevInv, DevNext, status = "EXECUTING"
               PROVE  UNCHANGED cfg
    OBVIOUS
  <2>1. dpc # "idle"
    BY DEF DevInv, EngineStatus
  <2>2. CASE CopyCell
    BY <2>2, CopyCellKeepsCfg DEF dmaVars
  <2> QED
    BY <2>1, <2>2 DEF DevNext, GuestWrite, RaiseEnded, DoorbellEnd, GuestSetsMode,
                      GuestTakesMessage, MachineReset, ResetDevice
<1> QED
  BY <1>1, DevInvHolds, PTL DEF DevSpec, ConfigStableWhileExecuting

(* A transfer goes forward cell by cell to its end, whatever it writes     *)
(* into the registers of the device that runs it (dma.c:36-84, 114-128).   *)
THEOREM RunsToItsEnd == DevSpec => TransferRunsToItsEnd
<1> DEFINE Forward == \/ dpc' = "copy" /\ idx' \in {idx, idx + 1}
                      \/ dpc' = "end" /\ idx = cfg.len
<1>1. DevInv /\ [DevNext]_devVars => [dpc = "copy" => Forward]_devVars
  <2> SUFFICES ASSUME DevInv, DevNext, dpc = "copy"
               PROVE  Forward
    OBVIOUS
  <2>1. CASE CopyCell
    BY <2>1, CopyCellKeepsCfg DEF dmaVars, CopyCell
  <2>2. CASE RaiseEnded
    <3>1. idx \in Nat /\ cfg.len \in Nat /\ idx <= cfg.len
      BY CfgNat DEF DevInv, EngineStatus
    <3> QED
      BY <2>2, <3>1 DEF RaiseEnded
  <2>3. CASE GuestTakesMessage
    BY <2>3 DEF GuestTakesMessage
  <2> QED
    BY <2>1, <2>2, <2>3 DEF DevNext, GuestWrite, DoorbellEnd, GuestSetsMode,
                            MachineReset, ResetDevice
<1> QED
  BY <1>1, DevInvHolds, PTL DEF DevSpec, TransferRunsToItsEnd

(* A descriptor the engine refuses moves nothing and interrupts nobody     *)
(* (dma.c:39-41, 51-54, 71-74).                                            *)
THEOREM RejectedSilent == DevSpec => RejectedIsSilent
<1> DEFINE Silent == UNCHANGED <<mem, buff, regs, raised, pin>>
<1>1. DevInv /\ [DevNext]_devVars
        => [status = "EXECUTING" /\ ~Accepted => Silent]_devVars
  <2> SUFFICES ASSUME DevInv, DevNext, status = "EXECUTING", ~Accepted
               PROVE  Silent
    OBVIOUS
  <2>1. dpc # "idle" /\ dpc # "copy"
    BY DEF DevInv, EngineStatus
  <2> QED
    BY <2>1 DEF DevNext, GuestWrite, CopyCell, RaiseEnded, DoorbellEnd, irqVars,
                GuestSetsMode, GuestTakesMessage, TakeMessage, MachineReset, ResetDevice
<1> QED
  BY <1>1, DevInvHolds, PTL DEF DevSpec, RejectedIsSilent

(* Only RaiseEnded ends a transfer, and it looks at the mode alone. *)
LEMMA EndInMode ==
  ASSUME DevInv, DevNext, dpc = "copy", dpc' = "end"
  PROVE  IF msixOn \/ msiOn THEN 0 \in irr' ELSE line'
<1>1. ~CopyCell
  BY CopyCellKeepsCfg DEF dmaVars
<1>2. RaiseEnded
  BY <1>1 DEF DevNext, GuestWrite, DoorbellEnd, GuestSetsMode, GuestTakesMessage,
              MachineReset, ResetDevice
<1>3. MSI_MAX \in Nat /\ MSIX_MAX \in Nat /\ 0 < MSI_MAX /\ 0 < MSIX_MAX
  BY IrqAssumption
<1> QED
  BY <1>2, <1>3 DEF RaiseEnded, pciemu_irq_raise, pciemu_irq_raise_msg,
                    pciemu_irq_raise_intx

(* Whatever the raised flags say and whatever the bus refused, the end of  *)
(* a transfer reaches the guest in the mode that is enabled then           *)
(* (dma.c:57-59, 77-83, irq.c:55-73, 106-124).                             *)
THEOREM EndSignalled == DevSpec => EndIsSignalled
<1>1. DevInv /\ [DevNext]_devVars
        => [dpc = "copy" /\ dpc' = "end" =>
              IF msixOn \/ msiOn THEN 0 \in irr' ELSE line']_devVars
  BY EndInMode
<1> QED
  BY <1>1, DevInvHolds, PTL DEF DevSpec, EndIsSignalled

(* Raising or lowering vector 0 asserts the line in INTx mode only, and    *)
(* only together with the pin flag.                                        *)
LEMMA LineFollowsPin ==
  ASSUME AssertedLineIsAckable, UNCHANGED pciVars,
         pciemu_irq_raise(0) \/ pciemu_irq_lower(0)
  PROVE  AssertedLineIsAckable'
BY DEF AssertedLineIsAckable, pciVars, irqVars, pciemu_irq_raise, pciemu_irq_lower,
       pciemu_irq_raise_msg, pciemu_irq_lower_msg, pciemu_irq_raise_intx,
       pciemu_irq_lower_intx

LEMMA LineKept ==
  ASSUME AssertedLineIsAckable, UNCHANGED <<pciVars, irqVars>>
  PROVE  AssertedLineIsAckable'
BY DEF AssertedLineIsAckable, pciVars, irqVars

LEMMA LineAfterWrite ==
  ASSUME AssertedLineIsAckable, UNCHANGED pciVars, NEW reg, NEW value,
         aurora_write_reg_by_addr(reg, value)
  PROVE  AssertedLineIsAckable'
BY LineFollowsPin, LineKept DEF aurora_write_reg_by_addr

LEMMA LineStep ==
  ASSUME AssertedLineIsAckable, [DevNext]_devVars
  PROVE  AssertedLineIsAckable'
<1>1. CASE \E reg \in BarRegs : \E value \in Inputs[reg] : GuestWrite(reg, value)
  BY <1>1, LineAfterWrite DEF GuestWrite
<1>2. CASE CopyCell
  BY <1>2, LineAfterWrite, LineKept DEF CopyCell, ReadCell, WriteCell, BusWrite
<1>3. CASE RaiseEnded
  BY <1>3, LineFollowsPin DEF RaiseEnded
<1>4. CASE DoorbellEnd \/ UNCHANGED devVars
  BY <1>4, LineKept DEF DoorbellEnd, devVars
<1>5. CASE GuestSetsMode
  <2>1. PICK m \in Modes : SetIrqMode(m[1], m[2])
    BY <1>5 DEF GuestSetsMode
  <2>2. line' => line /\ ~msixOn' /\ ~msiOn'
    BY <2>1, Zenon DEF SetIrqMode
  <2> QED
    BY <2>1, <2>2 DEF SetIrqMode, AssertedLineIsAckable
<1>6. CASE GuestTakesMessage
  BY <1>6 DEF GuestTakesMessage, TakeMessage, AssertedLineIsAckable, pciVars
<1>7. CASE MachineReset
  BY <1>7 DEF MachineReset, ResetDevice, AssertedLineIsAckable
<1> QED
  BY <1>1, <1>2, <1>3, <1>4, <1>5, <1>6, <1>7 DEF DevNext

(* The line is never asserted where the driver's ACK would not reach it    *)
(* (irq.c:106-142).                                                        *)
THEOREM LineAckable == DevSpec => []AssertedLineIsAckable
<1>1. DevInit => AssertedLineIsAckable
  BY DEF DevInit, IrqInit, AssertedLineIsAckable
<1>2. AssertedLineIsAckable /\ [DevNext]_devVars => AssertedLineIsAckable'
  BY LineStep
<1> QED
  BY <1>1, <1>2, PTL DEF DevSpec

-----------------------------------------------------------------------------
(* What a transfer has copied.  Its two ends, j cells on.                  *)
BusAt(j) == aurora_dma_addr_mask(IF cfg.cmd = TO_DEVICE THEN cfg.src ELSE cfg.dst) + j
DevAt(j) == (IF cfg.cmd = TO_DEVICE THEN cfg.dst ELSE cfg.src) - AREA_START + j
SameCell(j) == BusAt(j) \in Ram /\ DevAt(j) < AREA_SIZE => buff[DevAt(j)] = mem[BusAt(j)]

LEMMA EndsType ==
  ASSUME DevInv, dpc = "copy"
  PROVE  /\ cfg.cmd \in {TO_DEVICE, FROM_DEVICE}
         /\ \A j \in Nat : /\ BusAt(j) \in Nat /\ DevAt(j) \in Nat
                          /\ BusAt(j) = BusAt(0) + j /\ DevAt(j) = DevAt(0) + j
<1>1. cfg.src \in Nat /\ cfg.dst \in Nat
  BY CfgNat DEF DevInv
<1>2. \A a \in Nat : aurora_dma_addr_mask(a) \in Nat
  BY AuroraAssumption DEF aurora_dma_addr_mask
<1>3. /\ cfg.cmd \in {TO_DEVICE, FROM_DEVICE}
      /\ cfg.cmd = TO_DEVICE => AREA_START <= cfg.dst
      /\ cfg.cmd = FROM_DEVICE => AREA_START <= cfg.src
  BY DEF DevInv, EngineStatus, Accepted, aurora_dma_inside_device_boundaries,
         TO_DEVICE, FROM_DEVICE
<1>4. \A j \in Nat : BusAt(j) \in Nat /\ BusAt(j) = BusAt(0) + j
  BY <1>1, <1>2 DEF BusAt
<1>5. \A j \in Nat : DevAt(j) \in Nat /\ DevAt(j) = DevAt(0) + j
  BY <1>1, <1>3, AuroraAssumption DEF DevAt
<1> QED
  BY <1>3, <1>4, <1>5

(* A cell into the device changes one cell of the area, and no RAM.        *)
LEMMA ReadCellExact ==
  ASSUME DevInv, dpc = "copy", ReadCell, UNCHANGED cfg,
         NEW j \in 0 .. idx, j < idx => SameCell(j)
  PROVE  SameCell(j)'
<1> DEFINE o == DevAt(idx)
           v == BusCell(BusAt(idx))
<1>0. idx \in Nat /\ j \in Nat
  BY CfgNat DEF DevInv
<1>1. o \in Nat /\ DevAt(j) \in Nat /\ (DevAt(j) = o <=> j = idx)
  BY <1>0, EndsType
<1>2. BusAt(j)' = BusAt(j) /\ DevAt(j)' = DevAt(j)
  BY DEF BusAt, DevAt
<1>3. SetDevCell(o, v) /\ mem' = mem
  BY DEF ReadCell, BusAt, DevAt
<1>4. buff \in [0 .. AREA_SIZE - 1 -> Val] /\ AREA_SIZE \in Nat
  BY AuroraAssumption DEF DevInv, DevTypeOK, AuroraTypeOK
<1>5. ASSUME BusAt(j) \in Ram, DevAt(j) < AREA_SIZE
      PROVE  buff'[DevAt(j)] = mem[BusAt(j)]
  <2>1. CASE j = idx
    <3>1. v = mem[BusAt(j)]
      BY <1>5, <2>1 DEF BusCell
    <3> HIDE DEF o, v
    <3>2. buff' = [buff EXCEPT ![o] = v] /\ DevAt(j) = o
      BY <1>1, <1>3, <1>5, <2>1 DEF SetDevCell
    <3> QED
      BY <1>1, <1>4, <1>5, <3>1, <3>2
  <2>2. CASE j # idx
    <3>1. SameCell(j) /\ DevAt(j) # o
      BY <1>0, <1>1, <2>2
    <3> HIDE DEF o, v
    <3>2. buff'[DevAt(j)] = buff[DevAt(j)]
      BY <1>1, <1>3, <1>4, <1>5, <3>1 DEF SetDevCell
    <3> QED
      BY <1>5, <3>1, <3>2 DEF SameCell
  <2> QED
    BY <2>1, <2>2
<1> QED
  BY <1>2, <1>3, <1>5 DEF SameCell

(* A cell out of the device changes one cell of RAM, or none when it falls *)
(* on the device's own registers, and leaves the area alone.               *)
LEMMA WriteCellExact ==
  ASSUME DevInv, dpc = "copy", WriteCell, UNCHANGED cfg,
         NEW j \in 0 .. idx, j < idx => SameCell(j)
  PROVE  SameCell(j)'
<1> DEFINE a == BusAt(idx)
<1>0. idx \in Nat /\ j \in Nat
  BY CfgNat DEF DevInv
<1>1. a \in Nat /\ BusAt(j) \in Nat /\ (BusAt(j) = a <=> j = idx)
  BY <1>0, EndsType
<1>2. BusAt(j)' = BusAt(j) /\ DevAt(j)' = DevAt(j)
  BY DEF BusAt, DevAt
<1>3. PICK v \in DevCell(DevAt(idx)) : BusWrite(a, v)
  BY DEF WriteCell, BusAt, DevAt, TO_DEVICE, FROM_DEVICE
<1>4. buff' = buff /\ mem \in [Ram -> Val]
  BY DEF WriteCell, DevInv, DevTypeOK, AuroraTypeOK
<1>5. ASSUME BusAt(j) \in Ram, DevAt(j) < AREA_SIZE
      PROVE  buff[DevAt(j)] = mem'[BusAt(j)]
  <2>1. CASE j = idx
    <3>1. v = buff[DevAt(j)]
      BY <1>3, <1>5, <2>1 DEF DevCell
    <3>2. a \in Ram /\ a \notin DOMAIN SelfBar
      BY <1>5, <2>1, AuroraAssumption
    <3> HIDE DEF a
    <3>3. mem' = [mem EXCEPT ![a] = v]
      BY <1>3, <3>2 DEF BusWrite
    <3> QED
      BY <1>1, <1>4, <2>1, <3>1, <3>2, <3>3
  <2>2. CASE j # idx
    <3>1. SameCell(j) /\ BusAt(j) # a
      BY <1>0, <1>1, <2>2
    <3> HIDE DEF a
    <3>2. mem'[BusAt(j)] = mem[BusAt(j)]
      BY <1>3, <1>4, <1>5, <3>1 DEF BusWrite
    <3> QED
      BY <1>5, <3>1, <3>2 DEF SameCell
  <2> QED
    BY <2>1, <2>2
<1> QED
  BY <1>2, <1>4, <1>5 DEF SameCell

LEMMA CopyStepExact ==
  ASSUME DevInv, CopyIsExact, [DevNext]_devVars
  PROVE  CopyIsExact'
<1>0. CopyIsExact <=> (dpc = "copy" => \A j \in 0 .. idx - 1 : SameCell(j))
  BY DEF CopyIsExact, SameCell, BusAt, DevAt
<1>1. CopyIsExact' <=> (dpc' = "copy" => \A j \in 0 .. idx' - 1 : SameCell(j)')
  BY DEF CopyIsExact, SameCell, BusAt, DevAt
<1>2. CASE CopyCell
  <2>1. dpc = "copy" /\ idx' = idx + 1 /\ UNCHANGED cfg /\ idx \in Nat
    BY <1>2, CopyCellKeepsCfg, CfgNat DEF CopyCell, dmaVars, DevInv
  <2>2. ASSUME NEW j \in 0 .. idx PROVE SameCell(j)'
    <3>1. j < idx => SameCell(j)
      BY <1>0, <2>1
    <3> QED
      BY <1>2, <2>1, <3>1, ReadCellExact, WriteCellExact DEF CopyCell
  <2> QED
    BY <1>1, <2>1, <2>2
<1>3. CASE GuestSetsMode \/ GuestTakesMessage \/ UNCHANGED devVars
  BY <1>3 DEF GuestSetsMode, GuestTakesMessage, devVars, CopyIsExact
<1>4. CASE dpc' # "copy" \/ (dpc = "idle" /\ UNCHANGED idx)
  BY <1>1, <1>4 DEF DevInv, EngineStatus
<1> QED
  BY <1>2, <1>3, <1>4 DEF DevNext, GuestWrite, RaiseEnded, DoorbellEnd, MachineReset,
                          ResetDevice, aurora_backend_reset

(* Whatever the descriptor, and whatever the transfer does to the          *)
(* registers of the device that runs it: the cells whose two ends lie in   *)
(* RAM and in the DMA area have been copied cell for cell (dma.c:42-82).   *)
THEOREM CopyExact == DevSpec => []CopyIsExact
<1>1. DevInit => CopyIsExact
  BY DEF DevInit, AuroraInit, CopyIsExact
<1>2. DevInv /\ CopyIsExact /\ [DevNext]_devVars => CopyIsExact'
  BY CopyStepExact
<1> QED
  BY <1>1, <1>2, DevInvHolds, PTL DEF DevSpec
=============================================================================
