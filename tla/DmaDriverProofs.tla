--------------------------- MODULE DmaDriverProofs ---------------------------
(***************************************************************************)
(* The driver over the device, for any number of threads and pages.        *)
(***************************************************************************)
EXTENDS DmaDriver, AuroraProofs, Foundations

LEMMA InitIndInv == Init => IndInv
<1> SUFFICES ASSUME Init PROVE IndInv
  OBVIOUS
<1> USE DEF Init
<1>1. IrqTypeOK
  BY IrqAssumption DEF IrqInit, IrqTypeOK, Vectors
<1>2. AuroraTypeOK
  BY AuroraAssumption DEF AuroraInit, AuroraTypeOK, ZeroCfg, ZeroBuff
<1>3. TypeOK
  BY <1>1, <1>2, DriverAssumption
     DEF TypeOK, DevTypeOK, DriverInit, PCs, TO_DEVICE, FROM_DEVICE
<1>4. MsixMode /\ EngineStatus
  BY DEF AuroraInit, MsixMode, EngineStatus
<1>5. MutexOwned
  BY DEF DriverInit, MutexOwned, Critical
<1>6. HolderInv /\ FreeInv
  BY DEF IrqInit, AuroraInit, DriverInit, HolderInv, FreeInv, Quiet
<1> QED
  BY <1>3, <1>4, <1>5, <1>6 DEF IndInv

-----------------------------------------------------------------------------
(* Types.                                                                  *)

LEMMA GuestWriteType ==
  ASSUME DevTypeOK, NEW reg, NEW value \in Val, GuestWrite(reg, value)
  PROVE  DevTypeOK'
BY WriteRegType DEF GuestWrite, DevTypeOK, AuroraTypeOK

LEMMA DeviceType ==
  ASSUME DevInv, DoorbellStep
  PROVE  DevTypeOK'
BY DevTypeStep DEF DoorbellStep, DevNext

LEMMA DevTypeKept ==
  ASSUME DevTypeOK, UNCHANGED devVars
  PROVE  DevTypeOK'
BY DEF DevTypeOK, IrqTypeOK, AuroraTypeOK, devVars, irqVars, pciVars

LEMMA TypeStep ==
  ASSUME TypeOK, EngineStatus, [Next]_vars
  PROVE  TypeOK'
<1> USE DEF TypeOK
<1>0. DevInv
  BY DEF DevInv
<1>1. ASSUME NEW t \in Threads, NEW d \in {TO_DEVICE, FROM_DEVICE}, NEW p \in Pages,
             PinPage(t, d, p)
      PROVE  TypeOK'
  BY <1>1, DevTypeKept DEF PinPage, Goto, PCs, kernelVars
<1>2. ASSUME NEW t \in Threads, PinFails(t)
      PROVE  TypeOK'
  BY <1>2, DevTypeKept DEF PinFails, threadVars
<1>3. ASSUME NEW t \in Threads, CallDma(t)
      PROVE  TypeOK'
  BY <1>3, DevTypeKept DEF CallDma, Goto, PCs, kernelVars
<1>4. ASSUME NEW t \in Threads, Lock(t)
      PROVE  TypeOK'
  BY <1>4, DevTypeKept DEF Lock, Goto, PCs, kernelVars
<1>5. ASSUME NEW t \in Threads, MapPage(t)
      PROVE  TypeOK'
  <2>1. DevTypeOK'
    BY <1>5, DriverAssumption
       DEF MapPage, dma_map_page, DevTypeOK, IrqTypeOK, AuroraTypeOK, irqVars, pciVars
  <2> QED
    BY <1>5, <2>1 DEF MapPage, dma_map_page, Goto, PCs
<1>6. ASSUME NEW t \in Threads, MapFails(t)
      PROVE  TypeOK'
  BY <1>6, DevTypeKept DEF MapFails, Goto, PCs
<1>7. ASSUME NEW t \in Threads, NEW from, NEW to \in PCs, NEW reg, NEW value \in Val,
             WriteReg(t, from, reg, value, to)
      PROVE  TypeOK'
  BY <1>7, GuestWriteType DEF WriteReg, Goto, kernelVars
<1>8. ASSUME NEW t \in Threads,
             WriteSrc(t) \/ WriteDst(t) \/ WriteLen(t) \/ WriteCmd(t) \/ RingDoorbell(t)
      PROVE  TypeOK'
  <2>1. AREA_START \in Val /\ dma.handle \in Val /\ 1 \in Val /\ dir[t] \in Val
    BY AuroraAssumption, DriverAssumption DEF TO_DEVICE, FROM_DEVICE, DMA_MAPPING_ERROR
  <2>2. {"dst", "len", "cmd", "bell", "wait"} \subseteq PCs
    BY DEF PCs
  <2> QED
    BY <1>7, <1>8, <2>1, <2>2 DEF WriteSrc, WriteDst, WriteLen, WriteCmd, RingDoorbell
<1>9. ASSUME NEW t \in Threads, WaitForCompletion(t) \/ Unlock(t)
      PROVE  TypeOK'
  BY <1>9, DevTypeKept DEF WaitForCompletion, Unlock, Goto, PCs, kernelVars
<1>10. CASE IrqEnter
  <2>1. DevTypeOK'
    BY <1>10 DEF IrqEnter, TakeMessage, DevTypeOK, IrqTypeOK, AuroraTypeOK, pciVars
  <2> QED
    BY <1>10, <2>1 DEF IrqEnter, HandlerGoto, threadVars, kernelVars
<1>11. CASE UnmapPage
  <2>1. user' \in [Pages -> Val]
    BY <1>11, DriverAssumption DEF UnmapPage, DevTypeOK, AuroraTypeOK
  <2> QED
    BY <1>11, <2>1, DevTypeKept DEF UnmapPage, HandlerGoto, threadVars
<1>12. CASE PutPage
  BY <1>12, DevTypeKept DEF PutPage, HandlerGoto, threadVars
<1>13. CASE AckIrq
  <2>1. DevTypeOK'
    BY <1>13, GuestWriteType, AuroraAssumption DEF AckIrq
  <2> QED
    BY <1>13, <2>1 DEF AckIrq, HandlerGoto, threadVars, kernelVars
<1>14. CASE CompleteAll
  BY <1>14, DevTypeKept DEF CompleteAll, HandlerGoto, threadVars, kernelVars
<1>15. CASE DeviceWorks
  BY <1>0, <1>15, DeviceType DEF DeviceWorks, drvVars, threadVars, kernelVars
<1>16. CASE MmapWrite
  <2>1. PICK r \in Regs : \E v \in Inputs[r] : GuestWrite(r, v)
    BY <1>16 DEF MmapWrite
  <2>2. DevTypeOK'
    BY <2>1, GuestWriteType, AuroraAssumption DEF BarRegs
  <2> QED
    BY <1>16, <2>2 DEF MmapWrite, drvVars, threadVars, kernelVars
<1>17. CASE Reboot
  <2>1. ZeroCfg \in [CfgRegs -> Val] /\ ZeroBuff \in [0 .. AREA_SIZE - 1 -> Val]
    BY AuroraAssumption DEF ZeroCfg, ZeroBuff
  <2>2. IrqTypeOK'
    BY <1>17 DEF Reboot, ResetDevice, pciemu_irq_reset, DevTypeOK, IrqTypeOK, pciVars
  <2>3. AuroraTypeOK'
    BY <1>17, <2>1 DEF Reboot, ResetDevice, aurora_backend_reset, DevTypeOK, AuroraTypeOK
  <2> QED
    BY <1>17, <2>2, <2>3, DriverAssumption DEF Reboot, DevTypeOK, PCs
<1>18. CASE UNCHANGED vars
  BY <1>18, DevTypeKept DEF vars, drvVars, threadVars, kernelVars
<1> QED
  BY <1>1, <1>2, <1>3, <1>4, <1>5, <1>6, <1>8, <1>9, <1>10, <1>11, <1>12, <1>13,
     <1>14, <1>15, <1>16, <1>17, <1>18 DEF Next, Ioctl, ThreadStep, HandlerStep

-----------------------------------------------------------------------------
(* The mutex holder.                                                       *)

LEMMA OneHolder ==
  ASSUME NEW t, NEW u, mtx = {t}, mtx = {u}
  PROVE  t = u
OBVIOUS

(* While anything of a transfer is under way, its caller waits for it.     *)
LEMMA WaitingHolder ==
  ASSUME IndInv, ~Quiet
  PROVE  \E t \in Threads : mtx = {t} /\ pc[t] = "wait"
<1>1. PICK t \in Threads : mtx = {t}
  BY DEF IndInv, FreeInv
<1>2. pc[t] \in Critical /\ Phase(t)
  BY <1>1 DEF IndInv, MutexOwned, HolderInv
<1> QED
  BY <1>1, <1>2 DEF Phase, Completed, Critical, Programming, PCs

(* A step that concerns neither the mutex holder nor the transfer.         *)
LEMMA OutsideStep ==
  ASSUME IndInv, TypeOK', MutexOwned',
         UNCHANGED <<pciVars, irr, status, cfg, dpc, idx, buff, mem>>,
         UNCHANGED <<mtx, hpc, user, mapped>>,
         \A t \in Threads : mtx = {t} =>
           pc'[t] = pc[t] /\ dir'[t] = dir[t] /\ page'[t] = page[t],
         dma'.handle = dma.handle, dma'.direction = dma.direction,
         dma'.completion = dma.completion
  PROVE  IndInv'
<1> USE DEF IndInv
<1>1. MsixMode' /\ EngineStatus'
  BY DEF MsixMode, EngineStatus, Accepted, pciVars
<1>3. Quiet' = Quiet /\ Completed' = Completed /\ Copied' = Copied
  BY DEF Quiet, Completed, Copied
<1>4. ASSUME NEW t \in Threads, mtx' = {t}
      PROVE  (Programmed(t) /\ Described(t) /\ Phase(t) /\ MappedPages(t) /\ DataMoves(t))'
  <2>1. pc'[t] = pc[t] /\ dir'[t] = dir[t] /\ page'[t] = page[t]
    BY <1>4
  <2>2. Programmed(t) /\ Described(t) /\ Phase(t) /\ MappedPages(t) /\ DataMoves(t)
    BY <1>4 DEF HolderInv
  <2>3. Programmed(t)' /\ Described(t)'
    BY <2>1, <2>2 DEF Programmed, Described, Src, Dst
  <2>4. Phase(t)'
    BY <1>3, <2>1, <2>2 DEF Phase, Copying, Raised, Handling
  <2>5. MappedPages(t)'
    BY <1>3, <2>1, <2>2 DEF MappedPages
  <2>6. DataMoves(t)'
    BY <1>3, <2>1, <2>2 DEF DataMoves
  <2> QED
    BY <2>3, <2>4, <2>5, <2>6
<1>5. FreeInv'
  BY <1>3 DEF FreeInv
<1> QED
  BY <1>1, <1>4, <1>5 DEF HolderInv

LEMMA IoctlStep ==
  ASSUME IndInv, TypeOK', NEW u \in Threads, NEW d, NEW p, Ioctl(u, d, p) \/ CallDma(u)
  PROVE  IndInv'
<1>1. pc[u] \notin Critical /\ pc'[u] \notin Critical
  BY DEF Ioctl, PinPage, PinFails, CallDma, Goto, threadVars, IndInv, TypeOK, Critical, PCs
<1>2. \A t \in Threads \ {u} : pc'[t] = pc[t] /\ dir'[t] = dir[t] /\ page'[t] = page[t]
  BY DEF Ioctl, PinPage, PinFails, CallDma, Goto, threadVars, IndInv, TypeOK
<1>3. /\ dma'.handle = dma.handle /\ dma'.direction = dma.direction
      /\ dma'.completion = dma.completion
  BY DEF Ioctl, PinPage, PinFails, CallDma, IndInv, TypeOK
<1>4. UNCHANGED <<devVars, mtx, hpc, user, mapped>>
  BY DEF Ioctl, PinPage, PinFails, CallDma, kernelVars
<1>5. MutexOwned'
  BY <1>1, <1>2, <1>4 DEF IndInv, MutexOwned
<1>6. \A t \in Threads : mtx = {t} => t # u
  BY <1>1 DEF IndInv, MutexOwned
<1> QED
  BY <1>2, <1>3, <1>4, <1>5, <1>6, OutsideStep DEF devVars, irqVars

(* A store to a general-purpose register. *)
LEMMA StoreStep ==
  ASSUME IndInv, TypeOK', NEW r \in Regs, NEW v, GuestWrite(r, v), UNCHANGED drvVars
  PROVE  IndInv'
<1>1. UNCHANGED <<irqVars, dmaVars, pciVars, buff, idx, mem>>
  BY DEF GuestWrite, aurora_write_reg_by_addr, Regs, CfgRegs
<1>2. UNCHANGED <<pc, dir, page, dma, mtx, hpc, user, mapped>>
  BY DEF drvVars, threadVars, kernelVars
<1>3. MutexOwned'
  BY <1>2 DEF IndInv, MutexOwned
<1> QED
  BY <1>1, <1>2, <1>3, OutsideStep DEF irqVars, dmaVars

LEMMA MmapStep ==
  ASSUME IndInv, TypeOK', MmapWrite
  PROVE  IndInv'
BY StoreStep DEF MmapWrite

LEMMA StutterStep ==
  ASSUME IndInv, TypeOK', UNCHANGED vars
  PROVE  IndInv'
<1>1. MutexOwned'
  BY DEF IndInv, MutexOwned, vars, drvVars, threadVars
<1> QED
  BY <1>1, OutsideStep DEF vars, devVars, irqVars, drvVars, threadVars, kernelVars

(* A step that leaves t with the mutex has only to be good for t.          *)
LEMMA HolderStep ==
  ASSUME TypeOK', MsixMode', EngineStatus', NEW t \in Threads,
         mtx' = {t}, pc'[t] \in Critical,
         \A u \in Threads \ {t} : pc'[u] \notin Critical,
         (Programmed(t) /\ Described(t) /\ Phase(t) /\ MappedPages(t) /\ DataMoves(t))'
  PROVE  IndInv'
<1>1. MutexOwned'
  BY DEF MutexOwned
<1>2. HolderInv'
  BY DEF HolderInv
<1>3. FreeInv'
  BY DEF FreeInv
<1> QED
  BY <1>1, <1>2, <1>3 DEF IndInv

(* A step that leaves nobody with the mutex has to leave nothing behind.   *)
LEMMA ReleaseStep ==
  ASSUME TypeOK', MsixMode', EngineStatus', mtx' = {},
         \A u \in Threads : pc'[u] \notin Critical,
         Quiet', mapped' = {}
  PROVE  IndInv'
BY DEF IndInv, MutexOwned, HolderInv, FreeInv

LEMMA DeviceKept ==
  ASSUME IndInv, UNCHANGED <<pciVars, status, cfg, dpc, idx>>
  PROVE  MsixMode' /\ EngineStatus'
BY DEF IndInv, MsixMode, EngineStatus, Accepted, pciVars

LEMMA LockStep ==
  ASSUME IndInv, TypeOK', NEW t \in Threads, Lock(t)
  PROVE  IndInv'
<1>1. Quiet /\ mapped = {}
  BY DEF IndInv, FreeInv, Lock
<1>2. \A u \in Threads : pc[u] \notin Critical
  BY DEF IndInv, MutexOwned, Lock
<1>3. MsixMode' /\ EngineStatus'
  BY DeviceKept DEF Lock, devVars
<1>4. pc'[t] = "map" /\ mtx' = {t} /\ \A u \in Threads \ {t} : pc'[u] = pc[u]
  BY DEF Lock, Goto, IndInv, TypeOK
<1>5. Quiet' /\ mapped' = {}
  BY <1>1 DEF Quiet, Lock, devVars, irqVars, kernelVars
<1>6. Programmed(t)' /\ MappedPages(t)' /\ DataMoves(t)' /\ Phase(t)'
  BY <1>4, <1>5 DEF Programmed, MappedPages, DataMoves, Phase, Programming, Quiet
<1>7. dma'.direction = dir'[t] /\ dma'.completion = FALSE
  BY DEF Lock, IndInv, TypeOK
<1>8. Described(t)'
  BY <1>4, <1>7 DEF Described, Programming
<1> QED
  BY <1>2, <1>3, <1>4, <1>6, <1>8, HolderStep DEF Critical, PCs

(* What a thread inside the critical section may rely on. *)
LEMMA HolderFacts ==
  ASSUME IndInv, NEW t \in Threads, pc[t] \in Critical
  PROVE  /\ mtx = {t}
         /\ \A u \in Threads \ {t} : pc[u] \notin Critical
         /\ Programmed(t) /\ Described(t) /\ Phase(t) /\ MappedPages(t) /\ DataMoves(t)
<1>1. mtx = {t}
  BY DEF IndInv, MutexOwned
<1>2. ASSUME NEW u \in Threads \ {t}
      PROVE  pc[u] \notin Critical
  BY <1>1 DEF IndInv, MutexOwned
<1> QED
  BY <1>1, <1>2 DEF IndInv, HolderInv

LEMMA MapStep ==
  ASSUME IndInv, TypeOK', NEW t \in Threads, MapPage(t)
  PROVE  IndInv'
<1>1. pc[t] = "map" /\ pc[t] \in Critical
  BY DEF MapPage, Goto, Critical, PCs
<1>2. Quiet /\ mapped = {} /\ dma.direction = dir[t] /\ ~dma.completion
  BY <1>1, HolderFacts DEF Phase, MappedPages, Described, Programming
<1>3. pc'[t] = "src" /\ mtx' = mtx /\ \A u \in Threads \ {t} : pc'[u] = pc[u]
  BY DEF MapPage, Goto, IndInv, TypeOK
<1>4. MsixMode' /\ EngineStatus'
  BY DeviceKept DEF MapPage
<1>5. Quiet' /\ Programmed(t)' /\ Phase(t)'
  BY <1>2, <1>3 DEF Quiet, Programmed, Phase, MapPage, irqVars, Programming
<1>6. /\ dma'.handle = page[t] /\ dma'.direction = dma.direction
      /\ dma'.completion = dma.completion
  BY DEF MapPage, IndInv, TypeOK
<1>7. Described(t)'
  BY <1>2, <1>3, <1>6 DEF Described, MapPage
<1>8. MappedPages(t)'
  BY <1>2, <1>3 DEF MappedPages, MapPage, dma_map_page, Programming
<1>9. page[t] \in Ram /\ page[t] \in Pages
  BY DriverAssumption DEF IndInv, TypeOK
<1>10. DataMoves(t)'
  BY <1>2, <1>3, <1>9
     DEF DataMoves, MapPage, dma_map_page, IndInv, TypeOK, DevTypeOK, AuroraTypeOK
<1> QED
  BY <1>1, <1>3, <1>4, <1>5, <1>7, <1>8, <1>10, HolderFacts, HolderStep DEF Critical, PCs

LEMMA MapFailsStep ==
  ASSUME IndInv, TypeOK', NEW t \in Threads, MapFails(t)
  PROVE  IndInv'
<1>1. pc[t] = "map" /\ pc[t] \in Critical
  BY DEF MapFails, Goto, Critical, PCs
<1>2. Quiet /\ mapped = {} /\ mtx = {t}
  BY <1>1, HolderFacts DEF Phase, MappedPages, Programming
<1>3. pc'[t] = "idle" /\ mtx' = {} /\ \A u \in Threads \ {t} : pc'[u] = pc[u]
  BY <1>2 DEF MapFails, Goto, IndInv, TypeOK
<1>4. MsixMode' /\ EngineStatus'
  BY DeviceKept DEF MapFails, devVars
<1>5. Quiet' /\ mapped' = {}
  BY <1>2 DEF Quiet, MapFails, devVars, irqVars
<1> QED
  BY <1>1, <1>3, <1>4, <1>5, HolderFacts, ReleaseStep DEF Critical, PCs

-----------------------------------------------------------------------------
(* Programming the device.                                                 *)

(* A configuration register is written by the holder while nothing moves.  *)
LEMMA CfgWrite ==
  ASSUME IndInv, NEW t \in Threads, NEW reg \in CfgRegs, NEW value,
         NEW from \in Programming, NEW to \in Programming,
         WriteReg(t, from, reg, value, to)
  PROVE  /\ pc[t] = from /\ pc[t] \in Critical
         /\ pc'[t] = to /\ \A u \in Threads \ {t} : pc'[u] = pc[u]
         /\ cfg' = [cfg EXCEPT ![reg] = value]
         /\ UNCHANGED <<pciVars, irqVars, status, dpc, idx, buff, mem>>
         /\ UNCHANGED <<dir, page, dma, mtx, hpc, user, mapped>>
<1>1. dpc = "idle" /\ status = "IDLE"
  BY DEF WriteReg, GuestWrite, IndInv, EngineStatus, TypeOK, DevTypeOK, AuroraTypeOK
<1>2. aurora_dma_config(reg, value) /\ UNCHANGED <<irqVars, regs, status, dpc>>
  BY DEF WriteReg, GuestWrite, aurora_write_reg_by_addr, CfgRegs, Regs
<1>3. pc[t] = from /\ pc'[t] = to /\ \A u \in Threads \ {t} : pc'[u] = pc[u]
  BY DEF WriteReg, Goto, IndInv, TypeOK
<1>4. from \in Critical
  BY DEF Programming, Critical, PCs
<1> QED
  BY <1>1, <1>2, <1>3, <1>4 DEF WriteReg, GuestWrite, aurora_dma_config, kernelVars

(* All of the invariant but the registers survives such a write.           *)
LEMMA ProgramStep ==
  ASSUME IndInv, TypeOK', NEW t \in Threads, NEW reg \in CfgRegs, NEW value,
         NEW from \in Programming, NEW to \in Programming,
         WriteReg(t, from, reg, value, to),
         Programmed(t)'
  PROVE  IndInv'
<1>1. /\ pc[t] = from /\ pc[t] \in Critical
      /\ pc'[t] = to /\ \A u \in Threads \ {t} : pc'[u] = pc[u]
      /\ UNCHANGED <<pciVars, irqVars, status, dpc, idx, buff, mem>>
      /\ UNCHANGED <<dir, page, dma, mtx, hpc, user, mapped>>
  BY CfgWrite
<1>2. to \in Critical /\ from # "map" /\ from # "wait" /\ from # "unlock"
      /\ to # "map" /\ to # "wait" /\ to # "unlock"
  BY DEF Programming, Critical, PCs
<1>3. Quiet /\ mapped = {page[t]} /\ dma.direction = dir[t] /\ dma.handle = page[t]
      /\ ~dma.completion
  BY <1>1, <1>2, HolderFacts DEF Phase, MappedPages, Described, Programming
<1>4. Quiet' /\ mapped' = {page'[t]}
  BY <1>1, <1>3 DEF Quiet, irqVars
<1>5. MsixMode' /\ EngineStatus'
  BY <1>1, <1>3, <1>4 DEF IndInv, MsixMode, EngineStatus, Quiet, pciVars
<1>6. Described(t)' /\ MappedPages(t)'
  BY <1>1, <1>2, <1>3, <1>4 DEF Described, MappedPages
<1>7. Phase(t)'
  BY <1>1, <1>2, <1>4 DEF Phase, Quiet
<1>8. DataMoves(t)'
  BY <1>1, <1>2, HolderFacts DEF DataMoves
<1> QED
  BY <1>1, <1>2, <1>5, <1>6, <1>7, <1>8, HolderFacts, HolderStep

LEMMA WriteSteps ==
  ASSUME IndInv, TypeOK', NEW t \in Threads,
         WriteSrc(t) \/ WriteDst(t) \/ WriteLen(t) \/ WriteCmd(t)
  PROVE  IndInv'
<1> USE DEF Programming, CfgRegs
<1>0. cfg \in [CfgRegs -> Val]
  BY DEF IndInv, TypeOK, DevTypeOK, AuroraTypeOK
<1>1. CASE WriteSrc(t)
  <2> DEFINE v == IF dir[t] = TO_DEVICE THEN dma.handle ELSE AREA_START
  <2>1. WriteReg(t, "src", "src", v, "dst")
    BY <1>1 DEF WriteSrc
  <2>2. v = Src(t)
    BY <2>1, CfgWrite, HolderFacts DEF Described, Src
  <2> HIDE DEF v
  <2>3. Programmed(t)'
    BY <1>0, <2>1, <2>2, CfgWrite DEF Programmed, Src
  <2> QED
    BY <2>1, <2>3, ProgramStep
<1>2. CASE WriteDst(t)
  <2> DEFINE v == IF dir[t] = TO_DEVICE THEN AREA_START ELSE dma.handle
  <2>1. WriteReg(t, "dst", "dst", v, "len")
    BY <1>2 DEF WriteDst
  <2>2. v = Dst(t) /\ cfg.src = Src(t)
    BY <2>1, CfgWrite, HolderFacts DEF Described, Programmed, Dst
  <2> HIDE DEF v
  <2>3. Programmed(t)'
    BY <1>0, <2>1, <2>2, CfgWrite DEF Programmed, Src, Dst
  <2> QED
    BY <2>1, <2>3, ProgramStep
<1>3. CASE WriteLen(t)
  <2>1. WriteReg(t, "len", "len", 1, "cmd")
    BY <1>3 DEF WriteLen
  <2>2. cfg.src = Src(t) /\ cfg.dst = Dst(t)
    BY <2>1, CfgWrite, HolderFacts DEF Programmed
  <2>3. Programmed(t)'
    BY <1>0, <2>1, <2>2, CfgWrite DEF Programmed, Src, Dst
  <2> QED
    BY <2>1, <2>3, ProgramStep
<1>4. CASE WriteCmd(t)
  <2>1. WriteReg(t, "cmd", "cmd", dir[t], "bell")
    BY <1>4 DEF WriteCmd
  <2>2. cfg.src = Src(t) /\ cfg.dst = Dst(t) /\ cfg.len = 1
    BY <2>1, CfgWrite, HolderFacts DEF Programmed
  <2>3. Programmed(t)'
    BY <1>0, <2>1, <2>2, CfgWrite DEF Programmed, Src, Dst
  <2> QED
    BY <2>1, <2>3, ProgramStep
<1> QED
  BY <1>1, <1>2, <1>3, <1>4

(* The engine accepts what the driver programs. *)
LEMMA DriverDescriptorAccepted ==
  ASSUME IndInv, NEW t \in Threads,
         cfg.src = Src(t), cfg.dst = Dst(t), cfg.cmd = dir[t]
  PROVE  Accepted
<1>1. AREA_START <= AREA_START /\ AREA_START <= AREA_START + AREA_SIZE
  BY AuroraAssumption
<1>2. dir[t] = TO_DEVICE \/ (dir[t] = FROM_DEVICE /\ dir[t] # TO_DEVICE)
  BY DEF IndInv, TypeOK, TO_DEVICE, FROM_DEVICE
<1> QED
  BY <1>1, <1>2 DEF Accepted, aurora_dma_inside_device_boundaries, Src, Dst

LEMMA RingStep ==
  ASSUME IndInv, TypeOK', NEW t \in Threads, RingDoorbell(t)
  PROVE  IndInv'
<1>0. pc[t] = "bell" /\ pc[t] \in Critical
  BY DEF RingDoorbell, WriteReg, Goto, Critical, PCs
<1>1. /\ Programmed(t) /\ Described(t) /\ Quiet /\ mapped = {page[t]}
      /\ mtx = {t} /\ DataMoves(t)
  BY <1>0, HolderFacts DEF Phase, MappedPages, Programming
<1>2. status # "EXECUTING" /\ idx = 0
  BY <1>1 DEF Quiet, IndInv, EngineStatus
<1>3. Accepted
  BY <1>0, <1>1, DriverDescriptorAccepted DEF Programmed
<1>4. aurora_dma_doorbell_ring /\ UNCHANGED <<irqVars, regs, cfg>>
  BY DEF RingDoorbell, WriteReg, GuestWrite, aurora_write_reg_by_addr, CfgRegs, Regs
<1>5. /\ status' = "EXECUTING" /\ dpc' = "copy"
      /\ UNCHANGED <<pciVars, irqVars, cfg, idx, buff, mem>>
      /\ UNCHANGED <<dir, page, dma, mtx, hpc, user, mapped>>
  BY <1>2, <1>3, <1>4
     DEF aurora_dma_doorbell_ring, RingDoorbell, WriteReg, GuestWrite, kernelVars
<1>6. pc'[t] = "wait" /\ \A u \in Threads \ {t} : pc'[u] = pc[u]
  BY DEF RingDoorbell, WriteReg, Goto, IndInv, TypeOK
<1>7. EngineStatus' /\ MsixMode'
  <2>1. Accepted'
    BY <1>3, <1>5 DEF Accepted
  <2>2. cfg'.len = 1
    BY <1>0, <1>1, <1>5 DEF Programmed
  <2> QED
    BY <1>2, <1>5, <2>1, <2>2 DEF EngineStatus, MsixMode, IndInv, pciVars
<1>8. Programmed(t)' /\ Described(t)'
  BY <1>0, <1>1, <1>5, <1>6 DEF Programmed, Described, Src, Dst, Programming
<1>9. Copying'
  BY <1>0, <1>1, <1>5 DEF Copying, Quiet, Described, Programming, irqVars
<1>10. Phase(t)'
  BY <1>1, <1>5, <1>6, <1>9 DEF Phase, Programming, Quiet
<1>11. MappedPages(t)'
  BY <1>1, <1>5, <1>6, <1>9 DEF MappedPages, Completed, Quiet, Copying
<1>12. DataMoves(t)'
  BY <1>0, <1>1, <1>2, <1>5, <1>6 DEF DataMoves, Copied, Programming
<1> QED
  BY <1>0, <1>1, <1>5, <1>6, <1>7, <1>8, <1>10, <1>11, <1>12, HolderFacts, HolderStep
     DEF Critical, PCs

-----------------------------------------------------------------------------
(* The device at work.                                                     *)

(* A step of the device or of the handler leaves the waiting thread where  *)
(* it is: only the phase of the transfer and the data can change.          *)
LEMMA TransferStep ==
  ASSUME IndInv, TypeOK', NEW t \in Threads, mtx = {t}, pc[t] = "wait",
         UNCHANGED <<pciVars, cfg, pc, dir, page, mtx>>,
         dma'.handle = dma.handle, dma'.direction = dma.direction,
         EngineStatus',
         (Copying \/ Raised \/ Handling \/ Completed)',
         hpc' = "complete" => dpc' = "idle",
         MappedPages(t)', DataMoves(t)'
  PROVE  IndInv'
<1>1. pc[t] \in Critical /\ pc'[t] = "wait"
  BY DEF Critical, PCs
<1>2. Programmed(t)'
  BY <1>1, HolderFacts DEF Programmed, Src, Dst
<1>3. Described(t)'
  BY <1>1, HolderFacts DEF Described, Programming
<1>4. Phase(t)'
  BY <1>1 DEF Phase, Programming
<1>5. MsixMode'
  BY DEF IndInv, MsixMode, pciVars
<1> QED
  BY <1>1, <1>2, <1>3, <1>4, <1>5, HolderFacts, HolderStep

(* What one cell of the driver's transfer does. *)
LEMMA CopyEffect ==
  ASSUME IndInv, CopyCell
  PROVE  \E t \in Threads :
           /\ mtx = {t} /\ pc[t] = "wait" /\ Copying /\ mapped = {page[t]}
           /\ idx = 0 /\ idx' = 1
           /\ UNCHANGED <<pciVars, irqVars, dmaVars, regs>>
           /\ dir[t] = TO_DEVICE =>
                /\ buff' = [buff EXCEPT ![0] = mem[page[t]]] /\ UNCHANGED mem
           /\ dir[t] = FROM_DEVICE =>
                /\ mem' = [mem EXCEPT ![page[t]] = buff[0]] /\ UNCHANGED buff
<1>1. dpc = "copy"
  BY DEF CopyCell
<1>2. PICK t \in Threads : mtx = {t} /\ pc[t] = "wait"
  BY <1>1, WaitingHolder DEF Quiet
<1>3. pc[t] \in Critical
  BY <1>2 DEF Critical, PCs
<1>4. /\ cfg.src = Src(t) /\ cfg.dst = Dst(t) /\ cfg.len = 1 /\ cfg.cmd = dir[t]
      /\ Copying /\ mapped = {page[t]}
  BY <1>1, <1>2, <1>3, HolderFacts
     DEF Programmed, Phase, MappedPages, Copying, Raised, Handling, Completed, Quiet
<1>5. idx \in Nat /\ idx < 1 /\ idx' = idx + 1
  BY <1>4 DEF CopyCell, IndInv, TypeOK, DevTypeOK, AuroraTypeOK
<1>6. idx = 0 /\ idx' = 1
  BY <1>5
<1>7. /\ page[t] \in Ram /\ page[t] \in Nat /\ page[t] \notin DOMAIN SelfBar
      /\ aurora_dma_addr_mask(page[t]) + idx = page[t]
  <2>1. page[t] \in Pages
    BY DEF IndInv, TypeOK
  <2>2. aurora_dma_addr_mask(page[t]) = page[t] /\ page[t] \in Ram /\ page[t] \in Nat
    BY <2>1, DriverAssumption, AuroraAssumption
  <2> QED
    BY <1>6, <2>2, AuroraAssumption
<1>8. AREA_START - AREA_START + idx = 0 /\ 0 < AREA_SIZE
  BY <1>6, AuroraAssumption
<1>9. CASE dir[t] = TO_DEVICE
  <2>1. ReadCell
    BY <1>4, <1>9 DEF CopyCell, WriteCell, TO_DEVICE, FROM_DEVICE
  <2>2. SetDevCell(0, mem[page[t]]) /\ UNCHANGED <<irqVars, dmaVars, mem>>
    BY <1>4, <1>7, <1>8, <1>9, <2>1 DEF ReadCell, BusCell, Src, Dst
  <2>3. buff' = [buff EXCEPT ![0] = mem[page[t]]] /\ UNCHANGED regs
    BY <1>8, <2>2, AuroraAssumption DEF SetDevCell
  <2>4. dir[t] # FROM_DEVICE
    BY <1>9 DEF TO_DEVICE, FROM_DEVICE
  <2> QED
    BY <1>2, <1>4, <1>6, <2>2, <2>3, <2>4 DEF CopyCell
<1>10. CASE dir[t] = FROM_DEVICE
  <2>0. dir[t] # TO_DEVICE
    BY <1>10 DEF TO_DEVICE, FROM_DEVICE
  <2>1. WriteCell
    BY <1>4, <1>10 DEF CopyCell, ReadCell, TO_DEVICE, FROM_DEVICE
  <2>2. DevCell(cfg.src - AREA_START + idx) = {buff[0]}
    BY <1>4, <1>8, <2>0 DEF DevCell, Src
  <2>3. BusWrite(page[t], buff[0]) /\ UNCHANGED buff
    BY <1>4, <1>7, <2>0, <2>1, <2>2 DEF WriteCell, Dst
  <2>4. mem' = [mem EXCEPT ![page[t]] = buff[0]] /\ UNCHANGED <<irqVars, regs, dmaVars>>
    BY <1>7, <2>3 DEF BusWrite
  <2> QED
    BY <1>2, <1>4, <1>6, <2>0, <2>3, <2>4 DEF CopyCell
<1> QED
  BY <1>9, <1>10 DEF IndInv, TypeOK

LEMMA CopyStep ==
  ASSUME IndInv, TypeOK', CopyCell, UNCHANGED drvVars
  PROVE  IndInv'
<1>1. PICK t \in Threads :
           /\ mtx = {t} /\ pc[t] = "wait" /\ Copying /\ mapped = {page[t]}
           /\ idx = 0 /\ idx' = 1
           /\ UNCHANGED <<pciVars, irqVars, dmaVars, regs>>
           /\ dir[t] = TO_DEVICE =>
                /\ buff' = [buff EXCEPT ![0] = mem[page[t]]] /\ UNCHANGED mem
           /\ dir[t] = FROM_DEVICE =>
                /\ mem' = [mem EXCEPT ![page[t]] = buff[0]] /\ UNCHANGED buff
  BY CopyEffect
<1>2. UNCHANGED <<pc, dir, page, dma, mtx, hpc, user, mapped>>
  BY DEF drvVars, threadVars, kernelVars
<1>3. Copying' /\ cfg'.len = 1
  <2>1. cfg.len = 1
    BY <1>1, HolderFacts DEF Programmed, Critical, PCs
  <2> QED
    BY <1>1, <1>2, <2>1 DEF Copying, dmaVars, irqVars
<1>4. EngineStatus'
  <2>1. Accepted' = Accepted
    BY <1>1 DEF Accepted, dmaVars
  <2> QED
    BY <1>1, <1>3, <2>1 DEF EngineStatus, IndInv, dmaVars, Copying
<1>5. MappedPages(t)'
  BY <1>1, <1>2, <1>3 DEF MappedPages, Copying, Completed, Quiet
<1>6. DataMoves(t)'
  <2>1. page[t] \in Pages
    BY DEF IndInv, TypeOK
  <2>2. page[t] \in Ram
    BY <2>1, DriverAssumption
  <2>3. 0 \in 0 .. AREA_SIZE - 1
    BY AuroraAssumption
  <2>4. dir[t] = FROM_DEVICE => mem'[page[t]] = buff'[0]
    BY <1>1, <2>2, <2>3 DEF IndInv, TypeOK, DevTypeOK, AuroraTypeOK
  <2> QED
    BY <1>1, <1>2, <2>4 DEF DataMoves, Copied, Programming
<1> QED
  BY <1>1, <1>2, <1>3, <1>4, <1>5, <1>6, TransferStep DEF Copying, dmaVars

LEMMA RaiseStep ==
  ASSUME IndInv, TypeOK', RaiseEnded, UNCHANGED drvVars
  PROVE  IndInv'
<1>1. dpc = "copy" /\ dpc' = "end" /\ idx' = 0
      /\ UNCHANGED <<pciVars, status, cfg, buff, regs, mem>>
  BY DEF RaiseEnded
<1>2. PICK t \in Threads : mtx = {t} /\ pc[t] = "wait"
  BY <1>1, WaitingHolder DEF Quiet
<1>3. pc[t] \in Critical
  BY <1>2 DEF Critical, PCs
<1>4. Copying /\ mapped = {page[t]} /\ cfg.len = 1 /\ DataMoves(t)
  BY <1>1, <1>2, <1>3, HolderFacts
     DEF Programmed, Phase, MappedPages, Copying, Raised, Handling, Completed, Quiet
<1>5. irr' = irr \cup {0}
  BY IrqAssumption
     DEF RaiseEnded, pciemu_irq_raise, pciemu_irq_raise_msg, IndInv, MsixMode
<1>6. UNCHANGED <<pc, dir, page, dma, mtx, hpc, user, mapped>>
  BY DEF drvVars, threadVars, kernelVars
<1>7. Raised'
  BY <1>1, <1>4, <1>5, <1>6 DEF Raised, Copying
<1>8. EngineStatus'
  BY <1>1 DEF EngineStatus, IndInv
<1>9. MappedPages(t)'
  BY <1>2, <1>4, <1>6, <1>7 DEF MappedPages, Raised, Completed, Quiet
<1>10. DataMoves(t)'
  <2>1. idx # 0
    BY <1>4 DEF RaiseEnded
  <2> QED
    BY <1>1, <1>2, <1>4, <1>6, <2>1 DEF DataMoves, Copied, Programming
<1> QED
  BY <1>1, <1>2, <1>6, <1>7, <1>8, <1>9, <1>10, TransferStep DEF Raised

LEMMA EndStep ==
  ASSUME IndInv, TypeOK', DoorbellEnd, UNCHANGED drvVars
  PROVE  IndInv'
<1>1. dpc = "end" /\ dpc' = "idle" /\ status' = "IDLE"
      /\ UNCHANGED <<pciVars, irqVars, cfg, buff, regs, idx, mem>>
  BY DEF DoorbellEnd
<1>2. PICK t \in Threads : mtx = {t} /\ pc[t] = "wait"
  BY <1>1, WaitingHolder DEF Quiet
<1>3. pc[t] \in Critical
  BY <1>2 DEF Critical, PCs
<1>4. (Raised \/ Handling) /\ DataMoves(t) /\ MappedPages(t)
  BY <1>1, <1>2, <1>3, HolderFacts DEF Phase, Copying, Completed, Quiet
<1>5. UNCHANGED <<pc, dir, page, dma, mtx, hpc, user, mapped>>
  BY DEF drvVars, threadVars, kernelVars
<1>6. (Raised \/ Handling)' /\ ~Completed /\ ~Completed'
  BY <1>1, <1>4, <1>5 DEF Raised, Handling, Completed, irqVars
<1>7. EngineStatus'
  BY <1>1 DEF EngineStatus, IndInv
<1>8. MappedPages(t)'
  BY <1>4, <1>5, <1>6 DEF MappedPages
<1>9. DataMoves(t)'
  BY <1>1, <1>4, <1>5 DEF DataMoves, Copied
<1> QED
  BY <1>1, <1>2, <1>5, <1>6, <1>7, <1>8, <1>9, TransferStep

-----------------------------------------------------------------------------
(* The interrupt handler and the waiting thread.                           *)

LEMMA EnterStep ==
  ASSUME IndInv, TypeOK', IrqEnter
  PROVE  IndInv'
<1>1. /\ hpc = "none" /\ hpc' = "unmap" /\ irr # {} /\ irr' = irr \ {0}
      /\ UNCHANGED <<pciVars, status, cfg, buff, dpc, idx, mem>>
      /\ UNCHANGED <<pc, dir, page, dma, mtx, user, mapped>>
  BY DEF IrqEnter, HandlerGoto, TakeMessage, threadVars, kernelVars
<1>2. PICK t \in Threads : mtx = {t} /\ pc[t] = "wait"
  BY <1>1, WaitingHolder DEF Quiet
<1>3. pc[t] \in Critical
  BY <1>2 DEF Critical, PCs
<1>4. Raised /\ DataMoves(t) /\ MappedPages(t)
  BY <1>1, <1>2, <1>3, HolderFacts DEF Phase, Copying, Handling, Completed, Quiet
<1>5. Handling' /\ ~Completed /\ ~Completed'
  BY <1>1, <1>4 DEF Raised, Handling, Completed
<1>6. EngineStatus'
  BY <1>1, DeviceKept
<1>7. MappedPages(t)'
  BY <1>1, <1>4, <1>5 DEF MappedPages
<1>8. DataMoves(t)'
  BY <1>1, <1>4 DEF DataMoves, Copied
<1> QED
  BY <1>1, <1>2, <1>5, <1>6, <1>7, <1>8, TransferStep

(* While the handler runs, the copy is over and its caller still waits.    *)
LEMMA HandlingFacts ==
  ASSUME IndInv, hpc # "none"
  PROVE  \E t \in Threads :
           /\ mtx = {t} /\ pc[t] = "wait" /\ Handling
           /\ dma.handle = page[t] /\ dma.direction = dir[t]
           /\ MappedPages(t) /\ DataMoves(t)
           /\ hpc = "complete" => dpc = "idle"
<1>1. PICK t \in Threads : mtx = {t} /\ pc[t] = "wait"
  BY WaitingHolder DEF Quiet
<1>2. pc[t] \in Critical
  BY <1>1 DEF Critical, PCs
<1> QED
  BY <1>1, <1>2, HolderFacts DEF Phase, Copying, Raised, Completed, Quiet, Described

LEMMA UnmapStep ==
  ASSUME IndInv, TypeOK', UnmapPage
  PROVE  IndInv'
<1>1. /\ hpc = "unmap" /\ hpc' = "put" /\ mapped' = mapped \ {dma.handle}
      /\ UNCHANGED <<devVars, pc, dir, page, dma, mtx>>
  BY DEF UnmapPage, HandlerGoto, threadVars
<1>2. PICK t \in Threads :
           /\ mtx = {t} /\ pc[t] = "wait" /\ Handling
           /\ dma.handle = page[t] /\ MappedPages(t)
  BY <1>1, HandlingFacts
<1>3. UNCHANGED <<pciVars, irr, status, cfg, buff, dpc, idx, mem>>
  BY <1>1 DEF devVars, irqVars
<1>4. Handling' /\ ~Completed /\ ~Completed'
  BY <1>1, <1>2, <1>3 DEF Handling, Completed
<1>5. EngineStatus'
  BY <1>3, DeviceKept
<1>6. mapped' = {}
  BY <1>1, <1>2, <1>4 DEF MappedPages
<1>7. MappedPages(t)' /\ DataMoves(t)'
  BY <1>1, <1>2, <1>4, <1>6 DEF MappedPages, DataMoves, Copied, Handling, Programming
<1> QED
  BY <1>1, <1>2, <1>3, <1>4, <1>5, <1>7, TransferStep

LEMMA PutAckStep ==
  ASSUME IndInv, TypeOK', PutPage \/ AckIrq
  PROVE  IndInv'
<1>1. /\ hpc \in {"put", "ack"} /\ hpc' \in {"ack", "complete"}
      /\ hpc' = "complete" => dpc = "idle"
      /\ UNCHANGED <<pc, dir, page, dma, mtx, user, mapped>>
  BY DEF PutPage, AckIrq, GuestWrite, HandlerGoto, threadVars, kernelVars
<1>2. UNCHANGED <<pciVars, irr, status, cfg, buff, dpc, idx, mem>>
  <2>1. CASE PutPage
    BY <2>1 DEF PutPage, devVars, irqVars
  <2>2. CASE AckIrq
    <3>1. pciemu_irq_lower(0) /\ UNCHANGED <<regs, dmaVars>>
      BY <2>2 DEF AckIrq, GuestWrite, aurora_write_reg_by_addr, Regs, CfgRegs
    <3>2. UNCHANGED irr
      BY <3>1 DEF pciemu_irq_lower, pciemu_irq_lower_msg, IndInv, MsixMode
    <3> QED
      BY <2>2, <3>1, <3>2 DEF AckIrq, GuestWrite, dmaVars
  <2> QED
    BY <2>1, <2>2
<1>3. PICK t \in Threads :
           mtx = {t} /\ pc[t] = "wait" /\ Handling /\ MappedPages(t) /\ DataMoves(t)
  BY <1>1, HandlingFacts
<1>4. Handling' /\ ~Completed /\ ~Completed'
  BY <1>1, <1>2, <1>3 DEF Handling, Completed
<1>5. EngineStatus'
  BY <1>2, DeviceKept
<1>6. mapped = {}
  BY <1>1, <1>3 DEF MappedPages, Programming
<1>7. MappedPages(t)' /\ DataMoves(t)'
  BY <1>1, <1>2, <1>3, <1>4, <1>6 DEF MappedPages, DataMoves, Copied, Programming
<1> QED
  BY <1>1, <1>2, <1>3, <1>4, <1>5, <1>7, TransferStep

LEMMA CompleteStep ==
  ASSUME IndInv, TypeOK', CompleteAll
  PROVE  IndInv'
<1>1. /\ hpc = "complete" /\ hpc' = "none"
      /\ UNCHANGED <<devVars, pc, dir, page, mtx, user, mapped>>
  BY DEF CompleteAll, HandlerGoto, threadVars, kernelVars
<1>2. /\ dma'.handle = dma.handle /\ dma'.direction = dma.direction
      /\ dma'.completion = TRUE
  BY DEF CompleteAll, IndInv, TypeOK
<1>3. PICK t \in Threads :
           /\ mtx = {t} /\ pc[t] = "wait" /\ Handling /\ MappedPages(t) /\ DataMoves(t)
           /\ hpc = "complete" => dpc = "idle"
  BY <1>1, HandlingFacts
<1>4. UNCHANGED <<pciVars, irr, status, cfg, buff, dpc, idx, mem>>
  BY <1>1 DEF devVars, irqVars
<1>5. Completed'
  BY <1>1, <1>2, <1>3, <1>4 DEF Handling, Completed, Quiet
<1>6. EngineStatus'
  BY <1>4, DeviceKept
<1>7. mapped = {}
  BY <1>1, <1>3 DEF MappedPages, Programming
<1>8. MappedPages(t)' /\ DataMoves(t)'
  BY <1>1, <1>3, <1>4, <1>5, <1>7 DEF MappedPages, DataMoves, Copied, Programming
<1> QED
  BY <1>1, <1>2, <1>3, <1>4, <1>5, <1>6, <1>8, TransferStep

LEMMA WaitStep ==
  ASSUME IndInv, TypeOK', NEW t \in Threads, WaitForCompletion(t)
  PROVE  IndInv'
<1>1. /\ pc[t] = "wait" /\ pc'[t] = "unlock" /\ dma.completion
      /\ \A u \in Threads \ {t} : pc'[u] = pc[u]
      /\ UNCHANGED <<devVars, dir, page, dma, mtx, hpc, user, mapped>>
  BY DEF WaitForCompletion, Goto, IndInv, TypeOK, kernelVars
<1>2. pc[t] \in Critical /\ pc'[t] \in Critical
  BY <1>1 DEF Critical, PCs
<1>3. Completed /\ mapped = {}
  BY <1>1, <1>2, HolderFacts
     DEF Phase, Copying, Raised, Handling, MappedPages, Programming
<1>4. Completed' /\ mapped' = {}
  BY <1>1, <1>3 DEF Completed, Quiet, devVars, irqVars
<1>5. MsixMode' /\ EngineStatus'
  BY <1>1, DeviceKept DEF devVars
<1>6. (Programmed(t) /\ Described(t) /\ MappedPages(t) /\ DataMoves(t))'
  BY <1>1, <1>4 DEF Programmed, Described, MappedPages, DataMoves, Programming
<1>7. Phase(t)'
  BY <1>1, <1>4 DEF Phase, Programming, Completed, Quiet
<1> QED
  BY <1>1, <1>2, <1>5, <1>6, <1>7, HolderFacts, HolderStep

LEMMA UnlockStep ==
  ASSUME IndInv, TypeOK', NEW t \in Threads, Unlock(t)
  PROVE  IndInv'
<1>1. /\ pc[t] = "unlock" /\ pc'[t] = "idle" /\ mtx' = mtx \ {t}
      /\ \A u \in Threads \ {t} : pc'[u] = pc[u]
      /\ UNCHANGED <<devVars, hpc, mapped>>
  BY DEF Unlock, Goto, IndInv, TypeOK, kernelVars
<1>2. pc[t] \in Critical /\ pc'[t] \notin Critical
  BY <1>1 DEF Critical, PCs
<1>3. Quiet /\ mapped = {} /\ mtx = {t}
  BY <1>1, <1>2, HolderFacts DEF Phase, Completed, MappedPages, Programming
<1>4. Quiet' /\ mapped' = {} /\ mtx' = {}
  BY <1>1, <1>3 DEF Quiet, devVars, irqVars
<1>5. MsixMode' /\ EngineStatus'
  BY <1>1, DeviceKept DEF devVars
<1> QED
  BY <1>1, <1>2, <1>4, <1>5, HolderFacts, ReleaseStep

LEMMA RebootStep ==
  ASSUME IndInv, TypeOK', Reboot
  PROVE  IndInv'
<1>1. MsixMode' /\ EngineStatus'
  BY DEF Reboot, ResetDevice, aurora_backend_reset, IndInv, MsixMode, EngineStatus, pciVars
<1>2. Quiet' /\ mapped' = {} /\ mtx' = {} /\ \A u \in Threads : pc'[u] \notin Critical
  BY DEF Reboot, ResetDevice, aurora_backend_reset, Quiet, Critical
<1> QED
  BY <1>1, <1>2, ReleaseStep

-----------------------------------------------------------------------------
LEMMA IndInvStep ==
  ASSUME IndInv, [Next]_vars
  PROVE  IndInv'
<1>1. TypeOK'
  BY TypeStep DEF IndInv
<1>2. ASSUME NEW t \in Threads, NEW d, NEW p, Ioctl(t, d, p) \/ Lock(t) \/ ThreadStep(t)
      PROVE  IndInv'
  BY <1>1, <1>2, IoctlStep, LockStep, MapStep, MapFailsStep, WriteSteps, RingStep,
     WaitStep, UnlockStep DEF ThreadStep
<1>3. CASE HandlerStep
  BY <1>1, <1>3, EnterStep, UnmapStep, PutAckStep, CompleteStep DEF HandlerStep
<1>4. CASE DeviceWorks
  BY <1>1, <1>4, CopyStep, RaiseStep, EndStep DEF DeviceWorks, DoorbellStep
<1> QED
  BY <1>1, <1>2, <1>3, <1>4, MmapStep, RebootStep, StutterStep DEF Next

(* What the mutex holder, the device and the handler may rely on, at every *)
(* step of any number of threads.                                          *)
THEOREM IndInvHolds == Spec => []IndInv
<1>1. IndInv /\ [Next]_vars => IndInv'
  BY IndInvStep
<1> QED
  BY <1>1, InitIndInv, PTL DEF Spec

(* While a doorbell is in progress the device works on the descriptor of   *)
(* the one call that holds the mutex (pciemu_dma.c:19-41).                 *)
THEOREM DescriptorHeld == Spec => []DescriptorIsHolders
<1>1. IndInv => DescriptorIsHolders
  <2> SUFFICES ASSUME IndInv, dpc # "idle" PROVE DescriptorIsHolders
    BY DEF DescriptorIsHolders
  <2>1. PICK t \in Threads : mtx = {t} /\ pc[t] = "wait"
    BY WaitingHolder DEF Quiet
  <2>2. Programmed(t)
    BY <2>1, HolderFacts DEF Critical, PCs
  <2> QED
    BY <2>1, <2>2 DEF Programmed, DescriptorIsHolders
<1> QED
  BY <1>1, IndInvHolds, PTL

(* The engine never reads or writes a page that is not mapped for it, and  *)
(* so the handler never unmaps a page too early (pciemu_irq.c:14).         *)
THEOREM OnlyMapped == Spec => []DeviceTouchesOnlyMapped
<1>1. IndInv => DeviceTouchesOnlyMapped
  <2> SUFFICES ASSUME IndInv, dpc = "copy", idx < cfg.len
               PROVE  aurora_dma_addr_mask(IF cfg.cmd = TO_DEVICE THEN cfg.src ELSE cfg.dst)
                        + idx \in mapped
    BY DEF DeviceTouchesOnlyMapped
  <2>1. PICK t \in Threads : mtx = {t} /\ pc[t] = "wait"
    BY WaitingHolder DEF Quiet
  <2>2. /\ cfg.src = Src(t) /\ cfg.dst = Dst(t) /\ cfg.len = 1 /\ cfg.cmd = dir[t]
        /\ mapped = {page[t]}
    BY <2>1, HolderFacts
       DEF Critical, PCs, Programmed, Phase, MappedPages, Copying, Raised, Handling,
           Completed, Quiet
  <2>3. idx \in Nat /\ idx < 1
    BY <2>2 DEF IndInv, TypeOK, DevTypeOK, AuroraTypeOK
  <2>4. idx = 0
    BY <2>3
  <2>5. page[t] \in Pages
    BY DEF IndInv, TypeOK
  <2>6. aurora_dma_addr_mask(page[t]) = page[t] /\ page[t] \in Nat
    BY <2>5, DriverAssumption, AuroraAssumption
  <2>7. (IF cfg.cmd = TO_DEVICE THEN cfg.src ELSE cfg.dst) = page[t]
    BY <2>2 DEF Src, Dst
  <2> QED
    BY <2>2, <2>4, <2>6, <2>7
<1> QED
  BY <1>1, IndInvHolds, PTL

(* A waiter is woken only when nothing of its transfer is left, in the     *)
(* device, in the handler or in the mappings (pciemu_dma.c:41).            *)
THEOREM WokenAfter == Spec => []WokenAfterTransfer
<1>1. IndInv => WokenAfterTransfer
  <2> SUFFICES ASSUME IndInv, NEW t \in Threads, pc[t] = "unlock"
               PROVE  Quiet /\ mapped = {}
    BY DEF WokenAfterTransfer
  <2> QED
    BY HolderFacts DEF Critical, PCs, Phase, Completed, MappedPages, Programming
<1> QED
  BY <1>1, IndInvHolds, PTL

(* The engine takes descriptors that reach past its area (run dev_area);   *)
(* those the driver programs never do, in either direction                 *)
(* (pciemu_dma.c:32-40, 65-73).                                            *)
THEOREM DriverStaysInside == Spec => []TransferInsideArea
<1>1. IndInv => TransferInsideArea
  <2> SUFFICES ASSUME IndInv, dpc = "copy", idx < cfg.len
               PROVE  (IF cfg.cmd = TO_DEVICE THEN cfg.dst ELSE cfg.src) - AREA_START + idx
                        < AREA_SIZE
    BY DEF TransferInsideArea
  <2>1. PICK t \in Threads : mtx = {t} /\ pc[t] = "wait"
    BY WaitingHolder DEF Quiet
  <2>2. cfg.src = Src(t) /\ cfg.dst = Dst(t) /\ cfg.len = 1 /\ cfg.cmd = dir[t]
    BY <2>1, HolderFacts DEF Critical, PCs, Programmed
  <2>3. idx \in Nat /\ idx < 1
    BY <2>2 DEF IndInv, TypeOK, DevTypeOK, AuroraTypeOK
  <2>4. (IF cfg.cmd = TO_DEVICE THEN cfg.dst ELSE cfg.src) = AREA_START
    BY <2>2 DEF Src, Dst
  <2> QED
    BY <2>3, <2>4, AuroraAssumption
<1> QED
  BY <1>1, IndInvHolds, PTL

(* The driver's transfers leave the registers behind the DMA area alone.   *)
THEOREM RegsSafe == Spec => RegsOnlyByMmap
<1>1. IndInv /\ [Next]_vars => [regs' # regs => dpc = "idle"]_vars
  <2> SUFFICES ASSUME IndInv, Next, dpc # "idle"
               PROVE  UNCHANGED regs
    OBVIOUS
  <2>1. CASE CopyCell
    BY <2>1, CopyEffect
  <2>2. ASSUME NEW t \in Threads, NEW d, NEW p, Ioctl(t, d, p) \/ Lock(t) \/ ThreadStep(t)
        PROVE  UNCHANGED regs
    BY <2>2 DEF Ioctl, PinPage, PinFails, Lock, ThreadStep, CallDma, MapPage, MapFails, WriteSrc,
                WriteDst, WriteLen, WriteCmd, RingDoorbell, WriteReg, GuestWrite,
                WaitForCompletion, Unlock, devVars
  <2>3. CASE HandlerStep \/ MmapWrite \/ Reboot
    BY <2>3 DEF HandlerStep, IrqEnter, UnmapPage, PutPage, AckIrq, CompleteAll, GuestWrite,
                MmapWrite, Reboot, ResetDevice, devVars
  <2> QED
    BY <2>1, <2>2, <2>3 DEF Next, DeviceWorks, DoorbellStep, RaiseEnded, DoorbellEnd
<1> QED
  BY <1>1, IndInvHolds, PTL DEF Spec, RegsOnlyByMmap

-----------------------------------------------------------------------------
(* The references on pinned pages.  The handler has dropped the one of the *)
(* waiting call once it is past put_page.                                  *)
Done == Completed \/ hpc \in {"ack", "complete"}
Owing == {t \in Threads : pc[t] # "idle" /\ ~PutDone(t)}

LEMMA PinsForm ==
  /\ PinsConserved <=> SumOver(pins, Pages) = leaks + Cardinality(Owing)
  /\ PinsConserved' <=> SumOver(pins', Pages) = leaks' + Cardinality(Owing')
BY DEF PinsConserved, SumOver, MapThenSumSet, MapThenFoldSet, Owing

LEMMA OwingForm ==
  ASSUME NEW t \in Threads
  PROVE  /\ t \in Owing <=> pc[t] \notin {"idle", "unlock"} /\ ~(pc[t] = "wait" /\ Done)
         /\ t \in Owing' <=> pc'[t] \notin {"idle", "unlock"} /\ ~(pc'[t] = "wait" /\ Done')
BY DEF Owing, PutDone, Done

LEMMA OwingFinite ==
  /\ Owing \subseteq Threads /\ IsFiniteSet(Owing) /\ Cardinality(Owing) \in Nat
  /\ Owing' \subseteq Threads /\ IsFiniteSet(Owing')
<1>1. Owing \subseteq Threads /\ Owing' \subseteq Threads
  BY DEF Owing
<1> QED
  BY <1>1, DriverAssumption, FS_Subset, FS_CardinalityType

(* A step that drops or takes no reference. *)
LEMMA OwingKept ==
  ASSUME PinsConserved, UNCHANGED <<pins, leaks>>,
         \A u \in Threads : u \in Owing' <=> u \in Owing
  PROVE  PinsConserved'
<1>1. Owing' = Owing
  BY OwingFinite
<1> QED
  BY <1>1, PinsForm

(* A step during which no thread is at a point that matters. *)
LEMMA DoneKept ==
  ASSUME PinsConserved, UNCHANGED <<pins, leaks, pc>>, Done' <=> Done
  PROVE  PinsConserved'
BY OwingForm, OwingKept

(* A step of one thread t. *)
LEMMA ThreadOwing ==
  ASSUME IndInv, PinsConserved, UNCHANGED <<pins, leaks>>, NEW t \in Threads,
         \A u \in Threads \ {t} : pc'[u] = pc[u],
         t \in Owing' <=> t \in Owing,
         \/ Done' <=> Done
         \/ \A u \in Threads \ {t} : pc[u] # "wait"
  PROVE  PinsConserved'
BY OwingForm, OwingKept

LEMMA PinAdds ==
  ASSUME IndInv, PinsConserved, NEW t \in Threads, NEW d, NEW p \in Pages,
         PinPage(t, d, p)
  PROVE  PinsConserved'
<1>1. pc[t] = "idle" /\ pc'[t] = "call" /\ \A u \in Threads \ {t} : pc'[u] = pc[u]
  BY DEF PinPage, Goto, IndInv, TypeOK
<1>2. Done' <=> Done
  <2>1. dma'.completion = dma.completion
    BY DEF PinPage, IndInv, TypeOK
  <2> QED
    BY <2>1 DEF PinPage, Done, Completed, Quiet, devVars, irqVars
<1>3. Owing' = Owing \cup {t} /\ t \notin Owing
  BY <1>1, <1>2, OwingForm, OwingFinite
<1>4. Cardinality(Owing') = Cardinality(Owing) + 1
  BY <1>3, OwingFinite, FS_AddElement
<1>5. pins' = [pins EXCEPT ![p] = @ + 1] /\ leaks' = leaks /\ leaks \in Nat
  BY DEF PinPage, IndInv, TypeOK
<1>6. SumOver(pins, Pages) \in Int /\ SumOver(pins', Pages) = SumOver(pins, Pages) + 1
  <2>1. pins \in [Pages -> Int] /\ IsFiniteSet(Pages) /\ 1 \in Int
    BY DriverAssumption DEF IndInv, TypeOK
  <2>2. pins'[p] = pins[p] + 1 /\ \A q \in Pages \ {p} : pins'[q] = pins[q]
    BY <1>5, <2>1
  <2> QED
    BY <2>1, <2>2, SumAdd, Zenon
<1> QED
  BY <1>4, <1>5, <1>6, PinsForm, OwingFinite

LEMMA MapFailsLeaks ==
  ASSUME IndInv, PinsConserved, NEW t \in Threads, MapFails(t)
  PROVE  PinsConserved'
<1>1. pc[t] = "map" /\ pc'[t] = "idle" /\ \A u \in Threads \ {t} : pc'[u] = pc[u]
  BY DEF MapFails, Goto, IndInv, TypeOK
<1>2. Done' <=> Done
  BY DEF MapFails, Done, Completed, Quiet, devVars, irqVars
<1>3. Owing' = Owing \ {t} /\ t \in Owing
  BY <1>1, <1>2, OwingForm, OwingFinite
<1>4. Cardinality(Owing') = Cardinality(Owing) - 1
  BY <1>3, OwingFinite, FS_RemoveElement
<1>5. pins' = pins /\ leaks' = leaks + 1 /\ leaks \in Nat
  BY DEF MapFails, IndInv, TypeOK
<1> QED
  BY <1>4, <1>5, PinsForm, OwingFinite

LEMMA PutDrops ==
  ASSUME IndInv, PinsConserved, PutPage
  PROVE  PinsConserved'
<1>1. hpc = "put" /\ hpc' = "ack" /\ UNCHANGED <<pc, dma, leaks, irr, dpc>>
  BY DEF PutPage, HandlerGoto, threadVars, devVars, irqVars
<1>2. ~Done /\ Done'
  BY <1>1 DEF Done, Completed, Quiet
<1>3. PICK t \in Threads : mtx = {t} /\ pc[t] = "wait"
  BY <1>1, HandlingFacts
<1>4. \A u \in Threads \ {t} : pc[u] # "wait"
  BY <1>3, HolderFacts DEF Critical, PCs
<1>5. Owing' = Owing \ {t} /\ t \in Owing
  BY <1>1, <1>2, <1>3, <1>4, OwingForm, OwingFinite
<1>6. Cardinality(Owing') = Cardinality(Owing) - 1
  BY <1>5, OwingFinite, FS_RemoveElement
<1>7. dma.page \in Pages /\ pins \in [Pages -> Int] /\ leaks \in Nat
  BY DEF IndInv, TypeOK
<1>8. pins' = [pins EXCEPT ![dma.page] = @ + (-1)]
  BY <1>7 DEF PutPage
<1>9. SumOver(pins, Pages) \in Int /\ SumOver(pins', Pages) = SumOver(pins, Pages) + (-1)
  <2>1. IsFiniteSet(Pages) /\ -1 \in Int
    BY DriverAssumption
  <2>2. /\ pins'[dma.page] = pins[dma.page] + (-1)
        /\ \A q \in Pages \ {dma.page} : pins'[q] = pins[q]
    BY <1>7, <1>8
  <2> QED
    BY <1>7, <2>1, <2>2, SumAdd, Zenon
<1> QED
  BY <1>1, <1>6, <1>7, <1>9, PinsForm, OwingFinite

LEMMA RebootClears ==
  ASSUME Reboot
  PROVE  PinsConserved'
<1>1. pins' = [p \in Pages |-> 0] /\ leaks' = 0 /\ Owing' = {}
  BY OwingForm, OwingFinite DEF Reboot
<1> QED
  BY <1>1, PinsForm, SumZero, FS_EmptySet, DriverAssumption

LEMMA CallOwing ==
  ASSUME IndInv, PinsConserved, NEW t \in Threads,
         CallDma(t) \/ Lock(t) \/ MapPage(t)
  PROVE  PinsConserved'
<1>1. /\ pc[t] \in {"call", "lock", "map"} /\ pc'[t] \in {"lock", "map", "src"}
      /\ \A u \in Threads \ {t} : pc'[u] = pc[u]
      /\ UNCHANGED <<pins, leaks, hpc, irr, dpc>>
  BY DEF CallDma, Lock, MapPage, Goto, IndInv, TypeOK, kernelVars, devVars, irqVars
<1>2. t \in Owing' /\ t \in Owing
  BY <1>1, OwingForm
<1>3. CASE CallDma(t) \/ MapPage(t)
  <2>1. dma'.completion = dma.completion
    BY <1>3 DEF CallDma, MapPage, IndInv, TypeOK
  <2>2. Done' <=> Done
    BY <1>1, <2>1 DEF Done, Completed, Quiet
  <2> QED
    BY <1>1, <1>2, <2>2, ThreadOwing
<1>4. CASE Lock(t)
  <2>1. \A u \in Threads : pc[u] # "wait"
    BY <1>4 DEF Lock, IndInv, MutexOwned, Critical, PCs
  <2> QED
    BY <1>1, <1>2, <2>1, ThreadOwing
<1> QED
  BY <1>3, <1>4

LEMMA ProgramOwing ==
  ASSUME IndInv, PinsConserved, NEW t \in Threads,
         WriteSrc(t) \/ WriteDst(t) \/ WriteLen(t) \/ WriteCmd(t) \/ RingDoorbell(t)
  PROVE  PinsConserved'
<1>1. /\ pc[t] \in Programming /\ pc'[t] \in Programming \cup {"wait"}
      /\ \A u \in Threads \ {t} : pc'[u] = pc[u]
      /\ UNCHANGED <<pins, leaks, hpc, dma>>
  BY DEF WriteSrc, WriteDst, WriteLen, WriteCmd, RingDoorbell, WriteReg, Goto,
         Programming, IndInv, TypeOK, kernelVars
<1>2. pc[t] \in Critical
  BY <1>1 DEF Programming, Critical, PCs
<1>3. hpc = "none" /\ ~dma.completion
  BY <1>1, <1>2, HolderFacts DEF Phase, Described, Quiet
<1>4. ~Done /\ ~Done'
  BY <1>1, <1>3 DEF Done, Completed
<1>5. t \in Owing' /\ t \in Owing
  BY <1>1, <1>4, OwingForm DEF Programming
<1> QED
  BY <1>1, <1>4, <1>5, ThreadOwing

LEMMA ReturnOwing ==
  ASSUME IndInv, PinsConserved, NEW t \in Threads, WaitForCompletion(t) \/ Unlock(t)
  PROVE  PinsConserved'
<1>1. /\ \/ pc[t] = "wait" /\ pc'[t] = "unlock" /\ dma.completion
         \/ pc[t] = "unlock" /\ pc'[t] = "idle"
      /\ \A u \in Threads \ {t} : pc'[u] = pc[u]
      /\ UNCHANGED <<pins, leaks, hpc, irr, dpc, dma>>
  BY DEF WaitForCompletion, Unlock, Goto, IndInv, TypeOK, kernelVars, devVars, irqVars
<1>2. pc[t] \in Critical
  BY <1>1 DEF Critical, PCs
<1>3. pc[t] = "wait" => Done
  BY <1>1, <1>2, HolderFacts DEF Phase, Copying, Raised, Handling, Done
<1>4. Done' <=> Done
  BY <1>1 DEF Done, Completed, Quiet
<1>5. t \notin Owing' /\ t \notin Owing
  BY <1>1, <1>3, OwingForm
<1> QED
  BY <1>1, <1>4, <1>5, ThreadOwing

LEMMA HandlerOwing ==
  ASSUME IndInv, PinsConserved, IrqEnter \/ UnmapPage \/ AckIrq \/ CompleteAll
  PROVE  PinsConserved'
<1>1. UNCHANGED <<pins, leaks, pc>>
  BY DEF IrqEnter, UnmapPage, AckIrq, CompleteAll, threadVars, kernelVars
<1>2. CASE IrqEnter
  <2>1. hpc = "none" /\ hpc' = "unmap" /\ irr # {}
    BY <1>2 DEF IrqEnter, HandlerGoto, TakeMessage
  <2> QED
    BY <1>1, <2>1, DoneKept DEF Done, Completed, Quiet
<1>3. CASE UnmapPage
  <2>1. hpc = "unmap" /\ hpc' = "put"
    BY <1>3 DEF UnmapPage, HandlerGoto
  <2> QED
    BY <1>1, <2>1, DoneKept DEF Done, Completed, Quiet
<1>4. CASE AckIrq
  <2>1. hpc = "ack" /\ hpc' = "complete"
    BY <1>4 DEF AckIrq, HandlerGoto
  <2> QED
    BY <1>1, <2>1, DoneKept DEF Done
<1>5. CASE CompleteAll
  <2>1. hpc = "complete" /\ hpc' = "none" /\ UNCHANGED <<irr, dpc>>
        /\ dma'.completion = TRUE
    BY <1>5 DEF CompleteAll, HandlerGoto, IndInv, TypeOK, devVars, irqVars
  <2>2. irr = {} /\ dpc = "idle"
    BY <2>1, HandlingFacts DEF Handling
  <2>3. Done /\ Done'
    BY <2>1, <2>2 DEF Done, Completed, Quiet
  <2> QED
    BY <1>1, <2>3, DoneKept
<1> QED
  BY <1>2, <1>3, <1>4, <1>5

LEMMA DeviceOwing ==
  ASSUME IndInv, PinsConserved, DeviceWorks
  PROVE  PinsConserved'
<1>1. dpc # "idle" /\ UNCHANGED <<pins, leaks, pc, hpc, dma>>
  BY DEF DeviceWorks, DoorbellStep, CopyCell, RaiseEnded, DoorbellEnd, drvVars,
         threadVars, kernelVars
<1>2. PICK t \in Threads : mtx = {t} /\ pc[t] = "wait"
  BY <1>1, WaitingHolder DEF Quiet
<1>3. pc[t] \in Critical
  BY <1>2 DEF Critical, PCs
<1>4. ~dma.completion
  BY <1>1, <1>2, <1>3, HolderFacts DEF Phase, Copying, Raised, Handling, Completed, Quiet
<1> QED
  BY <1>1, <1>4, DoneKept DEF Done, Completed

LEMMA MmapOwing ==
  ASSUME IndInv, PinsConserved, MmapWrite \/ UNCHANGED vars
  PROVE  PinsConserved'
<1>1. UNCHANGED <<pins, leaks, pc, hpc, dma>>
  BY DEF MmapWrite, vars, drvVars, threadVars, kernelVars
<1>2. UNCHANGED <<irr, dpc>>
  BY DEF MmapWrite, GuestWrite, aurora_write_reg_by_addr, Regs, CfgRegs, irqVars, dmaVars,
         vars, devVars
<1> QED
  BY <1>1, <1>2, DoneKept DEF Done, Completed, Quiet

LEMMA PinFailsOwing ==
  ASSUME IndInv, PinsConserved, NEW t \in Threads, PinFails(t)
  PROVE  PinsConserved'
<1>1. UNCHANGED <<pins, leaks, pc, hpc, dma, irr, dpc>>
  BY DEF PinFails, threadVars, devVars, irqVars
<1> QED
  BY <1>1, DoneKept DEF Done, Completed, Quiet

LEMMA PinsStep ==
  ASSUME IndInv, PinsConserved, [Next]_vars
  PROVE  PinsConserved'
<1>1. ASSUME NEW t \in Threads, NEW d, NEW p \in Pages, Ioctl(t, d, p)
      PROVE  PinsConserved'
  BY <1>1, PinAdds, PinFailsOwing DEF Ioctl
<1>2. ASSUME NEW t \in Threads, Lock(t) \/ ThreadStep(t)
      PROVE  PinsConserved'
  BY <1>2, CallOwing, MapFailsLeaks, ProgramOwing, ReturnOwing DEF ThreadStep
<1>3. CASE HandlerStep
  BY <1>3, HandlerOwing, PutDrops DEF HandlerStep
<1> QED
  BY <1>1, <1>2, <1>3, DeviceOwing, MmapOwing, RebootClears DEF Next

(* Over any number of threads, pages and reboots, and although threads     *)
(* overwrite each other's dma.page: the references on all pages together   *)
(* are those of the calls whose handler has yet to drop one, and those the *)
(* -ENOMEM path left behind (pciemu_module.c:60-76, pciemu_dma.c:25-28,    *)
(* pciemu_irq.c:17).                                                       *)
THEOREM PinsCounted == Spec => []PinsConserved
<1>1. Init => PinsConserved
  <2> SUFFICES ASSUME Init PROVE PinsConserved
    OBVIOUS
  <2>1. pins = [p \in Pages |-> 0] /\ leaks = 0 /\ Owing = {}
    BY DEF Init, DriverInit, Owing
  <2> QED
    BY <2>1, PinsForm, SumZero, FS_EmptySet, DriverAssumption
<1>2. IndInv /\ PinsConserved /\ [Next]_vars => PinsConserved'
  BY PinsStep
<1> QED
  BY <1>1, <1>2, IndInvHolds, PTL DEF Spec

-----------------------------------------------------------------------------
(* A thread that is alone finds its own page in the shared struct. *)
OwnPage(t) ==
  /\ pc[t] # "idle" => dma.page = vaddr[t]
  /\ pc[t] \notin {"idle", "call"} => page[t] = vaddr[t]

LEMMA OwnPageStep ==
  ASSUME TypeOK, NEW t, Threads = {t}, OwnPage(t), [Next]_vars
  PROVE  OwnPage(t)'
<1> USE DEF OwnPage
<1>1. ASSUME NEW d, NEW p \in Pages, Ioctl(t, d, p)
      PROVE  OwnPage(t)'
  BY <1>1 DEF TypeOK, Ioctl, PinPage, PinFails, Goto, threadVars
<1>2. CASE CallDma(t)
  BY <1>2 DEF TypeOK, CallDma, Goto
<1>3. CASE Lock(t) \/ MapPage(t) \/ MapFails(t) \/ WaitForCompletion(t) \/ Unlock(t)
  BY <1>3 DEF TypeOK, Lock, MapPage, MapFails, WaitForCompletion, Unlock, Goto
<1>4. ASSUME NEW from, NEW reg, NEW value, NEW to, from \notin {"idle", "call"},
             WriteReg(t, from, reg, value, to)
      PROVE  OwnPage(t)'
  BY <1>4 DEF TypeOK, WriteReg, Goto
<1>5. CASE ThreadStep(t)
  BY <1>2, <1>3, <1>4, <1>5
     DEF ThreadStep, WriteSrc, WriteDst, WriteLen, WriteCmd, RingDoorbell
<1>6. CASE HandlerStep
  BY <1>6 DEF TypeOK, HandlerStep, IrqEnter, UnmapPage, PutPage, AckIrq, CompleteAll, threadVars
<1>7. CASE DeviceWorks \/ MmapWrite \/ UNCHANGED vars
  BY <1>7 DEF DeviceWorks, MmapWrite, vars, drvVars, threadVars
<1>8. CASE Reboot
  BY <1>8 DEF Reboot
<1> QED
  BY <1>1, <1>3, <1>5, <1>6, <1>7, <1>8 DEF Next

(* One thread alone always transfers the page it was given, even where     *)
(* pinning and mapping fail: the comment in pciemu_example.c:129 needs a   *)
(* second thread to be wrong (run drv_page).                               *)
THEOREM LoneCallersPage ==
  ASSUME NEW CONSTANT t, Threads = {t}
  PROVE  Spec => []TransferUsesCallersPage
<1>1. Init => OwnPage(t)
  BY DEF Init, DriverInit, OwnPage
<1>2. IndInv /\ OwnPage(t) /\ [Next]_vars => OwnPage(t)'
  BY OwnPageStep DEF IndInv
<1>3. OwnPage(t) => TransferUsesCallersPage
  BY DEF OwnPage, TransferUsesCallersPage, Programming
<1> QED
  BY <1>1, <1>2, <1>3, IndInvHolds, PTL DEF Spec
=============================================================================
