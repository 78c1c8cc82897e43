-------------------------- MODULE DmaDriverRefines --------------------------
(***************************************************************************)
(* The driver, the interrupt handler and the device keep the promise that  *)
(* module DmaCall states, for any number of threads and pages (the safety  *)
(* part; that every call returns is left to TLC).                          *)
(***************************************************************************)
EXTENDS DmaDriverProofs

(* A step that leaves everyone's call and all data as they are stutters.   *)
LEMMA Stutter ==
  ASSUME \A t \in Threads : CallOf(t)' = CallOf(t),
         UNCHANGED <<ret, user>>, buff'[0] = buff[0]
  PROVE  UNCHANGED Contract!vars
BY DEF Contract!vars

(* The call of a thread outside the critical section has had no effect.    *)
LEMMA CallOutside ==
  ASSUME NEW t \in Threads, pc[t] \notin Critical, pc'[t] = pc[t],
         dir'[t] = dir[t], page'[t] = page[t]
  PROVE  CallOf(t)' = CallOf(t)
BY DEF CallOf, TookEffect, Critical, PCs

(* A step that changes the call of one thread only.                        *)
LEMMA OneCallMoves ==
  ASSUME NEW t \in Threads, \A u \in Threads \ {t} : CallOf(u)' = CallOf(u)
  PROVE  [u \in Threads |-> CallOf(u)]' =
           [[u \in Threads |-> CallOf(u)] EXCEPT ![t] = CallOf(t)']
OBVIOUS

LEMMA RefInit == Init => Contract!Init
<1> SUFFICES ASSUME Init PROVE Contract!Init
  OBVIOUS
<1>1. \A t \in Threads : CallOf(t) = [st |-> "idle", dir |-> 0, page |-> 0]
  BY DEF Init, DriverInit, CallOf
<1>2. buff[0] = 0
  <2>1. 0 \in 0 .. AREA_SIZE - 1
    BY AuroraAssumption
  <2> QED
    BY <2>1 DEF Init, AuroraInit, ZeroBuff
<1> QED
  BY <1>1, <1>2 DEF Init, DriverInit, Contract!Init, Contract!Idle

(* pciemu_ioctl before the call of the DMA function *)
LEMMA RefIoctl ==
  ASSUME IndInv, NEW u \in Threads, NEW d, NEW p, Ioctl(u, d, p)
  PROVE  UNCHANGED Contract!vars
<1>1. /\ UNCHANGED <<ret, user, buff>>
      /\ \A t \in Threads \ {u} : pc'[t] = pc[t] /\ dir'[t] = dir[t] /\ page'[t] = page[t]
      /\ UNCHANGED <<dpc, idx, mapped>>
      /\ pc[u] = "idle" /\ pc'[u] \in {"idle", "call"}
  BY DEF Ioctl, PinPage, PinFails, Goto, threadVars, devVars, IndInv, TypeOK
<1>2. ASSUME NEW t \in Threads
      PROVE  CallOf(t)' = CallOf(t)
  BY <1>1 DEF CallOf, TookEffect, Copied
<1> QED
  BY <1>1, <1>2, Stutter

LEMMA RefCall ==
  ASSUME IndInv, NEW t \in Threads, CallDma(t)
  PROVE  Contract!Call(t)
<1>1. /\ pc[t] = "call" /\ pc'[t] = "lock" /\ page'[t] = dma.page
      /\ UNCHANGED <<ret, user, buff, dir, dpc, idx, mapped>>
      /\ \A u \in Threads \ {t} : pc'[u] = pc[u] /\ page'[u] = page[u]
  BY DEF CallDma, Goto, devVars, kernelVars, IndInv, TypeOK
<1>2. \A u \in Threads \ {t} : CallOf(u)' = CallOf(u)
  BY <1>1 DEF CallOf, TookEffect, Copied
<1>3. CallOf(t) = [st |-> "idle", dir |-> 0, page |-> 0]
  BY <1>1 DEF CallOf
<1>4. CallOf(t)' = [st |-> "called", dir |-> dir[t], page |-> dma.page]
  BY <1>1 DEF CallOf, TookEffect
<1>5. dir[t] \in {1, 2} /\ dma.page \in Pages
  BY DEF IndInv, TypeOK, TO_DEVICE, FROM_DEVICE
<1>6. [u \in Threads |-> CallOf(u)]' =
        [[u \in Threads |-> CallOf(u)] EXCEPT ![t] =
           [st |-> "called", dir |-> dir[t], page |-> dma.page]]
  BY <1>2, <1>4, OneCallMoves
<1> QED
  BY <1>1, <1>3, <1>5, <1>6 DEF Contract!Call, Contract!Idle, Contract!TO, Contract!FROM

(* Taking the mutex, mapping, programming and ringing are invisible.       *)
LEMMA RefProgram ==
  ASSUME IndInv, NEW t \in Threads,
         \/ Lock(t) \/ MapPage(t) \/ WriteSrc(t) \/ WriteDst(t) \/ WriteLen(t)
         \/ WriteCmd(t) \/ RingDoorbell(t)
  PROVE  UNCHANGED Contract!vars
<1>1. /\ UNCHANGED <<ret, user, buff, dir, page>>
      /\ pc[t] \in {"lock", "map", "src", "dst", "len", "cmd", "bell"}
      /\ \A u \in Threads \ {t} : pc'[u] = pc[u]
  BY DEF Lock, MapPage, WriteSrc, WriteDst, WriteLen, WriteCmd, RingDoorbell, WriteReg,
         GuestWrite, Goto, devVars, kernelVars, IndInv, TypeOK
<1>2. ASSUME NEW u \in Threads \ {t}
      PROVE  pc[u] \notin Critical
  <2>1. CASE Lock(t)
    BY <2>1 DEF Lock, IndInv, MutexOwned
  <2>2. CASE pc[t] \in Critical
    BY <2>2, HolderFacts
  <2> QED
    BY <1>1, <2>1, <2>2
       DEF Critical, PCs, MapPage, WriteSrc, WriteDst, WriteLen, WriteCmd, RingDoorbell,
           WriteReg, Goto
<1>3. \A u \in Threads \ {t} : CallOf(u)' = CallOf(u)
  BY <1>1, <1>2, CallOutside
<1>4. pc[t] \notin {"idle", "call"} /\ pc'[t] \notin {"idle", "call"} /\ ~TookEffect(t)
  BY <1>1 DEF TookEffect, Lock, MapPage, WriteSrc, WriteDst, WriteLen, WriteCmd,
              RingDoorbell, WriteReg, Goto, IndInv, TypeOK
<1>5. ~TookEffect(t)'
  <2>1. CASE RingDoorbell(t)
    <3>1. pc[t] = "bell" /\ pc[t] \in Critical
      BY <2>1 DEF RingDoorbell, WriteReg, Goto, Critical, PCs
    <3>2. Quiet /\ mapped = {page[t]} /\ Programmed(t)
      BY <3>1, HolderFacts DEF Phase, MappedPages, Programming
    <3>3. Accepted /\ status # "EXECUTING" /\ idx = 0
      BY <3>1, <3>2, DriverDescriptorAccepted
         DEF Programmed, Quiet, IndInv, EngineStatus
    <3>4. aurora_dma_doorbell_ring
      BY <2>1 DEF RingDoorbell, WriteReg, GuestWrite, aurora_write_reg_by_addr, CfgRegs, Regs
    <3>5. dpc' = "copy" /\ idx' = 0 /\ mapped' # {} /\ pc'[t] = "wait"
      BY <2>1, <3>2, <3>3, <3>4
         DEF aurora_dma_doorbell_ring, RingDoorbell, WriteReg, GuestWrite, Goto, kernelVars,
             IndInv, TypeOK
    <3> QED
      BY <3>5 DEF TookEffect, Copied
  <2>2. CASE ~RingDoorbell(t)
    <3>1. pc'[t] \in {"map", "src", "dst", "len", "cmd", "bell"}
      BY <2>2 DEF Lock, MapPage, WriteSrc, WriteDst, WriteLen, WriteCmd, WriteReg, Goto,
                  IndInv, TypeOK
    <3> QED
      BY <3>1 DEF TookEffect
  <2> QED
    BY <2>1, <2>2
<1>6. CallOf(t)' = CallOf(t)
  BY <1>1, <1>4, <1>5 DEF CallOf
<1> QED
  BY <1>1, <1>3, <1>6, Stutter

(* mutex_unlock after a mapping error *)
LEMMA RefFail ==
  ASSUME IndInv, NEW t \in Threads, MapFails(t)
  PROVE  Contract!Fail(t)
<1>1. /\ pc[t] = "map" /\ pc'[t] = "idle" /\ ret' = [ret EXCEPT ![t] = "-ENOMEM"]
      /\ UNCHANGED <<user, buff, dir, page>>
      /\ \A u \in Threads \ {t} : pc'[u] = pc[u]
  BY DEF MapFails, Goto, devVars, IndInv, TypeOK
<1>2. \A u \in Threads \ {t} : pc[u] \notin Critical
  BY <1>1, HolderFacts DEF Critical, PCs
<1>3. \A u \in Threads \ {t} : CallOf(u)' = CallOf(u)
  BY <1>1, <1>2, CallOutside
<1>4. CallOf(t).st = "called"
  BY <1>1 DEF CallOf, TookEffect
<1>5. CallOf(t)' = [st |-> "idle", dir |-> 0, page |-> 0]
  BY <1>1 DEF CallOf
<1>6. [u \in Threads |-> CallOf(u)]' =
        [[u \in Threads |-> CallOf(u)] EXCEPT ![t] =
           [st |-> "idle", dir |-> 0, page |-> 0]]
  BY <1>3, <1>5, OneCallMoves
<1> QED
  BY <1>1, <1>4, <1>6 DEF Contract!Fail, Contract!Idle

(* mutex_unlock after the completion *)
LEMMA RefReturn ==
  ASSUME IndInv, NEW t \in Threads, Unlock(t)
  PROVE  Contract!Return(t)
<1>1. /\ pc[t] = "unlock" /\ pc'[t] = "idle" /\ ret' = [ret EXCEPT ![t] = "0"]
      /\ UNCHANGED <<user, buff, dir, page>>
      /\ \A u \in Threads \ {t} : pc'[u] = pc[u]
  BY DEF Unlock, Goto, devVars, kernelVars, IndInv, TypeOK
<1>2. \A u \in Threads \ {t} : pc[u] \notin Critical
  BY <1>1, HolderFacts DEF Critical, PCs
<1>3. \A u \in Threads \ {t} : CallOf(u)' = CallOf(u)
  BY <1>1, <1>2, CallOutside
<1>4. CallOf(t).st = "done"
  BY <1>1 DEF CallOf, TookEffect
<1>5. CallOf(t)' = [st |-> "idle", dir |-> 0, page |-> 0]
  BY <1>1 DEF CallOf
<1>6. [u \in Threads |-> CallOf(u)]' =
        [[u \in Threads |-> CallOf(u)] EXCEPT ![t] =
           [st |-> "idle", dir |-> 0, page |-> 0]]
  BY <1>3, <1>5, OneCallMoves
<1> QED
  BY <1>1, <1>4, <1>6 DEF Contract!Return, Contract!Idle

LEMMA RefWait ==
  ASSUME IndInv, NEW t \in Threads, WaitForCompletion(t)
  PROVE  UNCHANGED Contract!vars
<1>1. /\ pc[t] = "wait" /\ pc'[t] = "unlock" /\ dma.completion
      /\ UNCHANGED <<ret, user, buff, dir, page>>
      /\ \A u \in Threads \ {t} : pc'[u] = pc[u]
  BY DEF WaitForCompletion, Goto, devVars, kernelVars, IndInv, TypeOK
<1>2. pc[t] \in Critical
  BY <1>1 DEF Critical, PCs
<1>3. \A u \in Threads \ {t} : CallOf(u)' = CallOf(u)
  BY <1>1, <1>2, HolderFacts, CallOutside
<1>4. Completed /\ mapped = {}
  BY <1>1, <1>2, HolderFacts
     DEF Phase, Copying, Raised, Handling, MappedPages, Programming
<1>5. TookEffect(t) /\ TookEffect(t)'
  BY <1>1, <1>4 DEF TookEffect, Copied, Completed, Quiet, IndInv, TypeOK
<1>6. CallOf(t)' = CallOf(t)
  BY <1>1, <1>5 DEF CallOf
<1> QED
  BY <1>1, <1>3, <1>6, Stutter

-----------------------------------------------------------------------------
(* The two instants at which a call takes effect.                          *)

LEMMA RefTransfer ==
  ASSUME IndInv, NEW t \in Threads, mtx = {t}, pc[t] = "wait",
         UNCHANGED <<ret, pc, dir, page>>, ~TookEffect(t), TookEffect(t)',
         \/ dir[t] = TO_DEVICE /\ buff'[0] = user[page[t]] /\ UNCHANGED user
         \/ /\ dir[t] = FROM_DEVICE /\ user' = [user EXCEPT ![page[t]] = buff[0]]
            /\ buff'[0] = buff[0]
  PROVE  Contract!Transfer(t)
<1>1. pc[t] \in Critical
  BY DEF Critical, PCs
<1>2. \A u \in Threads \ {t} : CallOf(u)' = CallOf(u)
  BY <1>1, HolderFacts, CallOutside
<1>3. CallOf(t) = [st |-> "called", dir |-> dir[t], page |-> page[t]]
  BY DEF CallOf
<1>4. CallOf(t)' = [st |-> "done", dir |-> dir[t], page |-> page[t]]
  BY DEF CallOf
<1>5. [u \in Threads |-> CallOf(u)]' =
        [[u \in Threads |-> CallOf(u)] EXCEPT ![t] = CallOf(t)']
  BY <1>2, OneCallMoves
<1>6. CallOf(t)' = [CallOf(t) EXCEPT !.st = "done"]
  BY <1>3, <1>4
<1>7. [u \in Threads |-> CallOf(u)]' =
        [[u \in Threads |-> CallOf(u)] EXCEPT ![t].st = "done"]
  BY <1>5, <1>6
<1> QED
  BY <1>3, <1>7 DEF Contract!Transfer, Contract!TO, Contract!FROM, TO_DEVICE, FROM_DEVICE

(* The engine copies the cell. *)
LEMMA RefCopy ==
  ASSUME IndInv, CopyCell, UNCHANGED drvVars
  PROVE  (\E t \in Threads : Contract!Transfer(t)) \/ UNCHANGED Contract!vars
<1>1. PICK t \in Threads :
           /\ mtx = {t} /\ pc[t] = "wait" /\ Copying /\ mapped = {page[t]}
           /\ idx = 0 /\ idx' = 1
           /\ dir[t] = TO_DEVICE =>
                /\ buff' = [buff EXCEPT ![0] = mem[page[t]]] /\ UNCHANGED mem
           /\ dir[t] = FROM_DEVICE => UNCHANGED buff
  BY CopyEffect
<1>2. UNCHANGED <<ret, pc, dir, page, user, mapped>>
  BY DEF drvVars, threadVars, kernelVars
<1>3. pc[t] \in Critical
  BY <1>1 DEF Critical, PCs
<1>4. CASE dir[t] = TO_DEVICE
  <2>1. ~TookEffect(t) /\ TookEffect(t)'
    BY <1>1, <1>2, <1>4 DEF TookEffect, Copied, Copying, TO_DEVICE, FROM_DEVICE
  <2>2. mem[page[t]] = user[page[t]]
    BY <1>1, <1>3, <1>4, HolderFacts DEF DataMoves, Copied, Copying
  <2>3. 0 \in 0 .. AREA_SIZE - 1
    BY AuroraAssumption
  <2>4. buff'[0] = user[page[t]]
    BY <1>1, <1>4, <2>2, <2>3 DEF IndInv, TypeOK, DevTypeOK, AuroraTypeOK
  <2>5. Contract!Transfer(t)
    BY <1>1, <1>2, <1>4, <2>1, <2>4, RefTransfer
  <2> QED
    BY <1>1, <2>5
<1>5. CASE dir[t] = FROM_DEVICE
  <2>1. ~TookEffect(t) /\ ~TookEffect(t)'
    BY <1>1, <1>2, <1>5 DEF TookEffect, TO_DEVICE, FROM_DEVICE
  <2>2. CallOf(t)' = CallOf(t)
    BY <1>2, <2>1 DEF CallOf
  <2>3. \A u \in Threads \ {t} : CallOf(u)' = CallOf(u)
    BY <1>2, <1>3, HolderFacts, CallOutside
  <2> QED
    BY <1>1, <1>2, <1>5, <2>2, <2>3, Stutter
<1> QED
  BY <1>4, <1>5 DEF IndInv, TypeOK

(* The handler hands the page back. *)
LEMMA RefUnmap ==
  ASSUME IndInv, UnmapPage
  PROVE  (\E t \in Threads : Contract!Transfer(t)) \/ UNCHANGED Contract!vars
<1>1. /\ hpc = "unmap" /\ mapped' = mapped \ {dma.handle}
      /\ UNCHANGED <<ret, pc, dir, page, dpc, idx, buff>>
  BY DEF UnmapPage, HandlerGoto, threadVars, devVars
<1>2. PICK t \in Threads :
           /\ mtx = {t} /\ pc[t] = "wait" /\ Handling
           /\ dma.handle = page[t] /\ dma.direction = dir[t]
           /\ MappedPages(t) /\ DataMoves(t)
  BY <1>1, HandlingFacts
<1>3. mapped = {page[t]} /\ mapped' = {} /\ Copied
  BY <1>1, <1>2 DEF MappedPages, Handling, Completed, Copied
<1>4. pc[t] \in Critical
  BY <1>2 DEF Critical, PCs
<1>5. CASE dir[t] = FROM_DEVICE
  <2>1. ~TookEffect(t) /\ TookEffect(t)'
    BY <1>1, <1>2, <1>3, <1>5 DEF TookEffect, TO_DEVICE, FROM_DEVICE
  <2>2. mem[page[t]] = buff[0]
    BY <1>2, <1>3, <1>5 DEF DataMoves
  <2>3. user' = [user EXCEPT ![page[t]] = buff[0]]
    BY <1>2, <1>5, <2>2 DEF UnmapPage
  <2>4. Contract!Transfer(t)
    BY <1>1, <1>2, <1>5, <2>1, <2>3, RefTransfer
  <2> QED
    BY <1>2, <2>4
<1>6. CASE dir[t] = TO_DEVICE
  <2>1. TookEffect(t) /\ TookEffect(t)'
    BY <1>1, <1>2, <1>3, <1>6 DEF TookEffect, Copied
  <2>2. CallOf(t)' = CallOf(t)
    BY <1>1, <2>1 DEF CallOf
  <2>3. \A u \in Threads \ {t} : CallOf(u)' = CallOf(u)
    BY <1>1, <1>4, HolderFacts, CallOutside
  <2>4. UNCHANGED user
    BY <1>2, <1>6 DEF UnmapPage, TO_DEVICE, FROM_DEVICE
  <2> QED
    BY <1>1, <2>2, <2>3, <2>4, Stutter
<1> QED
  BY <1>5, <1>6 DEF IndInv, TypeOK

(* A step that leaves the threads, the mappings and the copy alone.        *)
LEMMA RefQuiet ==
  ASSUME UNCHANGED <<ret, pc, dir, page, user, mapped, buff>>, Copied' = Copied
  PROVE  UNCHANGED Contract!vars
<1>1. \A t \in Threads : CallOf(t)' = CallOf(t)
  BY DEF CallOf, TookEffect
<1> QED
  BY <1>1, Stutter

LEMMA RefRest ==
  ASSUME IndInv,
         \/ IrqEnter \/ PutPage \/ AckIrq \/ CompleteAll \/ MmapWrite
         \/ RaiseEnded /\ UNCHANGED drvVars
         \/ DoorbellEnd /\ UNCHANGED drvVars
  PROVE  UNCHANGED Contract!vars
<1>1. UNCHANGED <<ret, pc, dir, page, user, mapped, buff>>
  BY DEF IrqEnter, PutPage, AckIrq, CompleteAll, MmapWrite, RaiseEnded, DoorbellEnd,
         GuestWrite, drvVars, threadVars, kernelVars, devVars
<1>2. Copied' = Copied
  <2>1. CASE IrqEnter \/ PutPage \/ CompleteAll
    BY <2>1 DEF IrqEnter, PutPage, CompleteAll, devVars, Copied
  <2>2. CASE AckIrq \/ MmapWrite
    <3>1. UNCHANGED <<dpc, idx>>
      BY <2>2 DEF AckIrq, MmapWrite, GuestWrite, aurora_write_reg_by_addr, dmaVars, Regs,
                  CfgRegs
    <3> QED
      BY <3>1 DEF Copied
  <2>3. CASE DoorbellEnd
    BY <2>3 DEF DoorbellEnd, Copied
  <2>4. CASE RaiseEnded
    <3>1. dpc = "copy" /\ dpc' = "end"
      BY <2>4 DEF RaiseEnded
    <3>2. PICK t \in Threads : mtx = {t} /\ pc[t] = "wait"
      BY <3>1, WaitingHolder DEF Quiet
    <3>3. cfg.len = 1
      BY <3>2, HolderFacts DEF Programmed, Critical, PCs
    <3>4. idx # 0
      BY <2>4, <3>3 DEF RaiseEnded
    <3> QED
      BY <3>1, <3>4 DEF Copied
  <2> QED
    BY <2>1, <2>2, <2>3, <2>4
<1> QED
  BY <1>1, <1>2, RefQuiet

LEMMA RefReboot ==
  ASSUME Reboot
  PROVE  Contract!Reset
<1>1. \A t \in Threads : CallOf(t)' = [st |-> "idle", dir |-> 0, page |-> 0]
  BY DEF Reboot, CallOf
<1>2. 0 \in 0 .. AREA_SIZE - 1
  BY AuroraAssumption
<1>3. buff'[0] = 0
  BY <1>2 DEF Reboot, ResetDevice, aurora_backend_reset, ZeroBuff
<1> QED
  BY <1>1, <1>3 DEF Reboot, Contract!Reset, Contract!Idle

LEMMA RefNext ==
  ASSUME IndInv, [Next]_vars
  PROVE  [Contract!Next]_Contract!vars
<1>1. ASSUME NEW t \in Threads, NEW d, NEW p, Ioctl(t, d, p) \/ Lock(t) \/ ThreadStep(t)
      PROVE  Contract!Next \/ UNCHANGED Contract!vars
  <2>1. CASE CallDma(t)
    BY <2>1, RefCall DEF Contract!Next
  <2>2. CASE MapFails(t)
    BY <2>2, RefFail DEF Contract!Next, Contract!Finish
  <2>3. CASE Unlock(t)
    BY <2>3, RefReturn DEF Contract!Next, Contract!Finish
  <2> QED
    BY <1>1, <2>1, <2>2, <2>3, RefIoctl, RefProgram, RefWait DEF ThreadStep
<1>2. CASE HandlerStep \/ MmapWrite
  BY <1>2, RefUnmap, RefRest DEF HandlerStep, Contract!Next, Contract!Finish
<1>3. CASE DeviceWorks
  BY <1>3, RefCopy, RefRest DEF DeviceWorks, DoorbellStep, Contract!Next, Contract!Finish
<1>4. CASE Reboot
  BY <1>4, RefReboot DEF Contract!Next
<1>5. CASE UNCHANGED vars
  <2>1. UNCHANGED <<ret, pc, dir, page, user, mapped, buff>> /\ Copied' = Copied
    BY <1>5 DEF vars, devVars, drvVars, threadVars, kernelVars, Copied
  <2> QED
    BY <2>1, RefQuiet
<1> QED
  BY <1>1, <1>2, <1>3, <1>4, <1>5 DEF Next

-----------------------------------------------------------------------------
(* Every call of pciemu_dma_from_host_to_device and                        *)
(* pciemu_dma_from_device_to_host takes effect at one instant and returns  *)
(* 0 only after it, or fails with no effect: the driver, its handler and   *)
(* the device implement DmaCall's safety part, whatever the interleaving.  *)
THEOREM DriverImplementsDmaCall == Spec => ImplementsDmaCall
<1>1. IndInv /\ [Next]_vars => [Contract!Next]_Contract!vars
  BY RefNext
<1> QED
  BY <1>1, RefInit, IndInvHolds, PTL DEF Spec, ImplementsDmaCall, Contract!Spec
=============================================================================
