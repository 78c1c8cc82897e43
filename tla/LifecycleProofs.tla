--------------------------- MODULE LifecycleProofs ---------------------------
(***************************************************************************)
(* What the driver's coming and going guarantees, for devices with any     *)
(* capabilities.                                                           *)
(***************************************************************************)
EXTENDS Lifecycle, TLAPS

(* The inductive part of LifeInv. *)
Stages == TypeOK /\ HeldByStage /\ StageState

(* Before the module is loaded nothing is held. *)
LEMMA StagesInit == Init => Stages
  <1> USE LifeAssumption
  <1> SUFFICES ASSUME Init PROVE Stages
    OBVIOUS
  <1>1. TypeOK
    BY DEF Init, TypeOK, PCs, Resources, Bars
  <1>2. HeldByStage /\ StageState
    BY DEF Init, HeldByStage, StageState, Bars
  <1> QED
    BY <1>1, <1>2 DEF Stages

(* The steps that probe and remove are made of keep the types. *)
LEMMA AcquireType ==
  ASSUME TypeOK, NEW from, NEW r \in Resources, NEW to \in PCs, Acquire(from, r, to)
  PROVE  TypeOK'
  <1>1. held' \in SUBSET Resources /\ ppc' \in PCs /\ err' \in {0, -1}
    BY DEF TypeOK, Acquire, Step
  <1> QED
    BY <1>1 DEF TypeOK, Acquire, devVars, useVars

LEMMA FailsType ==
  ASSUME TypeOK, NEW from, NEW lost, NEW label \in PCs, Fails(from, lost, label)
  PROVE  TypeOK'
  <1>1. held' \in SUBSET Resources /\ ppc' \in PCs /\ err' \in {0, -1}
    BY DEF TypeOK, Fails, Step
  <1>2. pending' \in BOOLEAN
    BY DEF TypeOK, Fails
  <1> QED
    BY <1>1, <1>2 DEF TypeOK, Fails, devVars

LEMMA CleanType ==
  ASSUME NEW ptrs \in [Bars -> {"null", "wild", "mapped", "unmapped"}]
  PROVE  pciemu_dev_clean(ptrs) \in [Bars -> {"null", "wild", "mapped", "unmapped"}]
  BY DEF pciemu_dev_clean

LEMMA MapType ==
  ASSUME TypeOK, NEW from, NEW bar \in Bars, NEW to \in PCs,
         MapBar(from, bar, to) \/ MapFails(from, bar, to)
  PROVE  TypeOK'
  <1>1. held' \in SUBSET Resources /\ ppc' \in PCs /\ err' \in {0, -1}
    BY DEF TypeOK, MapBar, MapFails, Step, Resources
  <1>2. mmio' \in [Bars -> {"null", "wild", "mapped", "unmapped"}]
    BY CleanType DEF TypeOK, MapBar, MapFails
  <1> QED
    BY <1>1, <1>2 DEF TypeOK, MapBar, MapFails, useVars

LEMMA ReleaseType ==
  ASSUME TypeOK, NEW from, NEW rs, NEW to \in PCs, Release(from, rs, to)
  PROVE  TypeOK'
  <1>1. held' \in SUBSET Resources /\ ppc' \in PCs
    BY DEF TypeOK, Release, Step
  <1>2. mmio' \in [Bars -> {"null", "wild", "mapped", "unmapped"}]
    BY CleanType DEF TypeOK, Release
  <1>3. file' \in {"none", "open", "stale"}
    BY DEF TypeOK, Release
  <1> QED
    BY <1>1, <1>2, <1>3 DEF TypeOK, Release

(* Every call, label and event leads from one stage to another. *)
LEMMA StagesStep == Stages /\ [Next]_vars => Stages'
  <1> SUFFICES ASSUME Stages, [Next]_vars PROVE Stages'
    OBVIOUS
  <1> USE DEF Stages, devVars, useVars
  <1>1. CASE CreateClass
    <2>1. TypeOK'
      BY <1>1 DEF CreateClass, Module, TypeOK, PCs, Resources, Bars
    <2>2. HeldByStage'
      BY <1>1 DEF CreateClass, Module, TypeOK, HeldByStage, Claimed, Complete, Resources, Bars
    <2>3. StageState'
      BY <1>1 DEF CreateClass, Module, TypeOK, HeldByStage, StageState, Claimed, Complete, Resources, Bars
    <2> QED
      BY <2>1, <2>2, <2>3
  <1>2. CASE RegisterDriver
    <2>1. TypeOK'
      BY <1>2 DEF RegisterDriver, Module, TypeOK, PCs, Resources, Bars
    <2>2. HeldByStage'
      BY <1>2 DEF RegisterDriver, Module, TypeOK, HeldByStage, Claimed, Complete, Resources, Bars
    <2>3. StageState'
      BY <1>2 DEF RegisterDriver, Module, TypeOK, HeldByStage, StageState, Claimed, Complete, Resources, Bars
    <2> QED
      BY <2>1, <2>2, <2>3
  <1>3. CASE RegisterFails
    <2>1. TypeOK'
      BY <1>3 DEF RegisterFails, Module, TypeOK, PCs, Resources, Bars
    <2>2. HeldByStage'
      BY <1>3 DEF RegisterFails, Module, TypeOK, HeldByStage, Claimed, Complete, Resources, Bars
    <2>3. StageState'
      BY <1>3 DEF RegisterFails, Module, TypeOK, HeldByStage, StageState, Claimed, Complete, Resources, Bars
    <2> QED
      BY <2>1, <2>2, <2>3
  <1>4. CASE UnregisterDriver
    <2>1. TypeOK'
      BY <1>4 DEF UnregisterDriver, Module, TypeOK, PCs, Resources, Bars
    <2>2. HeldByStage'
      BY <1>4 DEF UnregisterDriver, Module, TypeOK, HeldByStage, Claimed, Complete, Resources, Bars
    <2>3. StageState'
      BY <1>4 DEF UnregisterDriver, Module, TypeOK, HeldByStage, StageState, Claimed, Complete, Resources, Bars
    <2> QED
      BY <2>1, <2>2, <2>3
  <1>5. CASE DestroyClass
    <2>1. TypeOK'
      BY <1>5 DEF DestroyClass, Module, TypeOK, PCs, Resources, Bars
    <2>2. HeldByStage'
      BY <1>5 DEF DestroyClass, Module, TypeOK, HeldByStage, Claimed, Complete, Resources, Bars
    <2>3. StageState'
      BY <1>5 DEF DestroyClass, Module, TypeOK, HeldByStage, StageState, Claimed, Complete, Resources, Bars
    <2> QED
      BY <2>1, <2>2, <2>3
  <1>6. CASE AllocDev
    <2>1. TypeOK'
      BY <1>6 DEF AllocDev, Step, TypeOK, PCs, Resources, Bars
    <2>2. HeldByStage'
      BY <1>6 DEF AllocDev, Step, TypeOK, HeldByStage, Claimed, Complete, Resources, Bars
    <2>3. StageState'
      BY <1>6 DEF AllocDev, Step, TypeOK, HeldByStage, StageState, Claimed, Complete, Resources, Bars
    <2> QED
      BY <2>1, <2>2, <2>3
  <1>7. CASE AllocFails
    <2>1. TypeOK'
      BY <1>7 DEF AllocFails, Fails, Step, TypeOK, PCs, Resources, Bars
    <2>2. HeldByStage'
      BY <1>7 DEF AllocFails, Fails, Step, TypeOK, HeldByStage, Claimed, Complete, Resources, Bars
    <2>3. StageState'
      BY <1>7 DEF AllocFails, Fails, Step, TypeOK, HeldByStage, StageState, Claimed, Complete, Resources, Bars
    <2> QED
      BY <2>1, <2>2, <2>3
  <1>8. CASE EnableDevice
    <2>1. TypeOK'
      BY <1>8 DEF EnableDevice, Acquire, Fails, Step, TypeOK, PCs, Resources, Bars
    <2>2. HeldByStage'
      BY <1>8 DEF EnableDevice, Acquire, Fails, Step, TypeOK, HeldByStage, Claimed, Complete, Resources, Bars
    <2>3. StageState'
      BY <1>8 DEF EnableDevice, Acquire, Fails, Step, TypeOK, HeldByStage, StageState, Claimed, Complete, Resources, Bars
    <2> QED
      BY <2>1, <2>2, <2>3
  <1>9. CASE SetMask
    <2>1. TypeOK'
      BY <1>9 DEF SetMask, Acquire, Fails, Step, TypeOK, PCs, Resources, Bars
    <2>2. HeldByStage'
      BY <1>9 DEF SetMask, Acquire, Fails, Step, TypeOK, HeldByStage, Claimed, Complete, Resources, Bars
    <2>3. StageState'
      BY <1>9 DEF SetMask, Acquire, Fails, Step, TypeOK, HeldByStage, StageState, Claimed, Complete, Resources, Bars
    <2> QED
      BY <2>1, <2>2, <2>3
  <1>10. CASE SelectBars
    <2>1. TypeOK'
      BY <1>10 DEF SelectBars, Step, TypeOK, PCs, Resources, Bars
    <2>2. HeldByStage'
      BY <1>10 DEF SelectBars, Step, TypeOK, HeldByStage, Claimed, Complete, Resources, Bars
    <2>3. StageState'
      BY <1>10 DEF SelectBars, Step, TypeOK, HeldByStage, StageState, Claimed, Complete, Resources, Bars
    <2> QED
      BY <2>1, <2>2, <2>3
  <1>11. CASE RequestRegions
    <2>1. TypeOK'
      BY <1>11 DEF RequestRegions, Acquire, Fails, Step, TypeOK, PCs, Resources, Bars
    <2>2. HeldByStage'
      BY <1>11 DEF RequestRegions, Acquire, Fails, Step, TypeOK, HeldByStage, Claimed, Complete, Resources, Bars
    <2>3. StageState'
      BY <1>11 DEF RequestRegions, Acquire, Fails, Step, TypeOK, HeldByStage, StageState, Claimed, Complete, Resources, Bars
    <2> QED
      BY <2>1, <2>2, <2>3
  <1>12. CASE DevInit
    <2>1. TypeOK'
      BY <1>12, MapType DEF DevInit, PCs, Bars
    <2>2. HeldByStage'
      BY <1>12 DEF DevInit, MapBar, MapFails, pciemu_dev_clean, Step, TypeOK, HeldByStage, Claimed, Complete, Resources, Bars
    <2>3. StageState'
      BY <1>12 DEF DevInit, MapBar, MapFails, pciemu_dev_clean, Step, TypeOK, HeldByStage, StageState, Claimed, Complete, Resources, Bars
    <2> QED
      BY <2>1, <2>2, <2>3
  <1>13. CASE AddDevice
    <2>1. TypeOK'
      BY <1>13, AcquireType, FailsType DEF AddDevice, PCs, Resources
    <2>2. HeldByStage'
      BY <1>13 DEF AddDevice, Acquire, Fails, Step, TypeOK, HeldByStage, Claimed, Complete, Resources, Bars
    <2>3. StageState'
      BY <1>13 DEF AddDevice, Acquire, Fails, Step, TypeOK, HeldByStage, StageState, Claimed, Complete, Resources, Bars
    <2> QED
      BY <2>1, <2>2, <2>3
  <1>14. CASE IrqEnable
    <2>1. TypeOK'
      <3>1. CASE Step("vectors", "mutex") /\ err' = 0
                   /\ UNCHANGED <<mod, held, caps, devVars, useVars>>
        BY <3>1 DEF TypeOK, Step, PCs
      <3> QED
        BY <1>14, <3>1, AcquireType, FailsType DEF IrqEnable, PCs, Resources
    <2>2. HeldByStage'
      BY <1>14 DEF IrqEnable, Acquire, Fails, Step, TypeOK, HeldByStage, Claimed, Complete, Resources, Bars
    <2>3. StageState'
      BY <1>14 DEF IrqEnable, Acquire, Fails, Step, TypeOK, HeldByStage, StageState, Claimed, Complete, Resources, Bars
    <2> QED
      BY <2>1, <2>2, <2>3
  <1>15. CASE SetAck
    <2>1. TypeOK'
      BY <1>15 DEF SetAck, Step, TypeOK, PCs, Resources, Bars
    <2>2. HeldByStage'
      BY <1>15 DEF SetAck, Step, TypeOK, HeldByStage, Claimed, Complete, Resources, Bars
    <2>3. StageState'
      BY <1>15 DEF SetAck, Step, TypeOK, HeldByStage, StageState, Claimed, Complete, Resources, Bars
    <2> QED
      BY <2>1, <2>2, <2>3
  <1>16. CASE InitMutex
    <2>1. TypeOK'
      BY <1>16 DEF InitMutex, Step, TypeOK, PCs, Resources, Bars
    <2>2. HeldByStage'
      BY <1>16 DEF InitMutex, Step, TypeOK, HeldByStage, Claimed, Complete, Resources, Bars
    <2>3. StageState'
      BY <1>16 DEF InitMutex, Step, TypeOK, HeldByStage, StageState, Claimed, Complete, Resources, Bars
    <2> QED
      BY <2>1, <2>2, <2>3
  <1>17. CASE Unwind
    <2>1. TypeOK'
      BY <1>17, ReleaseType DEF Unwind, PCs
    <2>2. HeldByStage'
      BY <1>17 DEF Unwind, Release, pciemu_dev_clean, Step, TypeOK, HeldByStage, Claimed, Complete, Resources, Bars
    <2>3. StageState'
      BY <1>17 DEF Unwind, Release, pciemu_dev_clean, Step, TypeOK, HeldByStage, StageState, Claimed, Complete, Resources, Bars
    <2> QED
      BY <2>1, <2>2, <2>3
  <1>18. CASE ReturnError
    <2>1. TypeOK'
      BY <1>18 DEF ReturnError, Step, TypeOK, PCs, Resources, Bars
    <2>2. HeldByStage'
      BY <1>18 DEF ReturnError, Step, TypeOK, HeldByStage, Claimed, Complete, Resources, Bars
    <2>3. StageState'
      BY <1>18 DEF ReturnError, Step, TypeOK, HeldByStage, StageState, Claimed, Complete, Resources, Bars
    <2> QED
      BY <2>1, <2>2, <2>3
  <1>19. CASE Remove
    <2>1. TypeOK'
      BY <1>19, ReleaseType DEF Remove, PCs
    <2>2. HeldByStage'
      BY <1>19 DEF Remove, Release, pciemu_dev_clean, Step, TypeOK, HeldByStage, Claimed, Complete, Resources, Bars
    <2>3. StageState'
      BY <1>19 DEF Remove, Release, pciemu_dev_clean, Step, TypeOK, HeldByStage, StageState, Claimed, Complete, Resources, Bars
    <2> QED
      BY <2>1, <2>2, <2>3
  <1>20. CASE FreeIrq
    <2>1. TypeOK'
      BY <1>20 DEF FreeIrq, Step, TypeOK, PCs, Resources, Bars
    <2>2. HeldByStage'
      BY <1>20 DEF FreeIrq, Step, TypeOK, HeldByStage, Claimed, Complete, Resources, Bars
    <2>3. StageState'
      BY <1>20 DEF FreeIrq, Step, TypeOK, HeldByStage, StageState, Claimed, Complete, Resources, Bars
    <2> QED
      BY <2>1, <2>2, <2>3
  <1>21. CASE OpenNode
    <2>1. TypeOK'
      BY <1>21 DEF OpenNode, TypeOK, PCs, Resources, Bars
    <2>2. HeldByStage'
      BY <1>21 DEF OpenNode, TypeOK, HeldByStage, Claimed, Complete, Resources, Bars
    <2>3. StageState'
      BY <1>21 DEF OpenNode, TypeOK, HeldByStage, StageState, Claimed, Complete, Resources, Bars
    <2> QED
      BY <2>1, <2>2, <2>3
  <1>22. CASE CloseNode
    <2>1. TypeOK'
      BY <1>22 DEF CloseNode, TypeOK, PCs, Resources, Bars
    <2>2. HeldByStage'
      BY <1>22 DEF CloseNode, TypeOK, HeldByStage, Claimed, Complete, Resources, Bars
    <2>3. StageState'
      BY <1>22 DEF CloseNode, TypeOK, HeldByStage, StageState, Claimed, Complete, Resources, Bars
    <2> QED
      BY <2>1, <2>2, <2>3
  <1>23. CASE TransferEnds
    <2>1. TypeOK'
      BY <1>23 DEF TransferEnds, TypeOK, PCs, Resources, Bars
    <2>2. HeldByStage'
      BY <1>23 DEF TransferEnds, TypeOK, HeldByStage, Claimed, Complete, Resources, Bars
    <2>3. StageState'
      BY <1>23 DEF TransferEnds, TypeOK, HeldByStage, StageState, Claimed, Complete, Resources, Bars
    <2> QED
      BY <2>1, <2>2, <2>3
  <1>24. CASE HandlerRuns
    <2>1. TypeOK'
      <3>1. acked' \in {"device", "lost"} /\ pending' \in BOOLEAN
        BY <1>24 DEF HandlerRuns
      <3> QED
        BY <1>24, <3>1 DEF HandlerRuns, TypeOK
    <2>2. HeldByStage'
      BY <1>24 DEF HandlerRuns, TypeOK, HeldByStage, Claimed, Complete, Resources, Bars
    <2>3. StageState'
      BY <1>24 DEF HandlerRuns, TypeOK, HeldByStage, StageState, Claimed, Complete, Resources, Bars
    <2> QED
      BY <2>1, <2>2, <2>3
  <1>25. CASE Reboot
    <2>1. TypeOK'
      BY <1>25 DEF Reboot, TypeOK, PCs, Resources, Bars
    <2>2. HeldByStage'
      BY <1>25 DEF Reboot, TypeOK, HeldByStage, Claimed, Complete, Resources, Bars
    <2>3. StageState'
      BY <1>25 DEF Reboot, TypeOK, HeldByStage, StageState, Claimed, Complete, Resources, Bars
    <2> QED
      BY <2>1, <2>2, <2>3
  <1>26. CASE UNCHANGED vars
    BY <1>26 DEF vars, TypeOK, HeldByStage, StageState, Claimed, Complete
  <1> QED
    BY <1>1, <1>2, <1>3, <1>4, <1>5, <1>6, <1>7, <1>8, <1>9, <1>10, <1>11, <1>12, <1>13, <1>14, <1>15, <1>16, <1>17, <1>18, <1>19, <1>20, <1>21, <1>22, <1>23, <1>24, <1>25, <1>26 DEF Next

(* What is held at any stage rests on what is held there. *)
LEMMA StagesClosed == Stages => HeldIsClosed
  <1> SUFFICES ASSUME Stages PROVE HeldIsClosed
    OBVIOUS
  <1>1. "node" \in held => mod \in {"in", "leaving"}
    BY DEF Stages, HeldByStage, StageState
  <1>2. ASSUME NEW r \in held PROVE Needs(r) \subseteq held
    BY <1>2 DEF Stages, TypeOK, PCs, HeldByStage, Claimed, Complete, Resources, Bars, Needs
  <1> QED
    BY <1>1, <1>2 DEF HeldIsClosed

-----------------------------------------------------------------------------
(* At every call of pciemu_probe and pciemu_remove and at every label,     *)
(* exactly the resources acquired so far are held, and each rests on ones  *)
(* that are held (pciemu_module.c:155-314).                                *)
THEOREM LifeInvHolds == Spec => []LifeInv
  <1>1. Stages => LifeInv
    BY StagesClosed DEF Stages, LifeInv
  <1> QED
    BY StagesInit, StagesStep, <1>1, PTL DEF Spec

(* A failed probe and a remove leave nothing acquired                      *)
(* (pciemu_module.c:264-314).                                              *)
THEOREM NothingLeft == Spec => []NothingHeldUnbound
  <1>1. LifeInv => NothingHeldUnbound
    BY DEF LifeInv, HeldByStage, NothingHeldUnbound
  <1> QED
    BY LifeInvHolds, <1>1, PTL

(* A bound device with MSI-X or MSI has all that an ioctl needs            *)
(* (pciemu_module.c:251-262, pciemu_irq.c:136-143).                        *)
THEOREM BoundReady == Spec => []BoundIsReady
  <1>1. LifeInv => BoundIsReady
    BY DEF LifeInv, HeldByStage, StageState, Complete, BoundIsReady
  <1> QED
    BY LifeInvHolds, <1>1, PTL

(* pciemu_dev_clean is given mapped BARs only, wherever probe and remove   *)
(* call it themselves (pciemu_module.c:275-278, 305).                      *)
THEOREM UnmapsMapped == Spec => []UnmapsOnlyMapped
  <1>1. LifeInv => UnmapsOnlyMapped
    BY DEF LifeInv, HeldByStage, StageState, Complete, Claimed, Resources, Bars, UnmapsOnlyMapped
  <1> QED
    BY LifeInvHolds, <1>1, PTL

(* A message is sent only by a bus master with vectors, and there the      *)
(* handler is in place or about to be requested.                           *)
LEMMA SenderHasHandler ==
  ASSUME Stages, {"master", "vectors"} \subseteq held
  PROVE  "irq" \in held \/ ppc = "request_irq"
  BY DEF Stages, TypeOK, PCs, HeldByStage, Claimed, Complete, Resources, Bars

(* Of the steps of probe and remove only free_irq takes the handler away,  *)
(* and only request_irq ends the window before it.                         *)
LEMMA HandlerKept ==
  ASSUME Stages, MessageFindsHandler, [Next]_vars
  PROVE  MessageFindsHandler'
  <1> USE DEF MessageFindsHandler, devVars, useVars
  <1>1. CASE CreateClass \/ RegisterDriver \/ RegisterFails \/ UnregisterDriver \/ DestroyClass
    BY <1>1 DEF CreateClass, RegisterDriver, RegisterFails, UnregisterDriver, DestroyClass, Module
  <1>2. CASE AllocDev \/ AllocFails \/ EnableDevice \/ SetMask \/ SelectBars \/ RequestRegions
    BY <1>2 DEF AllocDev, AllocFails, EnableDevice, SetMask, SelectBars, RequestRegions,
                Acquire, Fails, Step
  <1>3. CASE DevInit \/ AddDevice
    BY <1>3 DEF DevInit, AddDevice, MapBar, MapFails, Acquire, Fails, Step, Bars
  <1>4. CASE IrqEnable
    BY <1>4 DEF IrqEnable, Acquire, Fails, Step
  <1>5. CASE SetAck \/ InitMutex \/ ReturnError
    BY <1>5 DEF SetAck, InitMutex, ReturnError, Step
  <1>6. ASSUME NEW from, NEW rs, NEW to, "irq" \notin rs, from # "request_irq",
               Release(from, rs, to)
        PROVE  MessageFindsHandler'
    BY <1>6 DEF Release, Step
  <1>7. CASE Unwind \/ Remove
    BY <1>6, <1>7 DEF Unwind, Remove, Bars
  <1>8. CASE FreeIrq \/ OpenNode \/ CloseNode \/ HandlerRuns \/ Reboot
    BY <1>8 DEF FreeIrq, OpenNode, CloseNode, HandlerRuns, Reboot
  <1>9. CASE TransferEnds
    BY <1>9, SenderHasHandler DEF TransferEnds
  <1>10. CASE UNCHANGED vars
    BY <1>10 DEF vars
  <1> QED
    BY <1>1, <1>2, <1>3, <1>4, <1>5, <1>7, <1>8, <1>9, <1>10 DEF Next

(* Whatever programs do while pciemu_remove runs, no message is under way  *)
(* once free_irq is over: bus mastering is cleared before it               *)
(* (pciemu_module.c:305-308).                                              *)
THEOREM MessageHandled == Spec => []MessageFindsHandler
  <1>1. Init => MessageFindsHandler
    BY DEF Init, MessageFindsHandler
  <1>2. Stages /\ MessageFindsHandler /\ [Next]_vars => MessageFindsHandler'
    BY HandlerKept
  <1> QED
    BY <1>1, <1>2, StagesInit, StagesStep, PTL DEF Spec
=============================================================================
