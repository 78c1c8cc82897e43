------------------------- MODULE PciemuExampleProofs -------------------------
(***************************************************************************)
(* The example program: which bytes its ioctls transfer, what happens to   *)
(* the value it sends, and which device it opens.                          *)
(***************************************************************************)
EXTENDS PciemuExample, DmaDriverRefines, SequenceTheorems

-----------------------------------------------------------------------------
(* The span of a transfer, for every address and every size of a page and  *)
(* of an int: a quotient and a remainder determine each other.             *)

(* Where the transfer starts, and how much of the page is left. *)
LEMMA SpanBounds ==
  ASSUME NEW addr \in Nat
  PROVE  /\ PageOf(addr) \in Nat /\ SpanOfs(addr) \in 0 .. PAGE_SIZE - 1
         /\ addr = PageOf(addr) * PAGE_SIZE + SpanOfs(addr)
         /\ SpanLen(addr) \in 1 .. INT_SIZE
         /\ SpanLen(addr) <= PAGE_SIZE - SpanOfs(addr)
  <1>1. /\ PageOf(addr) \in Nat /\ SpanOfs(addr) \in 0 .. PAGE_SIZE - 1
        /\ addr = PageOf(addr) * PAGE_SIZE + SpanOfs(addr)
    BY SpanAssumption, DivMod DEF PageOf, SpanOfs
  <1> QED
    BY <1>1, SpanAssumption DEF SpanLen

(* Of the int at any address, an ioctl transfers exactly the bytes that    *)
(* lie in the page it pins, and all of an aligned int                      *)
(* (pciemu_module.c:52-56).                                                *)
THEOREM SpanExact == SpansExact
  <1> SUFFICES ASSUME NEW addr \in Nat PROVE SpanIsExact(addr)
    BY SpanAssumption DEF SpansExact
  <1> DEFINE q == PageOf(addr)
             ofs == SpanOfs(addr)
             len == SpanLen(addr)
             int == addr .. addr + INT_SIZE - 1
  <1>1. /\ q \in Nat /\ ofs \in 0 .. PAGE_SIZE - 1 /\ addr = q * PAGE_SIZE + ofs
        /\ len \in 1 .. INT_SIZE /\ len <= PAGE_SIZE - ofs
    BY SpanBounds
  <1>2. SpanBytes(addr) = addr .. addr + len - 1
    BY <1>1 DEF SpanBytes
  <1>3. ASSUME NEW b \in addr .. addr + len - 1
        PROVE  b \in int /\ PageOf(b) = q
    <2> DEFINE r == ofs + (b - addr)
    <2>1. b \in Nat /\ b \in int
      BY <1>1, SpanAssumption
    <2>2. PageOf(b) \in Nat /\ SpanOfs(b) \in 0 .. PAGE_SIZE - 1
          /\ b = PageOf(b) * PAGE_SIZE + SpanOfs(b)
      BY <2>1, SpanBounds
    <2>3. r \in 0 .. PAGE_SIZE - 1
      <3> HIDE DEF q, ofs, len
      <3>1. b - addr \in 0 .. len - 1
        BY <1>1
      <3> QED
        BY <1>1, <3>1, SpanAssumption
    <2>4. q * PAGE_SIZE \in Nat
      BY <1>1, SpanAssumption
    <2>5. b = q * PAGE_SIZE + r
      BY <1>1, <2>4
    <2> HIDE DEF q, r, ofs
    <2>6. PageOf(b) = q
      <3>1. PageOf(b) \in Int /\ q \in Int /\ PAGE_SIZE \in Nat \ {0}
        BY <1>1, <2>2, SpanAssumption
      <3>2. PageOf(b) * PAGE_SIZE + SpanOfs(b) = q * PAGE_SIZE + r
        BY <2>2, <2>5, Zenon
      <3> QED
        BY <3>1, <3>2, <2>2, <2>3, OneQuotient, Zenon
    <2> QED
      BY <2>1, <2>6
  <1>4. ASSUME NEW b \in int, PageOf(b) = q
        PROVE  b \in addr .. addr + len - 1
    <2>1. b \in Nat
      BY SpanAssumption
    <2>2. SpanOfs(b) \in 0 .. PAGE_SIZE - 1 /\ b = q * PAGE_SIZE + SpanOfs(b)
      BY <2>1, <1>4, SpanBounds
    <2>3. q * PAGE_SIZE \in Nat
      BY <1>1, SpanAssumption
    <2>4. b - addr < PAGE_SIZE - ofs
      BY <1>1, <2>2, <2>3, SpanAssumption
    <2> QED
      BY <1>1, <2>1, <2>4, SpanAssumption DEF SpanLen
  <1>5. SpanBytes(addr) = {b \in int : PageOf(b) = q}
    <2> HIDE DEF q, len, int
    <2> QED
      BY <1>2, <1>3, <1>4
  <1>6. ASSUME PAGE_SIZE % INT_SIZE = 0, addr % INT_SIZE = 0
        PROVE  len = INT_SIZE
    <2> DEFINE pages == PAGE_SIZE \div INT_SIZE
               ints == addr \div INT_SIZE
               m == ints - q * pages
    <2>1. pages \in Nat /\ PAGE_SIZE = pages * INT_SIZE
      BY <1>6, SpanAssumption, Multiple
    <2>2. ints \in Nat /\ addr = ints * INT_SIZE
      BY <1>6, SpanAssumption, Multiple
    <2> HIDE DEF pages, ints, q, ofs, len
    <2>3. m \in Int
      BY <1>1, <2>1, <2>2
    <2>4. q * PAGE_SIZE = (q * pages) * INT_SIZE
      BY <1>1, <2>1, SpanAssumption
    <2>5. m * INT_SIZE = ints * INT_SIZE - (q * pages) * INT_SIZE
      BY <1>1, <2>1, <2>2, SpanAssumption
    <2>6. ofs = m * INT_SIZE
      BY <1>1, <2>1, <2>2, <2>3, <2>4, <2>5, SpanAssumption
    <2>7. m * INT_SIZE < pages * INT_SIZE
      BY <1>1, <2>1, <2>6, SpanAssumption
    <2> HIDE DEF m
    <2>8. m * INT_SIZE + INT_SIZE <= pages * INT_SIZE
      BY <2>1, <2>3, <2>7, NextMultiple, SpanAssumption
    <2>9. ofs + INT_SIZE <= PAGE_SIZE
      BY <2>1, <2>6, <2>8
    <2> QED
      BY <1>1, <2>9, SpanAssumption DEF len, ofs, SpanLen
  <1> QED
    BY <1>5, <1>6 DEF SpanIsExact

-----------------------------------------------------------------------------
(* The program, for any number of processes.                               *)

LEMMA ExTypeInit == ExInit => ExTypeOK
BY DEF ExInit, ExTypeOK

(* A step that changes no more than where one process is. *)
LEMMA ProgramStepType ==
  ASSUME ExTypeOK, NEW t \in Threads, NEW from, NEW to, Program(t, from, to),
         to \in {"open", "mmap", "write", "to", "from", "compare", "success", "failure",
                "elsewhere"},
         to \in {"open", "mmap", "write"} => InRange(args[t]),
         UNCHANGED <<args, opened>>, stores' \in [Threads -> Nat]
  PROVE  ExTypeOK'
<1>1. epc'[t] = to /\ \A u \in Threads \ {t} : epc'[u] = epc[u]
  BY DEF Program, ExTypeOK
<1>2. \A u \in Threads : /\ InRange(args[u])' <=> InRange(args[u])
                         /\ Named(u)' = Named(u)
  BY DEF Named
<1> QED
  BY <1>1, <1>2 DEF ExTypeOK, Program

LEMMA ExTypeStep ==
  ASSUME ExTypeOK, [ExNext]_exVars
  PROVE  ExTypeOK'
<1>1. ASSUME NEW t \in Threads, main(t)
      PROVE  ExTypeOK'
  <2>0. stores \in [Threads -> Nat]
    BY DEF ExTypeOK
  <2>1. CASE parse_args(t)
    BY <2>0, <2>1, ProgramStepType DEF parse_args, progVars
  <2>2. CASE open_pciemu_dev(t)
    <3>1. CASE opened' = opened /\ Program(t, "open", "failure")
      BY <2>0, <2>2, <3>1, ProgramStepType DEF open_pciemu_dev
    <3>2. CASE /\ opened' = [opened EXCEPT ![t] = Named(t)]
               /\ Program(t, "open", IF This \in Named(t) THEN "mmap" ELSE "elsewhere")
      <4>1. /\ epc[t] = "open" /\ epc'[t] \in {"mmap", "elsewhere"}
            /\ \A u \in Threads \ {t} : epc'[u] = epc[u] /\ opened'[u] = opened[u]
            /\ opened'[t] = Named(t) /\ UNCHANGED <<args, stores>>
        BY <2>2, <3>2 DEF Program, open_pciemu_dev, ExTypeOK
      <4>2. \A u \in Threads : /\ InRange(args[u])' <=> InRange(args[u])
                               /\ Named(u)' = Named(u)
        BY <4>1 DEF Named
      <4>3. Named(t) \in SUBSET Devices
        BY DEF Named
      <4> QED
        BY <3>2, <4>1, <4>2, <4>3 DEF ExTypeOK, Program
    <3> QED
      BY <2>2, <3>1, <3>2 DEF open_pciemu_dev
  <2>3. CASE mmap_pciemu_bar(t)
    <3>1. InRange(args[t])
      BY <2>3 DEF mmap_pciemu_bar, Program, ExTypeOK
    <3> QED
      BY <2>0, <2>3, <3>1, ProgramStepType DEF mmap_pciemu_bar, progVars
  <2>4. CASE WriteRegister(t)
    <3>1. InRange(args[t]) /\ stores' \in [Threads -> Nat]
      BY <2>4 DEF WriteRegister, Program, ExTypeOK
    <3> QED
      BY <2>4, <3>1, ProgramStepType DEF WriteRegister
  <2>5. CASE Rand(t) \/ IoctlTo(t) \/ IoctlFrom(t)
    BY <2>0, <2>5, ProgramStepType DEF Rand, IoctlTo, IoctlFrom, progVars
  <2>6. CASE Compare(t)
    BY <2>0, <2>6, ProgramStepType DEF Compare, progVars
  <2> QED
    BY <1>1, <2>1, <2>2, <2>3, <2>4, <2>5, <2>6 DEF main
<1>2. CASE UNCHANGED <<epc, progVars>>
  <2>1. \A u \in Threads : /\ InRange(args[u])' <=> InRange(args[u])
                           /\ Named(u)' = Named(u)
    BY <1>2 DEF Named, progVars
  <2> QED
    BY <1>2, <2>1 DEF ExTypeOK, progVars
<1> QED
  BY <1>1, <1>2 DEF ExNext, exVars

(* However many processes run it: what main has checked in parse_args is   *)
(* still true where it relies on it, in open_pciemu_dev and in the loop of *)
(* write_registers_sequential (pciemu_example.c:71-103, 162-271).          *)
THEOREM ExTypeCorrect == ExSpec => []ExTypeOK
<1>1. ExTypeOK /\ [ExNext]_exVars => ExTypeOK'
  BY ExTypeStep
<1> QED
  BY <1>1, ExTypeInit, PTL DEF ExSpec

-----------------------------------------------------------------------------
(* A lone process: the driver's invariant.                                 *)

(* A store of write_registers_sequential hits a general-purpose register.  *)
LEMMA RegisterExists ==
  ASSUME ExTypeOK, NEW t \in Threads, WriteRegister(t)
  PROVE  Register[stores[t] + 1] \in Regs
<1>1. ParsedRegs(args[t]) \in 1 .. Cardinality(Regs)
  BY DEF ExTypeOK, WriteRegister, Program, InRange
<1>2. Cardinality(Regs) = 4
  <2>1. IsFiniteSet({}) /\ Cardinality({}) = 0
    BY FS_EmptySet
  <2>2. IsFiniteSet({"reg0"}) /\ Cardinality({"reg0"}) = 1
    BY FS_Singleton
  <2>3. IsFiniteSet({"reg0", "reg1"}) /\ Cardinality({"reg0", "reg1"}) = 2
    <3>1. {"reg0", "reg1"} = {"reg0"} \cup {"reg1"} /\ "reg1" \notin {"reg0"}
      OBVIOUS
    <3> QED
      BY <2>2, <3>1, FS_AddElement
  <2>4. IsFiniteSet({"reg0", "reg1", "reg2"}) /\ Cardinality({"reg0", "reg1", "reg2"}) = 3
    <3>1. /\ {"reg0", "reg1", "reg2"} = {"reg0", "reg1"} \cup {"reg2"}
          /\ "reg2" \notin {"reg0", "reg1"}
      OBVIOUS
    <3> QED
      BY <2>3, <3>1, FS_AddElement
  <2>5. Regs = {"reg0", "reg1", "reg2"} \cup {"reg3"} /\ "reg3" \notin {"reg0", "reg1", "reg2"}
    BY DEF Regs
  <2> QED
    BY <2>4, <2>5, FS_AddElement
<1>3. stores[t] \in Nat /\ stores[t] < ParsedRegs(args[t])
  BY DEF ExTypeOK, WriteRegister
<1>4. stores[t] + 1 \in 1 .. 4
  BY <1>1, <1>2, <1>3
<1>5. stores[t] + 1 \in {1, 2, 3, 4}
  BY <1>4
<1> QED
  BY <1>5 DEF Register, Regs

(* Storing, and drawing a and b, while the process is in no ioctl. *)
LEMMA LoneWrite ==
  ASSUME IndInv, ExTypeOK, NEW t \in Threads, WriteRegister(t)
  PROVE  IndInv'
<1>1. PICK v \in Val : GuestWrite(Register[stores[t] + 1], v)
  BY ExampleAssumption DEF WriteRegister
<1>2. UNCHANGED drvVars
  BY DEF WriteRegister
<1>3. DevTypeOK'
  BY <1>1, GuestWriteType DEF IndInv, TypeOK
<1>4. TypeOK'
  BY <1>2, <1>3 DEF IndInv, TypeOK, drvVars, threadVars, kernelVars
<1> QED
  BY <1>1, <1>2, <1>4, RegisterExists, StoreStep

LEMMA LoneRand ==
  ASSUME NEW t, Threads = {t}, IndInv, Rand(t), pc[t] = "idle"
  PROVE  IndInv'
<1>1. UNCHANGED <<devVars, threadVars, dma, mtx, hpc, mapped, pins, leaks, ops>>
  BY DEF Rand
<1>2. PICK x \in Val, y \in Val :
        user' = [user EXCEPT ![PageOf(A[t])] = x, ![PageOf(B[t])] = y]
  BY ExampleAssumption DEF Rand
<1>3. user' \in [Pages -> Val]
  BY <1>2, ExampleAssumption DEF IndInv, TypeOK
<1>4. TypeOK'
  BY <1>1, <1>3, DevTypeKept DEF IndInv, TypeOK, threadVars
<1>5. \A u \in Threads : pc[u] \notin Critical
  BY DEF Critical, PCs
<1>6. Quiet /\ mapped = {} /\ mtx = {}
  BY <1>5 DEF IndInv, MutexOwned, FreeInv
<1>7. Quiet' /\ mapped' = {} /\ mtx' = {}
  BY <1>1, <1>6 DEF Quiet, devVars, irqVars
<1>8. MsixMode' /\ EngineStatus'
  BY <1>1, DeviceKept DEF devVars
<1>9. \A u \in Threads : pc'[u] \notin Critical
  BY <1>1, <1>5 DEF threadVars
<1> QED
  BY <1>4, <1>7, <1>8, <1>9, ReleaseStep

LEMMA LoneDriver ==
  ASSUME NEW t, Threads = {t}, LoneInv, [ExNext]_exVars
  PROVE  IndInv'
<1> USE DEF LoneInv
<1>1. CASE main(t)
  <2>1. CASE parse_args(t) \/ open_pciemu_dev(t) \/ mmap_pciemu_bar(t) \/ Compare(t)
    BY <2>1, IndInvStep DEF parse_args, open_pciemu_dev, mmap_pciemu_bar, Compare
  <2>2. CASE IoctlTo(t) \/ IoctlFrom(t)
    <3>1. PageOf(A[t]) \in Pages /\ PageOf(B[t]) \in Pages
      BY ExampleAssumption
    <3>2. Next
      BY <2>2, <3>1 DEF IoctlTo, IoctlFrom, Next
    <3> QED
      BY <3>2, IndInvStep
  <2>3. CASE WriteRegister(t)
    BY <2>3, LoneWrite
  <2>4. CASE Rand(t)
    <3>1. pc[t] = "idle"
      BY <2>4 DEF Rand, Program, RoundTrip
    <3> QED
      BY <2>4, <3>1, LoneRand
  <2> QED
    BY <1>1, <2>1, <2>2, <2>3, <2>4 DEF main
<1>2. CASE Lock(t) \/ ThreadStep(t) \/ HandlerStep \/ DeviceWorks
  BY <1>2, IndInvStep DEF Next
<1>3. CASE UNCHANGED vars
  BY <1>3, IndInvStep
<1> QED
  BY <1>1, <1>2, <1>3 DEF ExNext, exVars

-----------------------------------------------------------------------------
(* A lone process: the way of the value, from the contract of the driver.  *)

(* A step that the contract does not see. *)
LEMMA TripStutters ==
  ASSUME NEW t \in Threads, RoundTrip(t), UNCHANGED Contract!vars, UNCHANGED <<epc, dir, page>>,
         pc'[t] = "idle" <=> pc[t] = "idle", pc'[t] = "call" <=> pc[t] = "call",
         dma'.page = dma.page
  PROVE  RoundTrip(t)'
<1>1. user' = user /\ buff'[0] = buff[0]
  BY DEF Contract!vars
<1>2. CallOf(t)' = CallOf(t)
  BY DEF Contract!vars
<1>3. TookEffect(t)' <=> TookEffect(t)
  <2>1. CASE pc[t] \in {"idle", "call"}
    BY <2>1 DEF TookEffect
  <2>2. CASE pc[t] \notin {"idle", "call"}
    BY <1>2, <2>2 DEF CallOf
  <2> QED
    BY <2>1, <2>2
<1>4. Over(t)' <=> Over(t)
  BY <1>3 DEF Over
<1>5. \A d, p : Carries(t, d, p) => Carries(t, d, p)'
  BY DEF Carries
<1> QED
  BY <1>1, <1>4, <1>5 DEF RoundTrip

(* The instant at which an ioctl takes effect. *)
LEMMA TripTransfers ==
  ASSUME NEW t \in Threads, IndInv, RoundTrip(t), Contract!Transfer(t),
         UNCHANGED <<epc, pc, dir, page>>, dma'.page = dma.page
  PROVE  RoundTrip(t)'
<1>1. CallOf(t).st = "called"
  BY DEF Contract!Transfer
<1>2. pc[t] \notin {"idle", "call"}
  BY <1>1 DEF CallOf
<1>3. CallOf(t) = [st |-> "called", dir |-> dir[t], page |-> page[t]]
  BY <1>1, <1>2 DEF CallOf
<1>4. \A d, p : Carries(t, d, p) => Carries(t, d, p)'
  BY DEF Carries
<1>5. epc[t] \in {"from", "compare"}
  BY <1>2 DEF RoundTrip
<1>6. CASE epc[t] = "from"
  <2>1. dir[t] = TO_DEVICE /\ page[t] = PageOf(A[t])
    BY <1>2, <1>6 DEF RoundTrip, Carries
  <2>2. buff'[0] = user[page[t]] /\ user' = user
    BY <1>3, <2>1 DEF Contract!Transfer, Contract!FROM, TO_DEVICE
  <2> QED
    BY <1>4, <1>6, <2>1, <2>2 DEF RoundTrip
<1>7. CASE epc[t] = "compare"
  <2>1. dir[t] = FROM_DEVICE /\ page[t] = PageOf(B[t]) /\ buff[0] = user[PageOf(A[t])]
    BY <1>2, <1>7 DEF RoundTrip, Carries
  <2>2. user' = [user EXCEPT ![page[t]] = buff[0]] /\ buff'[0] = buff[0]
    BY <1>3, <2>1 DEF Contract!Transfer, Contract!TO, FROM_DEVICE
  <2>3. PageOf(A[t]) \in Pages /\ PageOf(B[t]) \in Pages /\ user \in [Pages -> Val]
    BY ExampleAssumption DEF IndInv, TypeOK
  <2>4. user'[PageOf(A[t])] = buff[0] /\ user'[PageOf(B[t])] = buff[0]
    BY <2>1, <2>2, <2>3
  <2> QED
    BY <1>4, <1>7, <2>2, <2>4 DEF RoundTrip
<1> QED
  BY <1>5, <1>6, <1>7

LEMMA TripThread ==
  ASSUME NEW t, Threads = {t}, ~CanFail, IndInv, RoundTrip(t),
         Lock(t) \/ ThreadStep(t), UNCHANGED epc
  PROVE  RoundTrip(t)'
<1>0. t \in Threads /\ ~MapFails(t)
  BY DEF MapFails
<1>1. CASE CallDma(t)
  <2>1. /\ pc[t] = "call" /\ pc'[t] = "lock" /\ page'[t] = dma.page
        /\ UNCHANGED <<dir, dma, user, buff>>
    BY <1>0, <1>1 DEF CallDma, Goto, devVars, kernelVars, IndInv, TypeOK
  <2>2. ~Over(t)'
    BY <2>1 DEF Over, TookEffect
  <2>3. \A d, p : Carries(t, d, p) => Carries(t, d, p)'
    BY <2>1 DEF Carries
  <2> QED
    BY <2>1, <2>2, <2>3 DEF RoundTrip
<1>2. CASE \/ Lock(t) \/ MapPage(t) \/ WriteSrc(t) \/ WriteDst(t) \/ WriteLen(t)
           \/ WriteCmd(t) \/ RingDoorbell(t)
  <2>1. /\ pc[t] \notin {"idle", "call"} /\ pc'[t] \notin {"idle", "call"}
        /\ UNCHANGED <<dir, page>> /\ dma'.page = dma.page
    BY <1>0, <1>2 DEF Lock, MapPage, WriteSrc, WriteDst, WriteLen, WriteCmd, RingDoorbell,
                      WriteReg, Goto, IndInv, TypeOK
  <2> QED
    BY <1>0, <1>2, <2>1, RefProgram, TripStutters
<1>3. CASE WaitForCompletion(t)
  <2>1. pc[t] = "wait" /\ pc'[t] = "unlock" /\ UNCHANGED <<dir, page, dma>>
    BY <1>0, <1>3 DEF WaitForCompletion, Goto, IndInv, TypeOK
  <2> QED
    BY <1>0, <1>3, <2>1, RefWait, TripStutters
<1>4. CASE Unlock(t)
  <2>1. pc[t] = "unlock" /\ pc'[t] = "idle" /\ UNCHANGED <<user, buff>>
    BY <1>0, <1>4 DEF Unlock, Goto, IndInv, TypeOK, devVars, kernelVars
  <2>2. Over(t)
    BY <2>1 DEF Over, TookEffect
  <2> QED
    BY <2>1, <2>2 DEF RoundTrip, Carries
<1> QED
  BY <1>0, <1>1, <1>2, <1>3, <1>4 DEF ThreadStep

LEMMA TripDevice ==
  ASSUME NEW t, Threads = {t}, IndInv, RoundTrip(t), HandlerStep \/ DeviceWorks, UNCHANGED epc
  PROVE  RoundTrip(t)'
<1>1. UNCHANGED <<pc, dir, page>> /\ dma'.page = dma.page
  BY DEF HandlerStep, IrqEnter, UnmapPage, PutPage, AckIrq, CompleteAll, DeviceWorks,
         drvVars, threadVars, IndInv, TypeOK
<1>2. Contract!Transfer(t) \/ UNCHANGED Contract!vars
  BY RefCopy, RefUnmap, RefRest DEF HandlerStep, DeviceWorks, DoorbellStep
<1> QED
  BY <1>1, <1>2, TripTransfers, TripStutters

(* The steps of main outside the ioctls, and the entry of the ioctls. *)
LEMMA TripMain ==
  ASSUME NEW t, Threads = {t}, ~CanFail, IndInv, ExTypeOK, RoundTrip(t), main(t)
  PROVE  RoundTrip(t)'
<1>1. CASE \/ parse_args(t) \/ open_pciemu_dev(t) \/ mmap_pciemu_bar(t)
           \/ WriteRegister(t) \/ Rand(t)
  <2>1. /\ epc[t] \notin {"from", "compare"} /\ epc'[t] \notin {"from", "compare"}
        /\ UNCHANGED pc
    BY <1>1 DEF parse_args, open_pciemu_dev, mmap_pciemu_bar, WriteRegister, Rand, Program,
                ExTypeOK, vars, drvVars, threadVars
  <2> QED
    BY <2>1 DEF RoundTrip
<1>2. CASE Compare(t)
  <2>1. pc[t] = "idle" /\ epc'[t] \in {"success", "failure"} /\ UNCHANGED pc
    BY <1>2 DEF Compare, Returned, Program, ExTypeOK, vars, drvVars, threadVars
  <2> QED
    BY <2>1 DEF RoundTrip
<1>3. ASSUME NEW d, NEW p, Ioctl(t, d, p)
      PROVE  /\ pc[t] = "idle" /\ pc'[t] = "call" /\ dir'[t] = d /\ dma'.page = p
             /\ UNCHANGED <<user, buff>>
  BY <1>3 DEF Ioctl, PinPage, PinFails, Goto, devVars, IndInv, TypeOK
<1>4. CASE IoctlTo(t)
  <2>1. /\ epc'[t] = "from" /\ pc'[t] = "call"
        /\ dir'[t] = TO_DEVICE /\ dma'.page = PageOf(A[t])
    BY <1>3, <1>4 DEF IoctlTo, Program, ExTypeOK
  <2>2. ~Over(t)'
    BY <2>1 DEF Over, TookEffect
  <2>3. Carries(t, TO_DEVICE, PageOf(A[t]))'
    BY <2>1 DEF Carries
  <2> QED
    BY <2>1, <2>2, <2>3 DEF RoundTrip
<1>5. CASE IoctlFrom(t)
  <2>1. /\ epc[t] = "from" /\ epc'[t] = "compare" /\ pc[t] = "idle" /\ pc'[t] = "call"
        /\ dir'[t] = FROM_DEVICE /\ dma'.page = PageOf(B[t])
        /\ UNCHANGED <<user, buff>>
    BY <1>3, <1>5 DEF IoctlFrom, Program, ExTypeOK
  <2>2. buff[0] = user[PageOf(A[t])]
    BY <2>1 DEF RoundTrip, Over
  <2>3. ~Over(t)'
    BY <2>1 DEF Over, TookEffect
  <2>4. Carries(t, FROM_DEVICE, PageOf(B[t]))'
    BY <2>1 DEF Carries
  <2> QED
    BY <2>1, <2>2, <2>3, <2>4 DEF RoundTrip
<1> QED
  BY <1>1, <1>2, <1>4, <1>5 DEF main

LEMMA TripRests ==
  ASSUME NEW t \in Threads, RoundTrip(t), UNCHANGED exVars
  PROVE  RoundTrip(t)'
BY DEF exVars, vars, devVars, drvVars, threadVars, kernelVars, RoundTrip, Carries, Over,
       TookEffect, Copied

LEMMA LoneStep ==
  ASSUME NEW t, Threads = {t}, ~CanFail, LoneInv, [ExNext]_exVars
  PROVE  LoneInv'
<1>1. IndInv /\ ExTypeOK /\ RoundTrip(t)
  BY DEF LoneInv
<1>2. IndInv' /\ ExTypeOK'
  BY <1>1, LoneDriver, ExTypeStep
<1>3. RoundTrip(t)'
  BY <1>1, TripMain, TripThread, TripDevice, TripRests DEF ExNext
<1> QED
  BY <1>2, <1>3 DEF LoneInv

(* A process that has the device to itself, on a machine where pinning and *)
(* mapping succeed: the driver's invariant holds around the program, and   *)
(* the value of a is where the program believes it is.                     *)
THEOREM LoneProcess ==
  ASSUME NEW CONSTANT t, Threads = {t}, ~CanFail
  PROVE  ExSpec => []LoneInv
<1>1. ExInit => LoneInv
  <2> SUFFICES ASSUME ExInit PROVE LoneInv
    OBVIOUS
  <2>1. IndInv /\ ExTypeOK
    BY InitIndInv, ExTypeInit DEF ExInit
  <2>2. RoundTrip(t)
    BY DEF ExInit, Init, DriverInit, RoundTrip
  <2> QED
    BY <2>1, <2>2 DEF LoneInv
<1>2. LoneInv /\ [ExNext]_exVars => LoneInv'
  BY LoneStep
<1> QED
  BY <1>1, <1>2, PTL DEF ExSpec

(* "values a and b should be equal after DMAs" (pciemu_example.c:155), for *)
(* every value of a and b, any pages they are in and every size of the     *)
(* machine.  A page holds one int: where a and b share a page they are one *)
(* variable.  With a second process, or where mapping can fail, it is      *)
(* false (runs drv_page and example_enomem).                               *)
THEOREM ValuesAgree ==
  ASSUME NEW CONSTANT t, Threads = {t}, ~CanFail
  PROVE  ExSpec => []ValuesEqual
<1>1. LoneInv => ValuesEqual
  <2> SUFFICES ASSUME LoneInv, Returned(t) PROVE Equal(t)
    BY DEF ValuesEqual
  <2>1. RoundTrip(t) /\ epc[t] = "compare" /\ Over(t)
    BY DEF LoneInv, Returned, Over
  <2> QED
    BY <2>1 DEF RoundTrip, Equal
<1> QED
  BY <1>1, LoneProcess, PTL

-----------------------------------------------------------------------------
(* Which device is opened: what Digits computes, by a smallest number that *)
(* it would compute otherwise.                                             *)

(* The two parts that a number is split into. *)
Quo(k, base) == k \div base
LastDigit(k, base) == Digit[(k % base) + 1]

(* g writes the numbers of N in the base. *)
IsDigits(base, N, g) ==
  g = [k \in N |-> IF k < base THEN <<Digit[k + 1]>>
                   ELSE Append(g[Quo(k, base)], LastDigit(k, base))]

LEMMA DigitsAt ==
  ASSUME NEW base, NEW N, NEW g, IsDigits(base, N, g), NEW k \in N
  PROVE  /\ k < base => g[k] = <<Digit[k + 1]>>
         /\ ~(k < base) => g[k] = Append(g[Quo(k, base)], LastDigit(k, base))
<1> DEFINE Value(j) == IF j < base THEN <<Digit[j + 1]>>
                       ELSE Append(g[Quo(j, base)], LastDigit(j, base))
<1>1. g = [j \in N |-> Value(j)]
  BY Zenon DEF IsDigits
<1>2. g[k] = Value(k)
  <2> HIDE DEF Value
  <2> QED
    BY <1>1
<1> QED
  BY <1>2, Zenon

LEMMA Quotient ==
  ASSUME NEW base \in {10, 16}, NEW k \in Nat
  PROVE  /\ Quo(k, base) \in Nat
         /\ k >= base => Quo(k, base) < k
<1>1. CASE base = 10
  BY <1>1 DEF Quo
<1>2. CASE base = 16
  BY <1>2 DEF Quo
<1> QED
  BY <1>1, <1>2

LEMMA DigitsUnique ==
  ASSUME NEW base \in {10, 16}, NEW m \in Nat, NEW n \in Nat, NEW g, NEW h,
         IsDigits(base, 0 .. m, g), IsDigits(base, 0 .. n, h),
         NEW j \in Nat, j <= m, j <= n
  PROVE  g[j] = h[j]
<1> DEFINE Bad == {k \in Nat : k <= m /\ k <= n /\ g[k] # h[k]}
<1> SUFFICES ASSUME Bad # {} PROVE FALSE
  OBVIOUS
<1>1. PICK k \in Bad : \A i \in Bad : k <= i
  <2>1. Bad \subseteq Nat
    OBVIOUS
  <2> HIDE DEF Bad
  <2> QED
    BY <2>1, NatMin
<1>2. k \in Nat /\ k <= m /\ k <= n /\ g[k] # h[k]
  BY <1>1
<1>3. k >= base
  BY <1>2 DEF IsDigits
<1> DEFINE q == Quo(k, base)
<1>4. q \in Nat /\ q < k
  BY <1>2, <1>3, Quotient
<1>5. g[q] = h[q]
  <2> HIDE DEF q
  <2>1. q \notin Bad
    BY <1>1, <1>2, <1>4
  <2> QED
    BY <1>2, <1>4, <2>1
<1>6. k \in 0 .. m /\ k \in 0 .. n /\ ~(k < base)
  BY <1>2, <1>3
<1>7. g[k] = Append(g[q], LastDigit(k, base)) /\ h[k] = Append(h[q], LastDigit(k, base))
  BY <1>6, DigitsAt
<1> QED
  BY <1>2, <1>5, <1>7, Zenon

LEMMA DigitsExist ==
  ASSUME NEW base \in {10, 16}
  PROVE  \E g : IsDigits(base, Nat, g)
<1> DEFINE Of(n) == CHOOSE g : IsDigits(base, 0 .. n, g)
           At(n) == Of(n)[n]
           Value(k) == IF k < base THEN <<Digit[k + 1]>>
                       ELSE Append(At(Quo(k, base)), LastDigit(k, base))
           Good(n) == IsDigits(base, 0 .. n, Of(n))
<1>1. ASSUME NEW k \in Nat, \A j \in 0 .. k : Good(j)
      PROVE  At(k) = Value(k)
  <2> DEFINE q == Quo(k, base)
             g == Of(k)
             r == Of(q)
  <2>0. IsDigits(base, 0 .. k, g)
    BY <1>1
  <2>1. CASE k < base
    <3> HIDE DEF g
    <3>1. g[k] = <<Digit[k + 1]>>
      BY <2>0, <2>1 DEF IsDigits
    <3> QED
      BY <2>1, <3>1 DEF g
  <2>2. CASE k >= base
    <3>1. q \in Nat /\ q < k
      BY <2>2, Quotient
    <3>2. IsDigits(base, 0 .. q, r)
      BY <1>1, <3>1
    <3> HIDE DEF g, r
    <3>3. g[q] = r[q]
      <4> HIDE DEF q
      <4> QED
        BY <2>0, <3>1, <3>2, DigitsUnique
    <3>4. k \in 0 .. k /\ ~(k < base)
      BY <2>2
    <3>5. g[k] = Append(g[q], LastDigit(k, base))
      BY <2>0, <3>4, DigitsAt
    <3>6. At(k) = g[k] /\ At(q) = r[q]
      BY DEF g, r
    <3> HIDE DEF At
    <3> QED
      BY <3>3, <3>4, <3>5, <3>6
  <2> QED
    BY <2>1, <2>2
<1>2. \A n \in Nat : Good(n)
  <2> DEFINE Bad == {n \in Nat : ~Good(n)}
  <2> SUFFICES ASSUME Bad # {} PROVE FALSE
    OBVIOUS
  <2>1. PICK n \in Bad : \A i \in Bad : n <= i
    <3>1. Bad \subseteq Nat
      OBVIOUS
    <3> HIDE DEF Bad
    <3> QED
      BY <3>1, NatMin
  <2>2. n \in Nat /\ ~Good(n)
    BY <2>1
  <2>3. ASSUME NEW k \in Nat, k < n
        PROVE  At(k) = Value(k)
    <3>1. \A j \in 0 .. k : Good(j)
      <4> SUFFICES ASSUME NEW j \in 0 .. k PROVE j \notin Bad
        OBVIOUS
      <4> HIDE DEF Bad
      <4> QED
        BY <2>1, <2>2, <2>3
    <3> HIDE DEF Good, At, Value
    <3> QED
      BY <1>1, <3>1
  <2> DEFINE h == [k \in 0 .. n |-> Value(k)]
  <2>4. ASSUME NEW k \in 0 .. n, ~(k < base)
        PROVE  h[k] = Append(h[Quo(k, base)], LastDigit(k, base))
    <3>1. Quo(k, base) \in Nat /\ Quo(k, base) < n /\ Quo(k, base) \in 0 .. n
      <4>1. n \in Nat /\ k \in Nat /\ k >= base
        BY <2>2, <2>4
      <4>2. Quo(k, base) \in Nat /\ Quo(k, base) < k
        BY <4>1, Quotient
      <4> QED
        BY <4>1, <4>2
    <3>2. h[Quo(k, base)] = At(Quo(k, base))
      <4> DEFINE q == Quo(k, base)
      <4> HIDE DEF q, At, Value
      <4>1. q \in 0 .. n /\ At(q) = Value(q)
        BY <2>3, <3>1 DEF q
      <4> QED
        BY <4>1 DEF q
    <3> HIDE DEF At
    <3> QED
      BY <2>4, <3>2
  <2>5. \A k \in 0 .. n : k < base => h[k] = <<Digit[k + 1]>>
    OBVIOUS
  <2>6. h = [k \in 0 .. n |-> h[k]]
    OBVIOUS
  <2>7. IsDigits(base, 0 .. n, h)
    <3> HIDE DEF h
    <3> QED
      BY <2>4, <2>5, <2>6 DEF IsDigits
  <2>8. IsDigits(base, 0 .. n, Of(n))
    <3> HIDE DEF h
    <3> QED
      BY <2>7
  <2> QED
    BY <2>2, <2>8
<1>3. \A k \in Nat : At(k) = Value(k)
  <2> HIDE DEF Good, At, Value
  <2> QED
    BY <1>1, <1>2
<1> DEFINE f == [k \in Nat |-> At(k)]
<1>4. IsDigits(base, Nat, f)
  <2>1. \A k \in Nat : f[k] = Value(k)
    BY <1>3
  <2>2. \A k \in Nat : Quo(k, base) \in Nat /\ f[Quo(k, base)] = At(Quo(k, base))
    <3> HIDE DEF At
    <3> QED
      BY Quotient
  <2>3. f = [k \in Nat |-> f[k]]
    OBVIOUS
  <2>4. \A k \in Nat : f[k] = IF k < base THEN <<Digit[k + 1]>>
                              ELSE Append(f[Quo(k, base)], LastDigit(k, base))
    <3> HIDE DEF f, At
    <3> QED
      BY <2>1, <2>2
  <2> HIDE DEF f
  <2> QED
    BY <2>3, <2>4 DEF IsDigits
<1> QED
  BY <1>4

LEMMA DigitsDef ==
  ASSUME NEW base \in {10, 16}, NEW n \in Nat
  PROVE  /\ n < base => Digits(n, base) = <<Digit[n + 1]>>
         /\ n >= base => Digits(n, base) =
                           Append(Digits(Quo(n, base), base), LastDigit(n, base))
<1> DEFINE g == CHOOSE g : IsDigits(base, Nat, g)
<1>1. IsDigits(base, Nat, g)
  BY DigitsExist
<1>2. \A k \in Nat : Digits(k, base) = g[k]
  BY DEF Digits, IsDigits, Quo, LastDigit
<1> HIDE DEF g
<1>3. Quo(n, base) \in Nat
  BY Quotient
<1>4. n < base => g[n] = <<Digit[n + 1]>>
  BY <1>1 DEF IsDigits
<1>5. ~(n < base) => g[n] = Append(g[Quo(n, base)], LastDigit(n, base))
  BY <1>1, DigitsAt
<1>6. n >= base => ~(n < base)
  OBVIOUS
<1> QED
  BY <1>2, <1>3, <1>4, <1>5, <1>6, Zenon

(* The digits of a base. *)
Alphabet(base) == {Digit[i] : i \in 1 .. base}

LEMMA DigitInjective ==
  ASSUME NEW i \in 1 .. 16, NEW j \in 1 .. 16, Digit[i] = Digit[j]
  PROVE  i = j
<1>1. i \in {1, 2, 3, 4, 5, 6, 7, 8} \/ i \in {9, 10, 11, 12, 13, 14, 15, 16}
  OBVIOUS
<1>2. j \in {1, 2, 3, 4, 5, 6, 7, 8} \/ j \in {9, 10, 11, 12, 13, 14, 15, 16}
  OBVIOUS
<1> QED
  BY <1>1, <1>2 DEF Digit

(* Neither of the letters that printf puts between the numbers is a        *)
(* decimal digit.                                                          *)
LEMMA Separators ==
  /\ "b" \notin Alphabet(10) /\ "d" \notin Alphabet(10) /\ "f" \notin Alphabet(10)
  /\ "b" \in Alphabet(16) /\ "d" \in Alphabet(16) /\ "f" \in Alphabet(16)
  /\ Alphabet(10) \subseteq Alphabet(16)
<1>1. "b" = Digit[12] /\ "d" = Digit[14] /\ "f" = Digit[16]
  BY DEF Digit
<1>2. \A i \in 1 .. 10 : Digit[i] # Digit[12] /\ Digit[i] # Digit[14] /\ Digit[i] # Digit[16]
  <2> SUFFICES ASSUME NEW i \in 1 .. 10
               PROVE  Digit[i] # Digit[12] /\ Digit[i] # Digit[14] /\ Digit[i] # Digit[16]
    OBVIOUS
  <2> QED
    BY DigitInjective
<1> QED
  BY <1>1, <1>2 DEF Alphabet

LEMMA LastDigitType ==
  ASSUME NEW base \in {10, 16}, NEW k \in Nat
  PROVE  LastDigit(k, base) \in Alphabet(base)
<1>1. (k % base) + 1 \in 1 .. base
  <2>1. CASE base = 10
    BY <2>1
  <2>2. CASE base = 16
    BY <2>2
  <2> QED
    BY <2>1, <2>2
<1> QED
  BY <1>1 DEF LastDigit, Alphabet

LEMMA DigitsType ==
  ASSUME NEW base \in {10, 16}, NEW n \in Nat
  PROVE  /\ Digits(n, base) \in Seq(Alphabet(base))
         /\ Len(Digits(n, base)) \in Nat \ {0}
         /\ Len(Digits(n, base)) = 1 <=> n < base
<1> DEFINE Word(k) == Digits(k, base) \in Seq(Alphabet(base)) /\ Len(Digits(k, base)) \in Nat \ {0}
           Bad == {k \in Nat : ~Word(k)}
<1>1. ASSUME NEW k \in Nat, k < base
      PROVE  Word(k) /\ Len(Digits(k, base)) = 1
  <2>1. Digits(k, base) = <<Digit[k + 1]>>
    BY <1>1, DigitsDef
  <2>2. Digit[k + 1] \in Alphabet(base)
    BY <1>1 DEF Alphabet
  <2> QED
    BY <2>1, <2>2
<1>2. ASSUME NEW k \in Nat, k >= base, Word(Quo(k, base))
      PROVE  Word(k) /\ Len(Digits(k, base)) = Len(Digits(Quo(k, base), base)) + 1
  <2>1. Digits(k, base) = Append(Digits(Quo(k, base), base), LastDigit(k, base))
    BY <1>2, DigitsDef
  <2>2. LastDigit(k, base) \in Alphabet(base)
    BY LastDigitType
  <2> QED
    BY <1>2, <2>1, <2>2, AppendProperties
<1>3. Bad = {}
  <2> SUFFICES ASSUME Bad # {} PROVE FALSE
    OBVIOUS
  <2>1. PICK k \in Bad : \A i \in Bad : k <= i
    <3>1. Bad \subseteq Nat
      OBVIOUS
    <3> HIDE DEF Bad
    <3> QED
      BY <3>1, NatMin
  <2>2. k \in Nat /\ ~Word(k)
    BY <2>1
  <2> HIDE DEF Word
  <2>3. k >= base
    BY <1>1, <2>2
  <2>4. Quo(k, base) \in Nat /\ Quo(k, base) < k
    BY <2>2, <2>3, Quotient
  <2>5. Word(Quo(k, base))
    <3> DEFINE q == Quo(k, base)
    <3> HIDE DEF q
    <3>1. q \in Nat /\ q < k
      BY <2>4 DEF q
    <3>2. Word(q)
      BY <2>1, <2>2, <3>1
    <3> QED
      BY <3>2 DEF q
  <2> QED
    BY <1>2, <2>2, <2>3, <2>5
<1>4. \A k \in Nat : Word(k)
  BY <1>3
<1>5. ASSUME n >= base
      PROVE  Len(Digits(n, base)) # 1
  <2>1. Quo(n, base) \in Nat
    BY Quotient
  <2>2. Word(Quo(n, base)) /\ Len(Digits(n, base)) = Len(Digits(Quo(n, base), base)) + 1
    BY <1>2, <1>4, <1>5, <2>1
  <2> QED
    BY <2>2
<1>6. Word(n)
  BY <1>4
<1>7. n < base \/ n >= base
  OBVIOUS
<1>8. Len(Digits(n, base)) = 1 <=> n < base
  BY <1>1, <1>5, <1>7
<1> QED
  BY <1>6, <1>8

(* One name written in both bases: both numbers have one digit, or both    *)
(* end in the same digit and what is left of them has the same name.       *)
LEMMA SameName ==
  ASSUME NEW a \in Nat, NEW b \in Nat, Digits(a, 16) = Digits(b, 10)
  PROVE  \/ a < 16 /\ b < 10 /\ a = b
         \/ /\ a >= 16 /\ b >= 10 /\ a % 16 = b % 10
            /\ Digits(Quo(a, 16), 16) = Digits(Quo(b, 10), 10)
<1>1. a < 16 <=> b < 10
  BY DigitsType
<1>2. CASE a < 16
  <2>1. Digits(a, 16) = <<Digit[a + 1]>> /\ Digits(b, 10) = <<Digit[b + 1]>>
    BY <1>1, <1>2, DigitsDef
  <2>2. Digit[a + 1] = Digit[b + 1]
    BY <2>1
  <2>3. a + 1 \in 1 .. 16 /\ b + 1 \in 1 .. 16
    BY <1>1, <1>2
  <2>4. a + 1 = b + 1
    BY <2>2, <2>3, DigitInjective, Zenon
  <2> QED
    BY <1>1, <1>2, <2>4
<1>3. CASE a >= 16
  <2>1. b >= 10
    BY <1>1, <1>3
  <2> DEFINE s == Digits(Quo(a, 16), 16)
             t == Digits(Quo(b, 10), 10)
             x == LastDigit(a, 16)
             y == LastDigit(b, 10)
  <2>2. Digits(a, 16) = Append(s, x)
    BY <1>3, DigitsDef
  <2>3. Digits(b, 10) = Append(t, y)
    BY <2>1, DigitsDef
  <2>4. Quo(a, 16) \in Nat /\ Quo(b, 10) \in Nat
    BY Quotient
  <2>5. s \in Seq(Alphabet(16)) /\ x \in Alphabet(16)
    BY <2>4, DigitsType, LastDigitType
  <2>6. t \in Seq(Alphabet(10)) /\ y \in Alphabet(10)
    BY <2>4, DigitsType, LastDigitType
  <2> HIDE DEF s, t, x, y
  <2>7. t \in Seq(Alphabet(16)) /\ y \in Alphabet(16)
    BY <2>6, Separators
  <2>8. s = t /\ x = y
    BY <2>2, <2>3, <2>5, <2>7, AppendInjective
  <2>9. (a % 16) + 1 \in 1 .. 16 /\ (b % 10) + 1 \in 1 .. 16
    OBVIOUS
  <2>10. a % 16 = b % 10
    BY <2>8, <2>9, DigitInjective DEF x, y, LastDigit
  <2> QED
    BY <1>3, <2>1, <2>8, <2>10 DEF s, t
<1> QED
  BY <1>2, <1>3

(* Read in base 16, a name is worth at least as much as in base 10.        *)
LEMMA HexAtLeastDecimal ==
  ASSUME NEW a \in Nat, NEW b \in Nat, Digits(a, 16) = Digits(b, 10)
  PROVE  b <= a
<1> DEFINE Bad == {k \in Nat : \E m \in Nat : Digits(k, 16) = Digits(m, 10) /\ m > k}
<1> SUFFICES ASSUME Bad # {} PROVE FALSE
  OBVIOUS
<1>1. PICK k \in Bad : \A i \in Bad : k <= i
  <2>1. Bad \subseteq Nat
    OBVIOUS
  <2> HIDE DEF Bad
  <2> QED
    BY <2>1, NatMin
<1>2. PICK m \in Nat : k \in Nat /\ Digits(k, 16) = Digits(m, 10) /\ m > k
  BY <1>1
<1>3. /\ k >= 16 /\ m >= 10 /\ k % 16 = m % 10
      /\ Digits(Quo(k, 16), 16) = Digits(Quo(m, 10), 10)
  BY <1>2, SameName
<1>4. Quo(k, 16) \in Nat /\ Quo(k, 16) < k /\ Quo(m, 10) \in Nat
  BY <1>2, <1>3, Quotient
<1>5. Quo(m, 10) <= Quo(k, 16)
  <2> SUFFICES ASSUME Quo(m, 10) > Quo(k, 16) PROVE FALSE
    BY <1>4
  <2>1. Quo(k, 16) \in Bad
    BY <1>3, <1>4
  <2> HIDE DEF Bad
  <2> QED
    BY <1>1, <1>2, <1>4, <2>1
<1> QED
  BY <1>2, <1>3, <1>5 DEF Quo

(* A name means the same number in both bases exactly when it is that of a *)
(* single decimal digit.                                                   *)
LEMMA SameNumber ==
  ASSUME NEW a \in Nat, NEW b \in Nat, Digits(a, 16) = Digits(b, 10)
  PROVE  a = b <=> b < 10
<1>1. CASE a < 16
  BY <1>1, SameName
<1>2. CASE a >= 16
  <2>1. b >= 10 /\ a % 16 = b % 10 /\ Digits(Quo(a, 16), 16) = Digits(Quo(b, 10), 10)
    BY <1>2, SameName
  <2>2. Quo(b, 10) <= Quo(a, 16)
    <3>1. Quo(a, 16) \in Nat /\ Quo(b, 10) \in Nat
      BY Quotient
    <3> QED
      BY <2>1, <3>1, HexAtLeastDecimal
  <2> QED
    BY <1>2, <2>1, <2>2 DEF Quo
<1> QED
  BY <1>1, <1>2

(* The word w stands in the sequence s behind position at. *)
Stands(s, at, w) == \A i \in 1 .. Len(w) : s[at + i] = w[i]

(* A separator and a word are put behind p. *)
LEMMA Extend ==
  ASSUME NEW S, NEW p \in Seq(S), NEW c \in S, NEW w \in Seq(S),
         NEW e, e = (p \o <<c>>) \o w
  PROVE  /\ e \in Seq(S) /\ Len(e) = Len(p) + 1 + Len(w)
         /\ \A i \in 1 .. Len(p) : e[i] = p[i]
         /\ e[Len(p) + 1] = c
         /\ Stands(e, Len(p) + 1, w)
<1> DEFINE k == p \o <<c>>
<1>1. <<c>> \in Seq(S) /\ Len(<<c>>) = 1 /\ <<c>>[1] = c
  OBVIOUS
<1>2. Len(p) \in Nat /\ Len(w) \in Nat
  BY LenProperties
<1>3. /\ k \in Seq(S) /\ Len(k) = Len(p) + 1
      /\ \A i \in 1 .. Len(p) + 1 : k[i] = IF i <= Len(p) THEN p[i] ELSE <<c>>[i - Len(p)]
  BY <1>1, ConcatProperties
<1>4. (\A i \in 1 .. Len(p) : k[i] = p[i]) /\ k[Len(p) + 1] = c
  BY <1>1, <1>2, <1>3
<1> HIDE DEF k
<1>5. /\ e \in Seq(S) /\ Len(e) = Len(k) + Len(w)
      /\ \A i \in 1 .. Len(k) + Len(w) : e[i] = IF i <= Len(k) THEN k[i] ELSE w[i - Len(k)]
  BY <1>3, ConcatProperties DEF k
<1>6. \A i \in 1 .. Len(k) : e[i] = k[i]
  BY <1>2, <1>3, <1>5
<1>7. ASSUME NEW i \in 1 .. Len(w)
      PROVE  e[Len(k) + i] = w[i]
  <2>1. Len(k) + i \in 1 .. Len(k) + Len(w) /\ ~(Len(k) + i <= Len(k)) /\ (Len(k) + i) - Len(k) = i
    BY <1>2, <1>3
  <2> QED
    BY <1>5, <2>1
<1>8. \A i \in 1 .. Len(p) : e[i] = p[i]
  BY <1>2, <1>3, <1>4, <1>6
<1>9. e[Len(p) + 1] = c
  BY <1>2, <1>3, <1>4, <1>6
<1> QED
  BY <1>3, <1>5, <1>7, <1>8, <1>9, <1>2 DEF Stands

(* What stood in p stands in every sequence that begins with it. *)
LEMMA StillStands ==
  ASSUME NEW p, NEW e, Len(p) \in Nat, \A i \in 1 .. Len(p) : e[i] = p[i],
         NEW w, NEW at \in Nat, Len(w) \in Nat, at + Len(w) <= Len(p), Stands(p, at, w)
  PROVE  Stands(e, at, w)
<1> SUFFICES ASSUME NEW i \in 1 .. Len(w) PROVE e[at + i] = w[i]
  BY DEF Stands
<1>1. at + i \in 1 .. Len(p)
  OBVIOUS
<1> QED
  BY <1>1 DEF Stands

Path(u, v, w, z) == <<"d">> \o u \o <<"b">> \o v \o <<"d">> \o w \o <<"f">> \o z

(* Where b, d and f are among four words of these lengths.                 *)
Spaced(lu, lv, lw, lz, b, d, f, l) ==
  b = lu + 2 /\ d = b + lv + 1 /\ f = d + lw + 1 /\ l = f + lz

(* Where everything is in a name: the separators at 1, b, d and f, and the *)
(* words behind them.                                                      *)
Layout(s, u, v, w, z, b, d, f) ==
  /\ Spaced(Len(u), Len(v), Len(w), Len(z), b, d, f, Len(s))
  /\ s[1] = "d" /\ s[b] = "b" /\ s[d] = "d" /\ s[f] = "f"
  /\ Stands(s, 1, u) /\ Stands(s, b, v) /\ Stands(s, d, w) /\ Stands(s, f, z)

LEMMA PathLayout ==
  ASSUME NEW S, {"b", "d", "f"} \subseteq S,
         NEW u \in Seq(S), NEW v \in Seq(S), NEW w \in Seq(S), NEW z \in Seq(S)
  PROVE  \E b, d, f : Layout(Path(u, v, w, z), u, v, w, z, b, d, f)
<1>0. Len(u) \in Nat /\ Len(v) \in Nat /\ Len(w) \in Nat /\ Len(z) \in Nat
  BY LenProperties
<1> DEFINE p0 == << >>
           p1 == (p0 \o <<"d">>) \o u
           p2 == (p1 \o <<"b">>) \o v
           p3 == (p2 \o <<"d">>) \o w
           p4 == (p3 \o <<"f">>) \o z
<1>1. Path(u, v, w, z) = p4
  <2>1. << >> \o <<"d">> = <<"d">>
    BY <<"d">> \in Seq(S), ConcatEmptySeq
  <2> QED
    BY <2>1 DEF Path
<1>2. p0 \in Seq(S) /\ Len(p0) = 0 /\ "b" \in S /\ "d" \in S /\ "f" \in S
  BY EmptySeq
<1> HIDE DEF p0
<1>3. /\ p1 \in Seq(S) /\ Len(p1) = Len(p0) + 1 + Len(u)
      /\ \A i \in 1 .. Len(p0) : p1[i] = p0[i]
      /\ p1[Len(p0) + 1] = "d" /\ Stands(p1, Len(p0) + 1, u)
  BY <1>2, Extend, Zenon
<1> HIDE DEF p1
<1>4. /\ p2 \in Seq(S) /\ Len(p2) = Len(p1) + 1 + Len(v)
      /\ \A i \in 1 .. Len(p1) : p2[i] = p1[i]
      /\ p2[Len(p1) + 1] = "b" /\ Stands(p2, Len(p1) + 1, v)
  BY <1>2, <1>3, Extend, Zenon
<1> HIDE DEF p2
<1>5. /\ p3 \in Seq(S) /\ Len(p3) = Len(p2) + 1 + Len(w)
      /\ \A i \in 1 .. Len(p2) : p3[i] = p2[i]
      /\ p3[Len(p2) + 1] = "d" /\ Stands(p3, Len(p2) + 1, w)
  BY <1>2, <1>4, Extend, Zenon
<1> HIDE DEF p3
<1>6. /\ p4 \in Seq(S) /\ Len(p4) = Len(p3) + 1 + Len(z)
      /\ \A i \in 1 .. Len(p3) : p4[i] = p3[i]
      /\ p4[Len(p3) + 1] = "f" /\ Stands(p4, Len(p3) + 1, z)
  BY <1>2, <1>5, Extend, Zenon
<1> HIDE DEF p4
<1> DEFINE b == Len(p1) + 1
           d == Len(p2) + 1
           f == Len(p3) + 1
<1>7. /\ Len(p1) = Len(u) + 1 /\ Len(p1) \in Nat /\ Len(p2) \in Nat /\ Len(p3) \in Nat
      /\ Len(p1) <= Len(p2) /\ Len(p2) <= Len(p3) /\ Len(p0) + 1 = 1 /\ 1 <= Len(p1)
      /\ b = Len(u) + 2 /\ d = b + Len(v) + 1 /\ f = d + Len(w) + 1
      /\ b <= Len(p2) /\ d <= Len(p3) /\ b \in Nat /\ d \in Nat /\ 1 <= b /\ 1 <= d
      /\ 1 + Len(u) <= Len(p1) /\ b + Len(v) <= Len(p2) /\ d + Len(w) <= Len(p3)
  BY <1>0, <1>2, <1>3, <1>4, <1>5
<1>8. p1[1] = "d" /\ Stands(p1, 1, u)
  BY <1>3, <1>7
<1>9. /\ p2[b] = "b" /\ Stands(p2, b, v) /\ p3[d] = "d" /\ Stands(p3, d, w)
      /\ p4[f] = "f" /\ Stands(p4, f, z) /\ Len(p4) = f + Len(z)
  BY <1>4, <1>5, <1>6
<1> HIDE DEF b, d, f
<1>10. \A i \in 1 .. Len(p2) : p4[i] = p2[i]
  <2> SUFFICES ASSUME NEW i \in 1 .. Len(p2) PROVE p4[i] = p2[i]
    OBVIOUS
  <2>1. i \in 1 .. Len(p3)
    BY <1>7
  <2> QED
    BY <2>1, <1>5, <1>6
<1>11. \A i \in 1 .. Len(p1) : p4[i] = p1[i]
  <2> SUFFICES ASSUME NEW i \in 1 .. Len(p1) PROVE p4[i] = p1[i]
    OBVIOUS
  <2>1. i \in 1 .. Len(p2)
    BY <1>7
  <2> QED
    BY <2>1, <1>4, <1>10
<1>12. 1 \in 1 .. Len(p1) /\ b \in 1 .. Len(p2) /\ d \in 1 .. Len(p3)
  BY <1>7
<1>13. p4[1] = "d" /\ p4[b] = "b" /\ p4[d] = "d"
  BY <1>6, <1>8, <1>9, <1>10, <1>11, <1>12, Zenon
<1>14. Stands(p4, 1, u)
  BY <1>0, <1>7, <1>8, <1>11, StillStands
<1>15. Stands(p4, b, v)
  BY <1>0, <1>7, <1>9, <1>10, StillStands
<1>16. Stands(p4, d, w)
  BY <1>0, <1>6, <1>7, <1>9, StillStands
<1>17. Layout(p4, u, v, w, z, b, d, f)
  BY <1>7, <1>9, <1>13, <1>14, <1>15, <1>16, Zenon DEF Layout, Spaced
<1> QED
  BY <1>1, <1>17, Zenon

(* Two words that stand at one place, and are equally long, are equal. *)
LEMMA SameWord ==
  ASSUME NEW S, NEW T, NEW v \in Seq(S), NEW w \in Seq(T), NEW s, NEW at,
         Len(v) = Len(w), Stands(s, at, v), Stands(s, at, w)
  PROVE  v = w
<1>1. DOMAIN v = 1 .. Len(v) /\ DOMAIN w = 1 .. Len(v)
      /\ v \in [1 .. Len(v) -> S] /\ w \in [1 .. Len(v) -> T]
  BY LenProperties
<1>2. \A i \in 1 .. Len(v) : v[i] = w[i]
  BY DEF Stands
<1> QED
  BY <1>1, <1>2

(* A name whose words are decimal has no letter but its separators.        *)
LEMMA LettersSeparate ==
  ASSUME NEW u \in Seq(Alphabet(10)), NEW v \in Seq(Alphabet(10)),
         NEW w \in Seq(Alphabet(10)), NEW z \in Seq(Alphabet(10)),
         NEW s, NEW b, NEW d, NEW f, Layout(s, u, v, w, z, b, d, f),
         NEW i \in 1 .. Len(s), s[i] \in {"b", "d", "f"}
  PROVE  i \in {1, b, d, f}
<1>0. Len(u) \in Nat /\ Len(v) \in Nat /\ Len(w) \in Nat /\ Len(z) \in Nat
  BY LenProperties
<1>a. /\ b = Len(u) + 2 /\ d = b + Len(v) + 1 /\ f = d + Len(w) + 1 /\ Len(s) = f + Len(z)
      /\ Stands(s, 1, u) /\ Stands(s, b, v) /\ Stands(s, d, w) /\ Stands(s, f, z)
  BY DEF Layout, Spaced
<1>1. ASSUME NEW at \in Nat, NEW x \in Seq(Alphabet(10)), Stands(s, at, x), Len(x) \in Nat
      PROVE  ~(at < i /\ i <= at + Len(x))
  <2> SUFFICES ASSUME at < i, i <= at + Len(x) PROVE FALSE
    OBVIOUS
  <2>1. i \in Nat
    BY <1>0, <1>a
  <2> DEFINE j == i - at
  <2>2. j \in 1 .. Len(x) /\ at + j = i
    BY <1>1, <2>1
  <2> HIDE DEF j
  <2>3. s[i] = x[j]
    BY <1>1, <2>2 DEF Stands
  <2>4. x[j] \in Alphabet(10)
    BY <2>2, ElementOfSeq
  <2> QED
    BY <2>3, <2>4, Separators
<1>2. b \in Nat /\ d \in Nat /\ f \in Nat /\ i \in Nat /\ i >= 1 /\ i <= f + Len(z) /\ 1 \in Nat
  BY <1>0, <1>a
<1>3. /\ ~(1 < i /\ i <= 1 + Len(u)) /\ ~(b < i /\ i <= b + Len(v))
      /\ ~(d < i /\ i <= d + Len(w)) /\ ~(f < i /\ i <= f + Len(z))
  BY <1>0, <1>a, <1>1, <1>2, Zenon
<1> QED
  BY <1>0, <1>a, <1>2, <1>3

LEMMA Places ==
  ASSUME NEW lu \in Nat, NEW lv \in Nat, NEW lw \in Nat, NEW lz \in Nat,
         NEW b, NEW d, NEW f, NEW l, Spaced(lu, lv, lw, lz, b, d, f, l)
  PROVE  b \in 1 .. l /\ d \in 1 .. l /\ f \in 1 .. l
BY DEF Spaced

LEMMA SamePlaces ==
  ASSUME NEW lu \in Nat, NEW lv \in Nat, NEW lw \in Nat, NEW lz \in Nat,
         NEW b, NEW d, NEW f, NEW l, Spaced(lu, lv, lw, lz, b, d, f, l),
         NEW mu \in Nat, NEW mv \in Nat, NEW mw \in Nat, NEW mz \in Nat,
         NEW bd, NEW dd, NEW fd, Spaced(mu, mv, mw, mz, bd, dd, fd, l),
         b \in {1, bd, dd, fd}, d \in {1, bd, dd, fd}, f \in {1, bd, dd, fd}
  PROVE  /\ b = bd /\ d = dd /\ f = fd
         /\ lu = mu /\ lv = mv /\ lw = mw /\ lz = mz
<1>1. 1 < b /\ b < d /\ d < f /\ 1 < bd /\ bd < dd /\ dd < fd
  BY DEF Spaced
<1>2. b \in Nat /\ d \in Nat /\ f \in Nat /\ bd \in Nat /\ dd \in Nat /\ fd \in Nat
  BY DEF Spaced
<1>3. b = bd /\ d = dd /\ f = fd
  BY <1>1, <1>2
<1> QED
  BY <1>3 DEF Spaced

(* A name that can be read in both bases is read the same way in both.     *)
LEMMA OneReading ==
  ASSUME NEW u \in Seq(Alphabet(16)), NEW v \in Seq(Alphabet(16)),
         NEW w \in Seq(Alphabet(16)), NEW z \in Seq(Alphabet(16)),
         NEW ud \in Seq(Alphabet(10)), NEW vd \in Seq(Alphabet(10)),
         NEW wd \in Seq(Alphabet(10)), NEW zd \in Seq(Alphabet(10)),
         Path(u, v, w, z) = Path(ud, vd, wd, zd)
  PROVE  u = ud /\ v = vd /\ w = wd /\ z = zd
<1> DEFINE s == Path(u, v, w, z)
<1>0. /\ Len(u) \in Nat /\ Len(v) \in Nat /\ Len(w) \in Nat /\ Len(z) \in Nat
      /\ Len(ud) \in Nat /\ Len(vd) \in Nat /\ Len(wd) \in Nat /\ Len(zd) \in Nat
  BY LenProperties
<1>1. {"b", "d", "f"} \subseteq Alphabet(16)
  BY Separators
<1>2. /\ ud \in Seq(Alphabet(16)) /\ vd \in Seq(Alphabet(16))
      /\ wd \in Seq(Alphabet(16)) /\ zd \in Seq(Alphabet(16))
  BY Separators
<1>3. PICK b, d, f : Layout(s, u, v, w, z, b, d, f)
  BY <1>1, PathLayout, Zenon
<1>4. PICK bd, dd, fd : Layout(s, ud, vd, wd, zd, bd, dd, fd)
  BY <1>1, <1>2, PathLayout, Zenon
<1> HIDE DEF s
<1>5. /\ Spaced(Len(u), Len(v), Len(w), Len(z), b, d, f, Len(s))
      /\ Spaced(Len(ud), Len(vd), Len(wd), Len(zd), bd, dd, fd, Len(s))
  BY <1>3, <1>4, Zenon DEF Layout
<1>6. b \in 1 .. Len(s) /\ d \in 1 .. Len(s) /\ f \in 1 .. Len(s)
  BY <1>0, <1>5, Places
<1>8. s[b] \in {"b", "d", "f"} /\ s[d] \in {"b", "d", "f"} /\ s[f] \in {"b", "d", "f"}
  BY <1>3, Zenon DEF Layout
<1>9. \A i \in 1 .. Len(s) : s[i] \in {"b", "d", "f"} => i \in {1, bd, dd, fd}
  <2> SUFFICES ASSUME NEW i \in 1 .. Len(s), s[i] \in {"b", "d", "f"}
               PROVE  i \in {1, bd, dd, fd}
    OBVIOUS
  <2> QED
    BY <1>4, LettersSeparate
<1>10. b \in {1, bd, dd, fd} /\ d \in {1, bd, dd, fd} /\ f \in {1, bd, dd, fd}
  BY <1>6, <1>8, <1>9, Zenon
<1>12. /\ b = bd /\ d = dd /\ f = fd
       /\ Len(u) = Len(ud) /\ Len(v) = Len(vd) /\ Len(w) = Len(wd) /\ Len(z) = Len(zd)
  BY <1>0, <1>5, <1>10, SamePlaces, SMTT(120)
<1>13. /\ Stands(s, 1, u) /\ Stands(s, b, v) /\ Stands(s, d, w) /\ Stands(s, f, z)
       /\ Stands(s, 1, ud) /\ Stands(s, b, vd) /\ Stands(s, d, wd) /\ Stands(s, f, zd)
  BY <1>3, <1>4, <1>12, Zenon DEF Layout
<1>14. u = ud
  BY <1>12, <1>13, SameWord
<1>15. v = vd
  BY <1>12, <1>13, SameWord
<1>16. w = wd
  BY <1>12, <1>13, SameWord
<1>17. z = zd
  BY <1>12, <1>13, SameWord
<1> QED
  BY <1>14, <1>15, <1>16, <1>17

-----------------------------------------------------------------------------
(* A node is found under the name the program looks for only if every      *)
(* number has the same digits in both.                                     *)
LEMMA FoundByDigits ==
  ASSUME NEW n \in PciNumbers, NEW p \in PciNumbers, NodeName(n) = FileName(p)
  PROVE  /\ n.dom \in Nat /\ n.bus \in Nat /\ n.slot \in Nat
         /\ p.dom \in Nat /\ p.bus \in Nat /\ p.slot \in Nat
         /\ Digits(n.dom, 16) = Digits(p.dom, 10)
         /\ Digits(n.bus, 16) = Digits(p.bus, 10)
         /\ Digits(n.slot, 16) = Digits(p.slot, 10)
<1>1. /\ n.dom \in Nat /\ n.bus \in Nat /\ n.slot \in Nat /\ n.func \in Nat
      /\ p.dom \in Nat /\ p.bus \in Nat /\ p.slot \in Nat /\ p.func \in Nat
  <2>1. /\ 2^16 - 1 \in Nat /\ 2^8 - 1 \in Nat /\ 2^5 - 1 \in Nat /\ {0} \subseteq Nat
    OBVIOUS
  <2>2. 0 .. 2^16 - 1 \subseteq Nat /\ 0 .. 2^8 - 1 \subseteq Nat /\ 0 .. 2^5 - 1 \subseteq Nat
    BY <2>1
  <2> QED
    BY <2>1, <2>2, Zenon DEF PciNumbers
<1>2. /\ Digits(n.dom, 16) \in Seq(Alphabet(16)) /\ Digits(n.bus, 16) \in Seq(Alphabet(16))
      /\ Digits(n.slot, 16) \in Seq(Alphabet(16)) /\ Digits(n.func, 16) \in Seq(Alphabet(16))
  BY <1>1, DigitsType
<1>3. /\ Digits(p.dom, 10) \in Seq(Alphabet(10)) /\ Digits(p.bus, 10) \in Seq(Alphabet(10))
      /\ Digits(p.slot, 10) \in Seq(Alphabet(10)) /\ Digits(p.func, 10) \in Seq(Alphabet(10))
  BY <1>1, DigitsType
<1> DEFINE u == Digits(n.dom, 16)
           v == Digits(n.bus, 16)
           w == Digits(n.slot, 16)
           z == Digits(n.func, 16)
           ud == Digits(p.dom, 10)
           vd == Digits(p.bus, 10)
           wd == Digits(p.slot, 10)
           zd == Digits(p.func, 10)
<1>4. Path(u, v, w, z) = Path(ud, vd, wd, zd)
  BY Zenon DEF NodeName, FileName, Name, Path
<1>5. u = ud /\ v = vd /\ w = wd
  <2> HIDE DEF u, v, w, z, ud, vd, wd, zd
  <2>1. /\ u \in Seq(Alphabet(16)) /\ v \in Seq(Alphabet(16))
        /\ w \in Seq(Alphabet(16)) /\ z \in Seq(Alphabet(16))
    BY <1>2 DEF u, v, w, z
  <2>2. /\ ud \in Seq(Alphabet(10)) /\ vd \in Seq(Alphabet(10))
        /\ wd \in Seq(Alphabet(10)) /\ zd \in Seq(Alphabet(10))
    BY <1>3 DEF ud, vd, wd, zd
  <2> QED
    BY <1>4, <2>1, <2>2, OneReading
<1> QED
  BY <1>1, <1>5

(* The numbers that were asked for are kept when they are small.           *)
LEMMA ParsedKeeps ==
  ASSUME NEW a \in CommandLine
  PROVE  /\ a.dom \in 0 .. 2^16 - 1 => Parsed(a).dom = a.dom
         /\ a.bus \in 0 .. 2^8 - 1 => Parsed(a).bus = a.bus
         /\ a.slot \in 0 .. 2^5 - 1 => Parsed(a).slot = a.slot
<1>1. 2^16 = 65536 /\ 2^8 = 256 /\ 2^5 = 32
  OBVIOUS
<1> DEFINE dom == a.dom
           bus == a.bus
           slot == a.slot
<1>2. dom \in Int /\ bus \in Int /\ slot \in Int
  BY DEF CommandLine
<1>3. /\ Parsed(a).dom = dom % DOM_WRAP
      /\ Parsed(a).bus = bus % 65536 /\ Parsed(a).slot = slot % 256
  BY <1>1 DEF Parsed
<1> HIDE DEF dom, bus, slot
<1>4. ASSUME dom \in 0 .. 2^16 - 1
      PROVE  dom % DOM_WRAP = dom
  <2>1. DOM_WRAP \in Nat \ {0} /\ DOM_WRAP > 65536
    BY <1>1, ExampleAssumption
  <2>2. dom \in Nat /\ dom < DOM_WRAP
    BY <1>1, <1>4, <2>1
  <2> QED
    BY <2>1, <2>2, SmallRemainder
<1>5. bus \in 0 .. 2^8 - 1 => bus % 65536 = bus
  BY <1>1, <1>2
<1>6. slot \in 0 .. 2^5 - 1 => slot % 256 = slot
  BY <1>1, <1>2
<1>7. a.dom = dom /\ a.bus = bus /\ a.slot = slot
  BY DEF dom, bus, slot
<1> QED
  BY <1>3, <1>4, <1>5, <1>6, <1>7

(* The program opens the device it was asked for exactly when every number *)
(* asked for is a single decimal digit: for every set of devices and every *)
(* command line, whatever driver and device do (pciemu_example.c:92-93,    *)
(* 182-226, pciemu_module.c:239-243).                                      *)
THEOREM AskedForExactlyBelowTen ==
  ExSpec => [](\A t \in Threads : \A n \in opened[t] : AskedFor(t, n) <=> SingleDigits(t))
<1>1. ExTypeOK => \A t \in Threads : \A n \in opened[t] : AskedFor(t, n) <=> SingleDigits(t)
  <2> SUFFICES ASSUME ExTypeOK, NEW t \in Threads, NEW n \in opened[t]
               PROVE  /\ n.dom = args[t].dom /\ n.bus = args[t].bus /\ n.slot = args[t].slot
                      <=> {args[t].dom, args[t].bus, args[t].slot} \subseteq 0 .. 9
    BY DEF AskedFor, SingleDigits
  <2> DEFINE a == args[t]
             p == Parsed(a)
  <2>1. a \in CommandLine /\ n \in PciNumbers /\ p \in PciNumbers /\ NodeName(n) = FileName(p)
    BY ExampleAssumption DEF ExTypeOK, InRange, Named
  <2> HIDE DEF a, p
  <2>2. /\ n.dom \in 0 .. 2^16 - 1 /\ n.bus \in 0 .. 2^8 - 1 /\ n.slot \in 0 .. 2^5 - 1
    BY <2>1 DEF PciNumbers
  <2>3. /\ n.dom \in Nat /\ n.bus \in Nat /\ n.slot \in Nat
        /\ p.dom \in Nat /\ p.bus \in Nat /\ p.slot \in Nat
        /\ Digits(n.dom, 16) = Digits(p.dom, 10)
        /\ Digits(n.bus, 16) = Digits(p.bus, 10)
        /\ Digits(n.slot, 16) = Digits(p.slot, 10)
    BY <2>1, FoundByDigits, Zenon
  <2>4. /\ n.dom = p.dom <=> p.dom < 10
        /\ n.bus = p.bus <=> p.bus < 10
        /\ n.slot = p.slot <=> p.slot < 10
    BY <2>3, SameNumber, Zenon
  <2>5. /\ a.dom \in 0 .. 2^16 - 1 => p.dom = a.dom
        /\ a.bus \in 0 .. 2^8 - 1 => p.bus = a.bus
        /\ a.slot \in 0 .. 2^5 - 1 => p.slot = a.slot
    BY <2>1, ParsedKeeps DEF p
  <2>6. ASSUME n.dom = a.dom, n.bus = a.bus, n.slot = a.slot
        PROVE  a.dom \in 0 .. 9 /\ a.bus \in 0 .. 9 /\ a.slot \in 0 .. 9
    <3>1. p.dom = n.dom /\ p.bus = n.bus /\ p.slot = n.slot
      BY <2>2, <2>5, <2>6, Zenon
    <3>2. p.dom \in 0 .. 9 /\ p.bus \in 0 .. 9 /\ p.slot \in 0 .. 9
      BY <2>3, <2>4, <3>1
    <3> QED
      BY <2>6, <3>1, <3>2, Zenon
  <2>7. ASSUME a.dom \in 0 .. 9, a.bus \in 0 .. 9, a.slot \in 0 .. 9
        PROVE  n.dom = a.dom /\ n.bus = a.bus /\ n.slot = a.slot
    <3>1. a.dom \in 0 .. 2^16 - 1 /\ a.bus \in 0 .. 2^8 - 1 /\ a.slot \in 0 .. 2^5 - 1
      BY <2>7
    <3>2. p.dom = a.dom /\ p.bus = a.bus /\ p.slot = a.slot
      BY <2>5, <3>1, Zenon
    <3>3. a.dom < 10 /\ a.bus < 10 /\ a.slot < 10
      BY <2>7
    <3> QED
      BY <2>4, <3>2, <3>3, Zenon
  <2> QED
    BY <2>6, <2>7 DEF a
<1> QED
  BY <1>1, ExTypeCorrect, PTL

(* Command lines of single digits open what they ask for                   *)
(* (pciemu_example.c:92-93, 182-226, pciemu_module.c:239-243).             *)
THEOREM BelowTenOpened == ExSpec => []OpensAskedForBelowTen
<1>1. (\A t \in Threads : \A n \in opened[t] : AskedFor(t, n) <=> SingleDigits(t))
        => OpensAskedForBelowTen
  BY DEF OpensAskedForBelowTen
<1> QED
  BY <1>1, AskedForExactlyBelowTen, PTL
=============================================================================
