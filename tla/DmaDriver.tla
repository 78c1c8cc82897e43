------------------------------ MODULE DmaDriver ------------------------------
(***************************************************************************)
(* The kernel driver at work: pciemu_ioctl (pciemu_module.c), the two DMA  *)
(* functions (pciemu_dma.c) and the interrupt handler (pciemu_irq.c), run  *)
(* by any number of threads over the device of module Aurora.              *)
(*                                                                         *)
(* A thread is preempted between any two steps, the interrupt handler runs *)
(* on another CPU, and the device works between two cells of a transfer.   *)
(* A cell is an int, the unit the driver transfers; a page holds one.      *)
(*                                                                         *)
(* user is memory as the CPU sees it, mem as the bus does: mapping a page  *)
(* for the device hands the contents over, unmapping hands them back (the  *)
(* contract of the streaming DMA API, with or without bounce buffers).     *)
(***************************************************************************)
EXTENDS Aurora, FiniteSetsExt, Integers

CONSTANTS
  Threads,   (* threads that have the device file open                     *)
  Pages,     (* user pages, by the bus address they are mapped at          *)
  UserInit,  (* page -> the int a program starts with in it                *)
  CanFail,   (* whether pinning and mapping may fail                       *)
  MaxOps     (* ioctls after a boot (bounds the runs)                      *)

(* The DMA mask set in pciemu_probe keeps handles within what the device's *)
(* own mask lets through.                                                  *)
ASSUME DriverAssumption ==
  /\ Pages \subseteq Ram \cap Val
  /\ \A p \in Pages : aurora_dma_addr_mask(p) = p
  /\ AREA_START \in Val
  /\ UserInit \in [Pages -> Val]
  /\ CanFail \in BOOLEAN
  /\ MaxOps \in Nat
  /\ IsFiniteSet(Threads) /\ IsFiniteSet(Pages)

VARIABLES
  pc,      (* where each thread is in pciemu_ioctl                         *)
  dir,     (* the direction its ioctl command asks for                     *)
  vaddr,   (* the page its argument points into                            *)
  page,    (* the page parameter of pciemu_dma_from_...                    *)
  ret,     (* what pciemu_dma_from_... returned last                       *)
  dma,     (* pciemu_dev->dma, shared: page, dma_handle, direction, completion *)
  mtx,     (* pciemu_dev->dma.mtx: the threads that hold it                *)
  hpc,     (* where pciemu_irq_handler is                                  *)
  user,    (* user memory, as the CPU sees it                              *)
  mapped,  (* handles mapped for the device                                *)
  pins,    (* references taken on each page, less those dropped            *)
  leaks,   (* references an error path never dropped (history)             *)
  ops      (* ioctls entered since the boot                                *)

threadVars == <<pc, dir, vaddr, page, ret>>
kernelVars == <<user, mapped, pins, leaks, ops>>
drvVars == <<threadVars, dma, mtx, hpc, kernelVars>>
vars == <<devVars, drvVars>>

(* Right after pciemu_probe: pciemu_dev comes from kmalloc, not zeroed. *)
DriverInit ==
  /\ pc = [t \in Threads |-> "idle"]
  /\ dir = [t \in Threads |-> TO_DEVICE]
  /\ \E p \in Pages :
       /\ vaddr = [t \in Threads |-> p]
       /\ page = [t \in Threads |-> p]
       /\ dma = [page |-> p, handle |-> p, direction |-> TO_DEVICE,
                 completion |-> FALSE]
  /\ ret = [t \in Threads |-> "0"]
  /\ mtx = {} /\ hpc = "none"
  /\ user = UserInit /\ mapped = {}
  /\ pins = [p \in Pages |-> 0] /\ leaks = 0 /\ ops = 0

Init ==
  /\ msixOn = TRUE /\ msiOn = FALSE /\ IrqInit
  /\ AuroraInit
  /\ mem \in [Ram -> Garbage]
  /\ DriverInit

-----------------------------------------------------------------------------
(* pciemu_ioctl                                                            *)

Goto(t, from, to) == pc[t] = from /\ pc' = [pc EXCEPT ![t] = to]

(* get_user_pages_fast stores the page in the shared struct, unlocked. *)
PinPage(t, d, p) ==
  /\ ops < MaxOps /\ ops' = ops + 1
  /\ Goto(t, "idle", "call")
  /\ dir' = [dir EXCEPT ![t] = d]
  /\ vaddr' = [vaddr EXCEPT ![t] = p]
  /\ dma' = [dma EXCEPT !.page = p]
  /\ pins' = [pins EXCEPT ![p] = @ + 1]
  /\ UNCHANGED <<devVars, page, ret, mtx, hpc, user, mapped, leaks>>

(* No page pinned: the ioctl does nothing and returns 0. *)
PinFails(t) ==
  /\ CanFail
  /\ ops < MaxOps /\ ops' = ops + 1
  /\ pc[t] = "idle"
  /\ UNCHANGED <<devVars, threadVars, dma, mtx, hpc, user, mapped, pins, leaks>>

(* ioctl(fd, d, &p), up to the call of the DMA function *)
Ioctl(t, d, p) == PinPage(t, d, p) \/ PinFails(t)

(* The argument of the call is read back from the shared struct. *)
CallDma(t) ==
  /\ Goto(t, "call", "lock")
  /\ page' = [page EXCEPT ![t] = dma.page]
  /\ UNCHANGED <<devVars, dir, vaddr, ret, dma, mtx, hpc, kernelVars>>

-----------------------------------------------------------------------------
(* pciemu_dma_from_host_to_device and pciemu_dma_from_device_to_host       *)

(* A bug this code could have: the mutex is not taken. *)
LockUnguarded(t) ==
  /\ Goto(t, "lock", "map")
  /\ mtx' = mtx \cup {t}
  /\ dma' = [dma EXCEPT !.direction = dir[t], !.completion = FALSE]
  /\ UNCHANGED <<devVars, dir, vaddr, page, ret, hpc, kernelVars>>

(* mutex_lock, then pciemu_dma_struct_init *)
Lock(t) ==
  /\ Goto(t, "lock", "map")
  /\ mtx = {} /\ mtx' = {t}
  /\ dma' = [dma EXCEPT !.direction = dir[t], !.completion = FALSE]
  /\ UNCHANGED <<devVars, dir, vaddr, page, ret, hpc, kernelVars>>

(* dma_map_page, external: the CPU's data becomes the device's. *)
dma_map_page(p, d) ==
  /\ mapped' = mapped \cup {p}
  /\ mem' = IF d = TO_DEVICE THEN [mem EXCEPT ![p] = user[p]] ELSE mem

MapPage(t) ==
  /\ Goto(t, "map", "src")
  /\ dma' = [dma EXCEPT !.handle = page[t]]
  /\ dma_map_page(page[t], dma.direction)
  /\ UNCHANGED <<pciVars, irqVars, status, cfg, buff, regs, dpc, idx>>
  /\ UNCHANGED <<dir, vaddr, page, ret, mtx, hpc, user, pins, leaks, ops>>

(* What dma_map_page returns when it fails, external: no address of a page. *)
DMA_MAPPING_ERROR == ALL_ONES

(* dma_mapping_error, found in the handle that was stored already: the     *)
(* page stays pinned, pciemu_ioctl returns 0.                              *)
MapFails(t) ==
  /\ CanFail
  /\ Goto(t, "map", "idle")
  /\ mtx' = mtx \ {t}
  /\ ret' = [ret EXCEPT ![t] = "-ENOMEM"]
  /\ dma' = [dma EXCEPT !.handle = DMA_MAPPING_ERROR]
  /\ leaks' = leaks + 1
  /\ UNCHANGED <<devVars, dir, vaddr, page, hpc, user, mapped, pins, ops>>

(* One iowrite32; the CPU stays in it until the device is done with it. *)
WriteReg(t, from, reg, value, to) ==
  /\ Goto(t, from, to)
  /\ GuestWrite(reg, value)
  /\ UNCHANGED <<dir, vaddr, page, ret, dma, mtx, hpc, kernelVars>>

(* A bug this code could have: the device address is one past the area.    *)
WriteDstOffByOne(t) ==
  WriteReg(t, "dst", "dst",
           IF dir[t] = TO_DEVICE THEN AREA_START + 1 ELSE dma.handle, "len")

WriteSrc(t) ==
  WriteReg(t, "src", "src",
           IF dir[t] = TO_DEVICE THEN dma.handle ELSE AREA_START, "dst")
WriteDst(t) ==
  WriteReg(t, "dst", "dst",
           IF dir[t] = TO_DEVICE THEN AREA_START ELSE dma.handle, "len")
WriteLen(t) == WriteReg(t, "len", "len", 1, "cmd")
WriteCmd(t) == WriteReg(t, "cmd", "cmd", dir[t], "bell")
RingDoorbell(t) == WriteReg(t, "bell", "doorbell", 1, "wait")

(* A bug this code could have: nobody waits for the completion.            *)
WaitForNothing(t) ==
  /\ dpc = "idle"
  /\ Goto(t, "wait", "unlock")
  /\ UNCHANGED <<devVars, dir, vaddr, page, ret, dma, mtx, hpc, kernelVars>>

(* wait_for_completion, entered once the doorbell's iowrite32 is over *)
WaitForCompletion(t) ==
  /\ dpc = "idle" /\ dma.completion
  /\ Goto(t, "wait", "unlock")
  /\ UNCHANGED <<devVars, dir, vaddr, page, ret, dma, mtx, hpc, kernelVars>>

(* mutex_unlock, and the return of pciemu_ioctl *)
Unlock(t) ==
  /\ Goto(t, "unlock", "idle")
  /\ mtx' = mtx \ {t}
  /\ ret' = [ret EXCEPT ![t] = "0"]
  /\ UNCHANGED <<devVars, dir, vaddr, page, dma, hpc, kernelVars>>

-----------------------------------------------------------------------------
(* pciemu_irq_handler                                                      *)

HandlerGoto(from, to) == hpc = from /\ hpc' = to

IrqEnter ==
  /\ HandlerGoto("none", "unmap")
  /\ TakeMessage(0)
  /\ UNCHANGED <<pciVars, status, cfg, buff, regs, dpc, idx, mem>>
  /\ UNCHANGED <<threadVars, dma, mtx, kernelVars>>

(* A bug this code could have: the page is handed back the wrong way. *)
UnmapForgetsDirection ==
  /\ HandlerGoto("unmap", "put")
  /\ mapped' = mapped \ {dma.handle}
  /\ UNCHANGED <<devVars, threadVars, dma, mtx, user, pins, leaks, ops>>

(* dma_unmap_page, external: the device's data becomes the CPU's. *)
UnmapPage ==
  /\ HandlerGoto("unmap", "put")
  /\ mapped' = mapped \ {dma.handle}
  /\ user' = IF dma.direction = FROM_DEVICE
               THEN [user EXCEPT ![dma.handle] = mem[dma.handle]] ELSE user
  /\ UNCHANGED <<devVars, threadVars, dma, mtx, pins, leaks, ops>>

(* A bug this code could have: the reference is not dropped. *)
PutForgotten ==
  /\ HandlerGoto("put", "ack")
  /\ UNCHANGED <<devVars, threadVars, dma, mtx, kernelVars>>

(* put_page of whatever page the shared struct names by now *)
PutPage ==
  /\ HandlerGoto("put", "ack")
  /\ pins' = [pins EXCEPT ![dma.page] = @ - 1]
  /\ UNCHANGED <<devVars, threadVars, dma, mtx, user, mapped, leaks, ops>>

AckIrq ==
  /\ HandlerGoto("ack", "complete")
  /\ GuestWrite("irq0_lower", 1)
  /\ UNCHANGED <<threadVars, dma, mtx, kernelVars>>

CompleteAll ==
  /\ HandlerGoto("complete", "none")
  /\ dma' = [dma EXCEPT !.completion = TRUE]
  /\ UNCHANGED <<devVars, threadVars, mtx, kernelVars>>

-----------------------------------------------------------------------------
(* A program stores to a general-purpose register through pciemu_mmap. *)
MmapWrite ==
  /\ \E r \in Regs : \E v \in Inputs[r] : GuestWrite(r, v)
  /\ UNCHANGED drvVars

(* The device's own steps, inside the doorbell's iowrite32. *)
DeviceWorks == DoorbellStep /\ UNCHANGED drvVars

(* The guest reboots and probes the device again; locals and the struct    *)
(* from kmalloc hold what is left in memory.                               *)
Reboot ==
  /\ ResetDevice
  /\ pc' = [t \in Threads |-> "idle"]
  /\ ret' = [t \in Threads |-> "0"]
  /\ mtx' = {} /\ hpc' = "none"
  /\ user' = UserInit /\ mapped' = {}
  /\ pins' = [p \in Pages |-> 0] /\ leaks' = 0 /\ ops' = 0
  /\ UNCHANGED <<pciVars, mem, dir, vaddr, page, dma>>

ThreadStep(t) ==
  \/ CallDma(t) \/ MapPage(t) \/ MapFails(t)
  \/ WriteSrc(t) \/ WriteDst(t) \/ WriteLen(t) \/ WriteCmd(t) \/ RingDoorbell(t)
  \/ WaitForCompletion(t) \/ Unlock(t)

HandlerStep == IrqEnter \/ UnmapPage \/ PutPage \/ AckIrq \/ CompleteAll

Next ==
  \/ \E t \in Threads :
       \/ \E d \in {TO_DEVICE, FROM_DEVICE}, p \in Pages : Ioctl(t, d, p)
       \/ Lock(t)
       \/ ThreadStep(t)
  \/ HandlerStep
  \/ DeviceWorks
  \/ MmapWrite
  \/ Reboot

(* The scheduler runs every runnable thread, the interrupt is delivered    *)
(* and the device finishes what it started; the kernel's mutex hands over  *)
(* to a waiter it would otherwise starve.                                  *)
Fairness ==
  /\ \A t \in Threads : WF_vars(ThreadStep(t)) /\ SF_vars(Lock(t))
  /\ WF_vars(HandlerStep)
  /\ WF_vars(DeviceWorks)

Spec == Init /\ [][Next]_vars /\ Fairness

-----------------------------------------------------------------------------
PCs == {"idle", "call", "lock", "map", "src", "dst", "len", "cmd", "bell",
        "wait", "unlock"}

(* Where a thread holds the mutex, and where its page is mapped as well.   *)
Critical == PCs \ {"idle", "call", "lock"}
Programming == {"src", "dst", "len", "cmd", "bell"}

(* Every variable holds a value of its C type. *)
TypeOK ==
  /\ DevTypeOK
  /\ pc \in [Threads -> PCs]
  /\ dir \in [Threads -> {TO_DEVICE, FROM_DEVICE}]
  /\ vaddr \in [Threads -> Pages]
  /\ page \in [Threads -> Pages]
  /\ ret \in [Threads -> {"0", "-ENOMEM"}]
  /\ dma \in [page : Pages, handle : Pages \cup {DMA_MAPPING_ERROR},
              direction : {TO_DEVICE, FROM_DEVICE}, completion : BOOLEAN]
  /\ mtx \in SUBSET Threads
  /\ hpc \in {"none", "unmap", "put", "ack", "complete"}
  /\ user \in [Pages -> Val]
  /\ mapped \in SUBSET Pages
  /\ pins \in [Pages -> Int] /\ leaks \in Nat /\ ops \in Nat

(* The descriptor a call of t programs. *)
Src(t) == IF dir[t] = TO_DEVICE THEN page[t] ELSE AREA_START
Dst(t) == IF dir[t] = TO_DEVICE THEN AREA_START ELSE page[t]

(* The mutex belongs to the one thread between Lock and its release.       *)
MutexOwned == \A t \in Threads : pc[t] \in Critical <=> mtx = {t}

(* The driver only ever runs with MSI-X enabled. *)
MsixMode == msixOn /\ ~msiOn

(* Nothing of a transfer is left: not in the device, not on its way to the *)
(* CPU and not in the handler.                                             *)
Quiet == dpc = "idle" /\ irr = {} /\ hpc = "none"

(* The registers written so far are those of the call that holds the mutex. *)
Programmed(t) ==
  /\ pc[t] \in {"dst", "len", "cmd", "bell", "wait"} => cfg.src = Src(t)
  /\ pc[t] \in {"len", "cmd", "bell", "wait"} => cfg.dst = Dst(t)
  /\ pc[t] \in {"cmd", "bell", "wait"} => cfg.len = 1
  /\ pc[t] \in {"bell", "wait"} => cfg.cmd = dir[t]

(* The shared struct describes the call that holds the mutex. *)
Described(t) ==
  /\ pc[t] \in {"map", "src", "dst", "len", "cmd", "bell", "wait"} =>
       dma.direction = dir[t]
  /\ pc[t] \in Programming \cup {"wait"} => dma.handle = page[t]
  /\ pc[t] \in {"map"} \cup Programming => ~dma.completion

(* How far a rung transfer has come, from the copy to the completion.      *)
Copying == dpc = "copy" /\ irr = {} /\ hpc = "none" /\ ~dma.completion
Raised == dpc # "copy" /\ irr = {0} /\ hpc = "none" /\ ~dma.completion
Handling == dpc # "copy" /\ irr = {} /\ hpc # "none" /\ ~dma.completion
Completed == Quiet /\ dma.completion

Phase(t) ==
  /\ pc[t] \in {"map"} \cup Programming => Quiet
  /\ pc[t] = "wait" => Copying \/ Raised \/ Handling \/ Completed
  /\ pc[t] = "unlock" => Completed
  /\ hpc = "complete" => dpc = "idle"

(* The page is mapped from MapPage to the handler's UnmapPage. *)
MappedPages(t) ==
  mapped = IF \/ pc[t] \in Programming
              \/ pc[t] = "wait" /\ ~Completed /\ hpc \in {"none", "unmap"}
             THEN {page[t]} ELSE {}

(* Where the int is: handed over to the bus, in the device, or on its way  *)
(* back.                                                                   *)
Copied == ~(dpc = "copy" /\ idx = 0)
DataMoves(t) ==
  /\ /\ dir[t] = TO_DEVICE
     /\ pc[t] \in Programming \/ (pc[t] = "wait" /\ ~Copied)
     => mem[page[t]] = user[page[t]]
  /\ dir[t] = FROM_DEVICE /\ pc[t] = "wait" /\ mapped # {} /\ Copied =>
       mem[page[t]] = buff[0]

(* The inductive invariant: what the mutex holder may rely on, and what is *)
(* true when there is none.                                                *)
HolderInv ==
  \A t \in Threads : mtx = {t} =>
    Programmed(t) /\ Described(t) /\ Phase(t) /\ MappedPages(t) /\ DataMoves(t)
FreeInv == (\A t \in Threads : mtx # {t}) => Quiet /\ mapped = {} /\ mtx = {}

IndInv ==
  /\ TypeOK /\ MsixMode /\ EngineStatus
  /\ MutexOwned /\ HolderInv /\ FreeInv

-----------------------------------------------------------------------------
(* While a doorbell is in progress the device works on the descriptor of   *)
(* the call that holds the mutex, complete and unmixed with any other      *)
(* call's (pciemu_dma.c:19-41).                                            *)
DescriptorIsHolders ==
  dpc # "idle" =>
    \E t \in Threads :
      /\ mtx = {t} /\ pc[t] = "wait"
      /\ cfg.src = Src(t) /\ cfg.dst = Dst(t)
      /\ cfg.len = 1 /\ cfg.cmd = dir[t]

(* The next cell of a transfer lies in a page that is mapped for the       *)
(* device: the handler never unmaps a page the engine still works on       *)
(* (pciemu_irq.c:14, dma.c:36-84).                                         *)
DeviceTouchesOnlyMapped ==
  dpc = "copy" /\ idx < cfg.len =>
    aurora_dma_addr_mask(IF cfg.cmd = TO_DEVICE THEN cfg.src ELSE cfg.dst) + idx
      \in mapped

(* When a waiter is woken, its transfer, the interrupt, the handler and    *)
(* the mapping are all over: no late handler meets the next call's struct  *)
(* (pciemu_dma.c:41, pciemu_irq.c:20).                                     *)
WokenAfterTransfer ==
  \A t \in Threads : pc[t] = "unlock" => Quiet /\ mapped = {}

(* The driver's transfers never reach the general-purpose registers that   *)
(* lie behind the DMA area: only a program's own store changes them.       *)
RegsOnlyByMmap == [][regs' # regs => dpc = "idle"]_vars

(* Every reference taken by get_user_pages_fast is dropped once, by the    *)
(* handler of a transfer, except those the -ENOMEM path leaves behind; the *)
(* sum is right even when threads overwrite each other's dma.page.         *)
PutDone(t) ==
  \/ pc[t] = "unlock"
  \/ pc[t] = "wait" /\ (Completed \/ hpc \in {"ack", "complete"})
PinsConserved ==
  MapThenSumSet(LAMBDA p : pins[p], Pages) =
    leaks + Cardinality({t \in Threads : pc[t] # "idle" /\ ~PutDone(t)})

(* Every ioctl returns: no lost wake-up, no interrupt that is missed, no   *)
(* thread left waiting for the mutex.                                      *)
IoctlReturns == \A t \in Threads : pc[t] # "idle" ~> pc[t] = "idle"

(* The contract of the two DMA functions.  A call into the device takes    *)
(* effect when the engine copies the cell, a call out of it when the       *)
(* handler unmaps the page.                                                *)
TookEffect(t) ==
  \/ pc[t] = "unlock"
  \/ pc[t] = "wait" /\ dir[t] = TO_DEVICE /\ Copied
  \/ pc[t] = "wait" /\ dir[t] = FROM_DEVICE /\ mapped = {}

CallOf(t) ==
  IF pc[t] \in {"idle", "call"}
    THEN [st |-> "idle", dir |-> 0, page |-> 0]
    ELSE [st |-> IF TookEffect(t) THEN "done" ELSE "called",
          dir |-> dir[t], page |-> page[t]]

Contract == INSTANCE DmaCall WITH op <- [t \in Threads |-> CallOf(t)],
                                  store <- buff[0]

(* The driver, the interrupt handler and the device together implement     *)
(* module DmaCall: every call takes effect at one instant, or not at all   *)
(* (pciemu_dma.c:15-78, pciemu_irq.c:7-22, dma.c:36-128).                  *)
ImplementsDmaCall == Contract!Spec

(* The comment in pciemu_example.c:129, that the value of the variable the *)
(* ioctl is given is the one DMA'ed: the page a call maps is the page its  *)
(* own ioctl was given.                                                    *)
TransferUsesCallersPage ==
  \A t \in Threads : pc[t] \in Programming => page[t] = vaddr[t]
=============================================================================
