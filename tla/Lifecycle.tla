------------------------------ MODULE Lifecycle ------------------------------
(***************************************************************************)
(* How the driver comes and goes: pciemu_module_init and _exit,            *)
(* pciemu_probe with its unwind labels, pciemu_remove (pciemu_module.c)    *)
(* and pciemu_irq_enable (pciemu_irq.c).                                   *)
(*                                                                         *)
(* ppc is the next call of probe, the label probe unwinds from, or the     *)
(* next call of remove.  The node is visible to programs from the moment   *)
(* device_create makes it, so they open the device, transfer and meet      *)
(* interrupts while probe and remove are still on their way.               *)
(***************************************************************************)
EXTENDS Integers

CONSTANTS CapSets   (* which capabilities the device may offer             *)

Bars == {"reg", "mem", "int"}

(* What probe acquires, each named for the call that does it. *)
Resources ==
  {"alloc", "enabled", "master", "regions", "chrdev", "cdev", "node",
   "vectors", "irq"} \cup Bars

ASSUME LifeAssumption == CapSets \subseteq SUBSET {"msix", "msi"}

VARIABLES
  mod,      (* the module: "out", "class", "in" or "leaving"               *)
  ppc,      (* where probe or remove is; "unbound", "bound" between them   *)
  err,      (* the local variable of pciemu_probe                          *)
  held,     (* the resources acquired and not released                     *)
  caps,     (* the capabilities of this device                             *)
  mmio,     (* the mmio pointer of each BAR: "null", "mapped", "unmapped"  *)
            (* once it dangles, or "wild" before it is first set           *)
  ack,      (* whether irq.mmio_ack_irq was set                            *)
  mtx,      (* whether dma.mtx was initialised                             *)
  file,     (* a program's file: "none", "open", or "stale" once it is freed *)
  pending,  (* an interrupt message is on its way                          *)
  acked     (* where the last ACK went: "device" or "lost"                 *)

devVars == <<mmio, ack, mtx>>
useVars == <<file, pending, acked>>
vars == <<mod, ppc, err, held, caps, devVars, useVars>>

Init ==
  /\ mod = "out" /\ ppc = "unbound" /\ err = 0
  /\ held = {} /\ caps \in CapSets
  /\ mmio = [b \in Bars |-> "wild"] /\ ack = FALSE /\ mtx = FALSE
  /\ file = "none" /\ pending = FALSE /\ acked = "device"

-----------------------------------------------------------------------------
(* pciemu_module_init and pciemu_module_exit                               *)

Module(from, to) ==
  /\ mod = from /\ mod' = to
  /\ UNCHANGED <<ppc, err, held, caps, devVars, useVars>>

CreateClass == Module("out", "class")
RegisterDriver == Module("class", "in")
RegisterFails == Module("class", "out")

(* pci_unregister_driver waits for the devices; an open file keeps the     *)
(* module in, being counted for the owner of pciemu_fops.                  *)
UnregisterDriver == file = "none" /\ Module("in", "leaving")
DestroyClass == ppc = "unbound" /\ Module("leaving", "out")

-----------------------------------------------------------------------------
(* pciemu_probe                                                            *)

Step(from, to) == ppc = from /\ ppc' = to

Acquire(from, r, to) ==
  /\ Step(from, to)
  /\ held' = held \cup {r} /\ err' = 0
  /\ UNCHANGED <<mod, caps, devVars, useVars>>

(* The call fails and probe jumps to a label.  lost is what the function   *)
(* that fails releases by itself before it returns.                        *)
Fails(from, lost, label) ==
  /\ Step(from, label)
  /\ held' = held \ lost /\ err' = -1
  /\ pending' = (pending /\ "vectors" \notin lost)
  /\ UNCHANGED <<mod, caps, devVars, file, acked>>

(* kmalloc: nothing in the struct is initialised. *)
AllocDev ==
  /\ mod = "in" /\ Step("unbound", "enable")
  /\ held' = held \cup {"alloc"}
  /\ mmio' \in [Bars -> {"null", "wild"}] /\ ack' = FALSE /\ mtx' = FALSE
  /\ UNCHANGED <<mod, err, caps, useVars>>
AllocFails == mod = "in" /\ Fails("unbound", {}, "err_pciemu_alloc")

EnableDevice ==
  \/ Acquire("enable", "enabled", "mask")
  \/ Fails("enable", {}, "err_pci_enable")

(* dma_set_mask_and_coherent, then pci_set_master *)
SetMask ==
  \/ Acquire("mask", "master", "select")
  \/ Fails("mask", {}, "err_dma_set_mask")

(* A missing BAR sends probe to a label without an error code. *)
SelectBars ==
  /\ Step("select", "request") \/ Step("select", "err_req_region")
  /\ UNCHANGED <<mod, err, held, caps, devVars, useVars>>

RequestRegions ==
  \/ Acquire("request", "regions", "map_reg")
  \/ Fails("request", {}, "err_req_region")

(* pciemu_dev_clean unmaps what is not NULL and does not reset the pointer. *)
pciemu_dev_clean(ptrs) ==
  [b \in Bars |-> IF ptrs[b] = "null" THEN "null" ELSE "unmapped"]

MapBar(from, bar, to) ==
  /\ Step(from, to)
  /\ held' = held \cup {bar} /\ err' = 0
  /\ mmio' = [mmio EXCEPT ![bar] = "mapped"]
  /\ UNCHANGED <<mod, caps, ack, mtx, useVars>>

(* pci_iomap gives NULL; pointers of BARs that come later were never set.  *)
MapFails(from, bar, label) ==
  /\ Step(from, label)
  /\ held' = held \ Bars /\ err' = -1
  /\ mmio' = pciemu_dev_clean([mmio EXCEPT ![bar] = "null"])
  /\ UNCHANGED <<mod, caps, ack, mtx, useVars>>

(* A bug this code could have: pciemu_probe goes one label too far up and  *)
(* cleans a second time.                                                   *)
DevInitCleanedTwice ==
  \/ MapBar("map_reg", "reg", "map_mem") \/ MapFails("map_reg", "reg", "err_alloc_chrdev")
  \/ MapBar("map_mem", "mem", "map_int") \/ MapFails("map_mem", "mem", "err_alloc_chrdev")
  \/ MapBar("map_int", "int", "chrdev")  \/ MapFails("map_int", "int", "err_alloc_chrdev")

(* pciemu_dev_init *)
DevInit ==
  \/ MapBar("map_reg", "reg", "map_mem") \/ MapFails("map_reg", "reg", "err_dev_init")
  \/ MapBar("map_mem", "mem", "map_int") \/ MapFails("map_mem", "mem", "err_dev_init")
  \/ MapBar("map_int", "int", "chrdev")  \/ MapFails("map_int", "int", "err_dev_init")

AddDevice ==
  \/ Acquire("chrdev", "chrdev", "cdev") \/ Fails("chrdev", {}, "err_alloc_chrdev")
  \/ Acquire("cdev", "cdev", "node")     \/ Fails("cdev", {}, "err_cdev_add")
  \/ Acquire("node", "node", "vectors")  \/ Fails("node", {}, "err_device_create")

(* A bug this code could have: the vectors stay allocated on a failure.    *)
EnableForgetsVectors ==
  \/ /\ caps # {}
     /\ \/ Acquire("vectors", "vectors", "request_irq")
        \/ Fails("vectors", {}, "err_irq_enable")
  \/ /\ caps = {}
     /\ \/ Fails("vectors", {}, "err_irq_enable")
        \/ /\ Step("vectors", "mutex") /\ err' = 0
           /\ UNCHANGED <<mod, held, caps, devVars, useVars>>
  \/ Acquire("request_irq", "irq", "ack")
  \/ Fails("request_irq", {}, "err_irq_enable")

(* pciemu_irq_enable up to request_irq, the same for MSI-X and MSI.  With  *)
(* neither it returns without a value.                                     *)
IrqEnable ==
  \/ /\ caps # {}
     /\ \/ Acquire("vectors", "vectors", "request_irq")
        \/ Fails("vectors", {}, "err_irq_enable")
  \/ /\ caps = {}
     /\ \/ Fails("vectors", {}, "err_irq_enable")
        \/ /\ Step("vectors", "mutex") /\ err' = 0
           /\ UNCHANGED <<mod, held, caps, devVars, useVars>>
  \/ Acquire("request_irq", "irq", "ack")
  \/ Fails("request_irq", {"vectors"}, "err_irq_enable")

(* A bug this code could have: the address of the ACK is never set.        *)
SetAckForgets ==
  /\ Step("ack", "mutex")
  /\ UNCHANGED <<mod, err, held, caps, devVars, useVars>>

(* mmio_ack_irq is set when the handler can run already. *)
SetAck ==
  /\ Step("ack", "mutex") /\ ack' = TRUE
  /\ UNCHANGED <<mod, err, held, caps, mmio, mtx, useVars>>

InitMutex ==
  /\ Step("mutex", "bound") /\ mtx' = TRUE
  /\ UNCHANGED <<mod, err, held, caps, mmio, ack, useVars>>

-----------------------------------------------------------------------------
(* The unwind labels, and pciemu_remove.                                   *)
(* kfree of the struct leaves a file that is still open without a device;  *)
(* of what a program does with one, only its mmap is modelled.             *)

Release(from, rs, to) ==
  /\ Step(from, to)
  /\ held' = held \ rs
  /\ file' = IF "alloc" \in rs /\ file = "open" THEN "stale" ELSE file
  /\ mmio' = IF Bars \subseteq rs THEN pciemu_dev_clean(mmio) ELSE mmio
  /\ UNCHANGED <<mod, err, caps, ack, mtx, pending, acked>>

(* A bug this code could have: the regions go before the BARs are unmapped. *)
UnwindRegionsFirst ==
  \/ Release("err_irq_enable", {"node"}, "err_device_create")
  \/ Release("err_device_create", {"cdev"}, "err_cdev_add")
  \/ Release("err_cdev_add", {"chrdev"}, "err_alloc_chrdev")
  \/ Release("err_alloc_chrdev", {"regions"}, "err_dev_init")
  \/ Release("err_dev_init", Bars, "err_req_region")
  \/ Release("err_req_region", {"master"}, "err_dma_set_mask")
  \/ Release("err_dma_set_mask", {"enabled"}, "err_pci_enable")
  \/ Release("err_pci_enable", {"alloc"}, "err_pciemu_alloc")

Unwind ==
  \/ Release("err_irq_enable", {"node"}, "err_device_create")
  \/ Release("err_device_create", {"cdev"}, "err_cdev_add")
  \/ Release("err_cdev_add", {"chrdev"}, "err_alloc_chrdev")
  \/ Release("err_alloc_chrdev", Bars, "err_dev_init")
  \/ Release("err_dev_init", {"regions"}, "err_req_region")
  \/ Release("err_req_region", {"master"}, "err_dma_set_mask")
  \/ Release("err_dma_set_mask", {"enabled"}, "err_pci_enable")
  \/ Release("err_pci_enable", {"alloc"}, "err_pciemu_alloc")

(* The kernel takes 0 for success and has a driver bound without a struct: *)
(* pciemu_remove would follow a null pointer, so only a restart helps.     *)
ReturnError ==
  /\ Step("err_pciemu_alloc", IF err = 0 THEN "phantom" ELSE "unbound")
  /\ UNCHANGED <<mod, err, held, caps, devVars, useVars>>

(* A bug this code could have: the device is stopped after its interrupt   *)
(* was freed.                                                              *)
RemoveMasterLast ==
  \/ Release("bound", {"node"}, "rm_cdev")
  \/ Release("rm_cdev", {"cdev"}, "rm_chrdev")
  \/ Release("rm_chrdev", {"chrdev"}, "rm_clean")
  \/ Release("rm_clean", Bars, "rm_irq")
  \/ Release("rm_vectors", {"vectors"}, "rm_master")
  \/ Release("rm_master", {"master"}, "rm_regions")
  \/ Release("rm_regions", {"regions"}, "rm_disable")
  \/ Release("rm_disable", {"enabled"}, "rm_free")
  \/ Release("rm_free", {"alloc"}, "unbound")

(* pciemu_remove, on an unbind, an unplug or the exit of the module.       *)
Remove ==
  \/ Release("bound", {"node"}, "rm_cdev")
  \/ Release("rm_cdev", {"cdev"}, "rm_chrdev")
  \/ Release("rm_chrdev", {"chrdev"}, "rm_clean")
  \/ Release("rm_clean", Bars, "rm_master")
  \/ Release("rm_master", {"master"}, "rm_irq")
  \/ Release("rm_vectors", {"vectors"}, "rm_regions")
  \/ Release("rm_regions", {"regions"}, "rm_disable")
  \/ Release("rm_disable", {"enabled"}, "rm_free")
  \/ Release("rm_free", {"alloc"}, "unbound")

(* free_irq also forgets a message that was not handled. *)
FreeIrq ==
  /\ Step("rm_irq", "rm_vectors")
  /\ held' = held \ {"irq"} /\ pending' = FALSE
  /\ UNCHANGED <<mod, err, caps, devVars, file, acked>>

-----------------------------------------------------------------------------
(* Programs and interrupts meanwhile.                                      *)

(* A module that is leaving is not opened any more. *)
OpenNode ==
  /\ mod = "in" /\ "node" \in held /\ file = "none" /\ file' = "open"
  /\ UNCHANGED <<mod, ppc, err, held, caps, devVars, pending, acked>>

CloseNode ==
  /\ file # "none" /\ file' = "none"
  /\ UNCHANGED <<mod, ppc, err, held, caps, devVars, pending, acked>>

(* A transfer ends and the device, a bus master with its vectors enabled,  *)
(* sends its message.  The doorbell was rung by an ioctl or through the    *)
(* program's mmap of the register BAR, which neither pciemu_dev_clean nor  *)
(* kfree takes away.                                                       *)
TransferEnds ==
  /\ file # "none" /\ ~pending /\ {"master", "vectors"} \subseteq held
  /\ pending' = TRUE
  /\ UNCHANGED <<mod, ppc, err, held, caps, devVars, file, acked>>

(* pciemu_irq_handler, as far as its ACK goes. *)
HandlerRuns ==
  /\ pending /\ "irq" \in held
  /\ pending' = FALSE
  /\ acked' = IF ack /\ "reg" \in held THEN "device" ELSE "lost"
  /\ UNCHANGED <<mod, ppc, err, held, caps, devVars, file>>

(* The machine starts again, perhaps with another device. *)
Reboot ==
  /\ mod' = "out" /\ ppc' = "unbound" /\ err' = 0
  /\ held' = {} /\ caps' \in CapSets
  /\ mmio' = [b \in Bars |-> "wild"] /\ ack' = FALSE /\ mtx' = FALSE
  /\ file' = "none" /\ pending' = FALSE /\ acked' = "device"

Next ==
  \/ CreateClass \/ RegisterDriver \/ RegisterFails
  \/ UnregisterDriver \/ DestroyClass
  \/ AllocDev \/ AllocFails \/ EnableDevice \/ SetMask \/ SelectBars
  \/ RequestRegions \/ DevInit \/ AddDevice \/ IrqEnable \/ SetAck \/ InitMutex
  \/ Unwind \/ ReturnError
  \/ Remove \/ FreeIrq
  \/ OpenNode \/ CloseNode \/ TransferEnds \/ HandlerRuns
  \/ Reboot

Spec == Init /\ [][Next]_vars

-----------------------------------------------------------------------------
PCs ==
  {"unbound", "phantom", "bound",
   "enable", "mask", "select", "request", "map_reg", "map_mem", "map_int",
   "chrdev", "cdev", "node", "vectors", "request_irq", "ack", "mutex",
   "err_irq_enable", "err_device_create", "err_cdev_add", "err_alloc_chrdev",
   "err_dev_init", "err_req_region", "err_dma_set_mask", "err_pci_enable",
   "err_pciemu_alloc",
   "rm_cdev", "rm_chrdev", "rm_clean", "rm_master", "rm_irq", "rm_vectors",
   "rm_regions", "rm_disable", "rm_free"}

(* Every variable holds a value of its C type. *)
TypeOK ==
  /\ mod \in {"out", "class", "in", "leaving"}
  /\ ppc \in PCs /\ err \in {0, -1}
  /\ held \in SUBSET Resources /\ caps \in CapSets
  /\ mmio \in [Bars -> {"null", "wild", "mapped", "unmapped"}]
  /\ ack \in BOOLEAN /\ mtx \in BOOLEAN
  /\ file \in {"none", "open", "stale"}
  /\ pending \in BOOLEAN /\ acked \in {"device", "lost"}

(* What must be there as long as a resource is. *)
Needs(r) ==
  CASE r \in {"alloc", "chrdev"} -> {}
    [] r = "enabled" -> {"alloc"}
    [] r \in {"master", "regions", "vectors"} -> {"enabled"}
    [] r \in Bars -> {"regions"}
    [] r = "cdev" -> {"chrdev", "alloc"}
    [] r = "node" -> {"cdev", "reg"}
    [] r = "irq" -> {"vectors", "alloc"}

(* On every path, through every label and through remove, a resource goes  *)
(* before what it rests on: a visible node has its character device, its   *)
(* class and a mapped register BAR, mapped BARs have their regions, the    *)
(* handler its vector (pciemu_module.c:155-314).                           *)
HeldIsClosed ==
  /\ \A r \in held : Needs(r) \subseteq held
  /\ "node" \in held => mod \in {"in", "leaving"}

(* What is held before each call of probe and of remove, and at each label *)
(* of the unwinding: one that a call jumps to holds what that call found.  *)
Claimed == {"alloc", "enabled", "master", "regions"}
Complete == IF caps = {} THEN Resources \ {"vectors", "irq"} ELSE Resources
HeldByStage ==
  /\ ppc \in {"unbound", "phantom", "err_pciemu_alloc"} => held = {}
  /\ ppc \in {"enable", "err_pci_enable", "rm_free"} => held = {"alloc"}
  /\ ppc \in {"mask", "err_dma_set_mask", "rm_disable"} => held = {"alloc", "enabled"}
  /\ ppc \in {"select", "request", "err_req_region"} => held = Claimed \ {"regions"}
  /\ ppc \in {"map_reg", "err_dev_init"} => held = Claimed
  /\ ppc = "map_mem" => held = Claimed \cup {"reg"}
  /\ ppc = "map_int" => held = Claimed \cup {"reg", "mem"}
  /\ ppc \in {"chrdev", "err_alloc_chrdev"} => held = Claimed \cup Bars
  /\ ppc \in {"cdev", "err_cdev_add"} => held = Claimed \cup Bars \cup {"chrdev"}
  /\ ppc \in {"node", "err_device_create"} => held = Claimed \cup Bars \cup {"chrdev", "cdev"}
  /\ ppc \in {"vectors", "err_irq_enable"} => held = Resources \ {"vectors", "irq"}
  /\ ppc = "request_irq" => caps # {} /\ held = Resources \ {"irq"}
  /\ ppc = "ack" => caps # {} /\ held = Resources
  /\ ppc \in {"mutex", "bound"} => held = Complete
  /\ ppc = "rm_cdev" => held = Complete \ {"node"}
  /\ ppc = "rm_chrdev" => held = Complete \ {"node", "cdev"}
  /\ ppc = "rm_clean" => held = Complete \ {"node", "cdev", "chrdev"}
  /\ ppc = "rm_master" => held = Claimed \cup (Complete \cap {"vectors", "irq"})
  /\ ppc = "rm_irq" => held = (Claimed \ {"master"}) \cup (Complete \cap {"vectors", "irq"})
  /\ ppc = "rm_vectors" => held = (Claimed \ {"master"}) \cup (Complete \cap {"vectors"})
  /\ ppc = "rm_regions" => held = Claimed \ {"master"}

(* What goes with it: the module, the pointers to the BARs, the two parts  *)
(* of the struct that are set last.                                        *)
StageState ==
  /\ ppc # "unbound" => mod \in {"in", "leaving"}
  /\ \A b \in Bars : b \in held => mmio[b] = "mapped"
  /\ ppc \in {"mutex", "bound"} /\ caps # {} => ack
  /\ ppc = "bound" => mtx

(* On every way through probe, its labels and remove, exactly what was     *)
(* acquired and not released is held, in an order in which nothing         *)
(* outlives what it rests on (pciemu_module.c:155-314).                    *)
LifeInv == TypeOK /\ HeldByStage /\ StageState /\ HeldIsClosed

(* After a probe that failed at any call, and after a remove, nothing is   *)
(* left acquired (pciemu_module.c:264-295, 297-314).                       *)
NothingHeldUnbound == ppc \in {"unbound", "phantom"} => held = {}

(* A device that counts as bound has all that an ioctl needs, provided it  *)
(* offers MSI-X or MSI (pciemu_module.c:251-262, pciemu_irq.c:136-143).    *)
BoundIsReady ==
  ppc = "bound" /\ caps # {} => held = Resources /\ ack /\ mtx

(* A clean-up that comes after pciemu_dev_init has returned, in probe or   *)
(* in remove, is given three mapped BARs: none that was unmapped before    *)
(* and none that was never set.  Only the clean-up inside pciemu_dev_init  *)
(* can meet those (pciemu_module.c:91-148, 275-278, 305).                  *)
UnmapsOnlyMapped ==
  ppc \in {"err_alloc_chrdev", "rm_clean"} => \A b \in Bars : mmio[b] = "mapped"

(* A message of the device finds its handler, however remove overlaps with *)
(* transfers that programs start, through a mapping of their own even on a *)
(* BAR the driver has unmapped: none is under way once free_irq is over.   *)
(* In probe there is one window, between the vectors and request_irq, in   *)
(* which a message waits (pciemu_module.c:297-308, pciemu_irq.c:93-129).   *)
MessageFindsHandler == pending => "irq" \in held \/ ppc = "request_irq"

(* "pciemu_probe failed with error=%d" (pciemu_module.c:293): a probe that *)
(* gets there has an error to report.                                      *)
ProbeReportsFailure == ppc = "err_pciemu_alloc" => err # 0

(* "Must do this ACK, or else the interrupt just keeps firing."            *)
(* (pciemu_irq.c:18): the ACK of a handler that runs reaches the device.   *)
AckReachesDevice == acked = "device"
=============================================================================
