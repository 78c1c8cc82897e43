------------------------------- MODULE Aurora -------------------------------
(***************************************************************************)
(* The emulated device seen from its register BAR: aurora_backend/aurora.c *)
(* and aurora_backend/dma/dma.c, reached through front_end/regbar.c (or    *)
(* internal_bar.c) and glue/glue.c.                                        *)
(*                                                                         *)
(* QEMU runs an MMIO handler under its big lock, so accesses of different  *)
(* vCPUs are serialised: an access starts only while no doorbell is in     *)
(* progress (dpc = "idle").  A doorbell is not one step, though.  The copy *)
(* goes cell by cell over the bus, a cell may fall on the device's own     *)
(* register BAR and re-enter the register handler, and the interrupt is    *)
(* visible to the guest before the engine is idle again.                   *)
(*                                                                         *)
(* A cell is the unit of transfer.  In the device, the cells after the DMA *)
(* area are AURORADevice.regs, then memory that belongs to other objects.  *)
(***************************************************************************)
EXTENDS PciemuIrq, Sequences

CONSTANTS
  Val,        (* contents of a cell or a register, a set of naturals       *)
  AREA_START, (* AURORA_HW_DMA_AREA_START                                  *)
  AREA_SIZE,  (* AURORA_HW_DMA_AREA_SIZE                                   *)
  MASK,       (* 2^AURORA_HW_DMA_ADDR_CAPABILITY: bus addresses wrap here  *)
  Ram,        (* bus addresses backed by guest RAM                         *)
  SelfBar,    (* bus address -> register, for those on this device's BAR   *)
  Garbage,    (* what malloc leaves in AURORADevice.regs                   *)
  ALL_ONES,   (* ~0ULL, the value of a read that no register answers       *)
  Inputs,     (* register -> values a guest writes to it (bounds the runs) *)
  Modes       (* pairs of enable bits a guest sets (bounds the runs)       *)

(* AURORA_HW_DMA_DIRECTION_TO_DEVICE and ..._FROM_DEVICE *)
TO_DEVICE == 1
FROM_DEVICE == 2

REG_CNT == 4
RegNames == <<"reg0", "reg1", "reg2", "reg3">>
Regs == {"reg0", "reg1", "reg2", "reg3"}

(* The four DMA configuration registers, named by the field they set. *)
CfgRegs == {"src", "dst", "len", "cmd"}

(* Every decoded address of the BAR, and "other" for all that are ignored. *)
BarRegs ==
  Regs \cup CfgRegs \cup {"irq0_raise", "irq0_lower", "doorbell", "other"}

ASSUME AuroraAssumption ==
  /\ Val \subseteq Nat /\ {0, 1, 2, ALL_ONES} \subseteq Val
  /\ AREA_START \in Nat /\ AREA_SIZE \in Nat \ {0} /\ MASK \in Nat \ {0}
  /\ Ram \subseteq Nat
  /\ DOMAIN SelfBar \subseteq Nat \ Ram
  /\ \A a \in DOMAIN SelfBar : SelfBar[a] \in BarRegs
  /\ Garbage \subseteq Val
  /\ \A r \in BarRegs : Inputs[r] \subseteq Val
  /\ Modes \subseteq BOOLEAN \X BOOLEAN

VARIABLES
  status,  (* dma.status; DMA_STATUS_OFF exists only between fini and free *)
  cfg,     (* dma.config: the transfer descriptor and the command          *)
  buff,    (* dma.buff                                                     *)
  regs,    (* the general-purpose registers                                *)
  dpc,     (* where the doorbell handler is: "idle", "copy" or "end"       *)
  idx,     (* cells copied so far                                          *)
  mem      (* guest RAM as the bus sees it                                 *)

dmaVars == <<status, cfg, dpc>>
devVars == <<pciVars, irqVars, status, cfg, buff, regs, dpc, idx, mem>>

ZeroCfg == [r \in CfgRegs |-> 0]
ZeroBuff == [o \in 0 .. AREA_SIZE - 1 |-> 0]

(* aurora_backend_init, aurora_dma_init: regs is left as malloc gave it. *)
AuroraInit ==
  /\ status = "IDLE" /\ dpc = "idle" /\ idx = 0
  /\ cfg = ZeroCfg
  /\ buff = ZeroBuff
  /\ regs \in [Regs -> Garbage]

AuroraTypeOK ==
  /\ status \in {"IDLE", "EXECUTING"}
  /\ cfg \in [CfgRegs -> Val]
  /\ buff \in [0 .. AREA_SIZE - 1 -> Val]
  /\ regs \in [Regs -> Val]
  /\ dpc \in {"idle", "copy", "end"}
  /\ idx \in Nat
  /\ mem \in [Ram -> Val]

-----------------------------------------------------------------------------
(* dma.c: configuration and doorbell.                                      *)

aurora_dma_addr_mask(addr) == addr % MASK

aurora_dma_inside_device_boundaries(addr) ==
  AREA_START <= addr /\ addr <= AREA_START + AREA_SIZE

(* The early returns of aurora_dma_execute. *)
Accepted ==
  \/ cfg.cmd = TO_DEVICE /\ aurora_dma_inside_device_boundaries(cfg.dst)
  \/ cfg.cmd = FROM_DEVICE /\ aurora_dma_inside_device_boundaries(cfg.src)

(* A bug this code could have: a descriptor is taken while one executes. *)
ConfigUnguarded(field, value) == cfg' = [cfg EXCEPT ![field] = value]

(* aurora_dma_config_txdesc_src, _dst, _len and aurora_dma_config_cmd *)
aurora_dma_config(field, value) ==
  cfg' = IF status = "IDLE" THEN [cfg EXCEPT ![field] = value] ELSE cfg

(* A bug this code could have: the early returns are missing. *)
RingUnchecked ==
  IF status = "EXECUTING"
    THEN UNCHANGED <<status, dpc>>
    ELSE status' = "EXECUTING" /\ dpc' = "copy"

(* The compare-and-exchange, up to the first cell of the transfer. *)
aurora_dma_doorbell_ring ==
  IF status = "EXECUTING"
    THEN UNCHANGED <<status, dpc>>
    ELSE /\ status' = "EXECUTING"
         /\ dpc' = IF Accepted THEN "copy" ELSE "end"

-----------------------------------------------------------------------------
(* aurora.c: the register file, as aurora_dma_reg_write completes it.      *)

aurora_write_reg_by_addr(reg, value) ==
  \/ /\ reg \in Regs
     /\ regs' = [regs EXCEPT ![reg] = value]
     /\ UNCHANGED <<irqVars, dmaVars>>
  \/ /\ reg = "irq0_raise"
     /\ pciemu_irq_raise(0)
     /\ UNCHANGED <<regs, dmaVars>>
  \/ /\ reg = "irq0_lower"
     /\ pciemu_irq_lower(0)
     /\ UNCHANGED <<regs, dmaVars>>
  \/ /\ reg \in CfgRegs
     /\ aurora_dma_config(reg, value)
     /\ UNCHANGED <<irqVars, regs, status, dpc>>
  \/ /\ reg = "doorbell"
     /\ aurora_dma_doorbell_ring
     /\ UNCHANGED <<irqVars, regs, cfg>>
  \/ /\ reg = "other"
     /\ UNCHANGED <<irqVars, regs, dmaVars>>

aurora_read_reg_by_addr(reg) == IF reg \in Regs THEN regs[reg] ELSE ALL_ONES

-----------------------------------------------------------------------------
(* dma.c: aurora_dma_execute, one cell at a time.                          *)

(* Device side.  Cell o of dma.buff, of regs behind it, or of the heap.    *)
DevCell(o) ==
  IF o < AREA_SIZE THEN {buff[o]}
  ELSE IF o < AREA_SIZE + REG_CNT THEN {regs[RegNames[o - AREA_SIZE + 1]]}
  ELSE Val

SetDevCell(o, v) ==
  /\ buff' = IF o < AREA_SIZE THEN [buff EXCEPT ![o] = v] ELSE buff
  /\ regs' = IF o >= AREA_SIZE /\ o < AREA_SIZE + REG_CNT
               THEN [regs EXCEPT ![RegNames[o - AREA_SIZE + 1]] = v]
               ELSE regs

(* Bus side, external: RAM, this device's BAR, or nothing (a failed access *)
(* reads as zero and is dropped when it writes; the engine only logs it).  *)
BusCell(a) ==
  IF a \in Ram THEN mem[a]
  ELSE IF a \in DOMAIN SelfBar THEN aurora_read_reg_by_addr(SelfBar[a])
  ELSE 0

BusWrite(a, v) ==
  \/ /\ a \notin DOMAIN SelfBar
     /\ mem' = IF a \in Ram THEN [mem EXCEPT ![a] = v] ELSE mem
     /\ UNCHANGED <<irqVars, regs, dmaVars>>
  \/ /\ a \in DOMAIN SelfBar
     /\ aurora_write_reg_by_addr(SelfBar[a], v)
     /\ UNCHANGED mem

(* A bug this code could have: source and destination are swapped. *)
ReadCellSwapped ==
  /\ cfg.cmd = TO_DEVICE
  /\ SetDevCell(idx, BusCell(aurora_dma_addr_mask(cfg.dst) + idx))
  /\ UNCHANGED <<irqVars, dmaVars, mem>>

(* pci_dma_read of one cell *)
ReadCell ==
  /\ cfg.cmd = TO_DEVICE
  /\ SetDevCell(cfg.dst - AREA_START + idx,
                BusCell(aurora_dma_addr_mask(cfg.src) + idx))
  /\ UNCHANGED <<irqVars, dmaVars, mem>>

(* pci_dma_write of one cell *)
WriteCell ==
  /\ cfg.cmd = FROM_DEVICE
  /\ \E v \in DevCell(cfg.src - AREA_START + idx) :
       BusWrite(aurora_dma_addr_mask(cfg.dst) + idx, v)
  /\ UNCHANGED buff

(* A bug this code could have: the length is off by one. *)
CopyOneMore ==
  /\ dpc = "copy" /\ idx <= cfg.len
  /\ idx' = idx + 1
  /\ ReadCell \/ WriteCell
  /\ UNCHANGED pciVars

CopyCell ==
  /\ dpc = "copy" /\ idx < cfg.len
  /\ idx' = idx + 1
  /\ ReadCell \/ WriteCell
  /\ UNCHANGED pciVars

(* The copy is over, whatever it returned: raise the DMA-ended interrupt. *)
RaiseEnded ==
  /\ dpc = "copy" /\ idx >= cfg.len
  /\ pciemu_irq_raise(0)
  /\ dpc' = "end" /\ idx' = 0
  /\ UNCHANGED <<pciVars, status, cfg, buff, regs, mem>>

(* A bug this code could have: the engine is not made idle again. *)
DoorbellForgetsIdle ==
  /\ dpc = "end"
  /\ dpc' = "idle"
  /\ UNCHANGED <<pciVars, irqVars, status, cfg, buff, regs, idx, mem>>

(* aurora_dma_execute has returned: the end of aurora_dma_doorbell_ring. *)
DoorbellEnd ==
  /\ dpc = "end"
  /\ status' = "IDLE" /\ dpc' = "idle"
  /\ UNCHANGED <<pciVars, irqVars, cfg, buff, regs, idx, mem>>

DoorbellStep == CopyCell \/ RaiseEnded \/ DoorbellEnd

(* aurora_dma_reset.  The general-purpose registers keep their contents.   *)
aurora_backend_reset ==
  /\ status' = "IDLE" /\ cfg' = ZeroCfg /\ buff' = ZeroBuff
  /\ UNCHANGED <<regs, dpc, idx>>

(* A whole-machine reset: pciemu_reset under the big lock, then QEMU resets *)
(* the interrupt line and the interrupt controller.  What becomes of the    *)
(* enable bits is for the guest that boots next.                            *)
ResetDevice ==
  /\ dpc = "idle"
  /\ pciemu_irq_reset /\ line' = FALSE /\ irr' = {}
  /\ aurora_backend_reset

-----------------------------------------------------------------------------
(***************************************************************************)
(* The device under an arbitrary guest: any register written with any      *)
(* value in any order, interrupt modes switched, messages taken, resets.   *)
(***************************************************************************)
DevInit ==
  /\ msixOn = FALSE /\ msiOn = FALSE /\ IrqInit
  /\ AuroraInit
  /\ mem \in [Ram -> Garbage]

(* pciemu_regbar_write, pciemu_internal_bar_write, glue_write_reg_by_addr *)
GuestWrite(reg, value) ==
  /\ dpc = "idle"
  /\ aurora_write_reg_by_addr(reg, value)
  /\ UNCHANGED <<pciVars, buff, idx, mem>>

GuestSetsMode ==
  /\ dpc = "idle"
  /\ \E m \in Modes : SetIrqMode(m[1], m[2])
  /\ UNCHANGED <<status, cfg, buff, regs, dpc, idx, mem>>

GuestTakesMessage ==
  /\ \E v \in Vectors : TakeMessage(v)
  /\ UNCHANGED <<pciVars, status, cfg, buff, regs, dpc, idx, mem>>

MachineReset ==
  /\ ResetDevice
  /\ msixOn' = FALSE /\ msiOn' = FALSE
  /\ UNCHANGED mem

DevNext ==
  \/ \E reg \in BarRegs : \E value \in Inputs[reg] : GuestWrite(reg, value)
  \/ CopyCell
  \/ RaiseEnded
  \/ DoorbellEnd
  \/ GuestSetsMode
  \/ GuestTakesMessage
  \/ MachineReset

(* The vCPU that rang the doorbell runs the handler to its end: QEMU has no *)
(* step at which it could abandon it.                                       *)
DevSpec == DevInit /\ [][DevNext]_devVars /\ WF_devVars(DoorbellStep)

-----------------------------------------------------------------------------
(* Every variable holds a value of its C type. *)
DevTypeOK == IrqTypeOK /\ AuroraTypeOK

(* dma.status tells whether a doorbell is in progress, and what is copied  *)
(* is an accepted descriptor, up to as many cells as it asks for.          *)
EngineStatus ==
  /\ status = "EXECUTING" <=> dpc # "idle"
  /\ dpc # "copy" => idx = 0
  /\ dpc = "copy" => Accepted /\ idx <= cfg.len

DevInv == DevTypeOK /\ EngineStatus

(* While a transfer executes, neither its descriptor nor its command can   *)
(* change, even when the transfer itself writes the device's own registers *)
(* and re-enters aurora_dma_config_* (dma.c:86-112).                       *)
ConfigStableWhileExecuting ==
  [][status = "EXECUTING" => UNCHANGED cfg]_devVars

(* Whatever a transfer writes into the registers of the device that runs   *)
(* it, the doorbell included, it goes on one cell at a time and ends after *)
(* exactly as many cells as were asked for (dma.c:36-84, 114-128).         *)
TransferRunsToItsEnd ==
  [][dpc = "copy" => \/ dpc' = "copy" /\ idx' \in {idx, idx + 1}
                     \/ dpc' = "end" /\ idx = cfg.len]_devVars

(* A doorbell whose command is unknown, or whose device address is outside *)
(* the window, moves no data and raises nothing (dma.c:39-41, 51-54,       *)
(* 71-74).                                                                 *)
RejectedIsSilent ==
  [][status = "EXECUTING" /\ ~Accepted =>
       UNCHANGED <<mem, buff, regs, raised, pin>>]_devVars

(* A transfer never ends unnoticed: when it is over, even with cells that  *)
(* the bus refused, or with a raised flag that an earlier mode, a message  *)
(* nobody acknowledged or a reset has left set, the mode enabled then has  *)
(* a message of vector 0 under way or the line asserted (dma.c:57-59,      *)
(* 77-83, irq.c:55-73, 106-124, 144-163).  A message that was not taken    *)
(* yet stands for the end of both transfers, as it does for the guest.     *)
EndIsSignalled ==
  [][dpc = "copy" /\ dpc' = "end" =>
       IF msixOn \/ msiOn THEN 0 \in irr' ELSE line']_devVars

(* What has been copied so far is what the source holds, cell for cell, as *)
(* long as both ends are what the comments in dma.c call them: RAM and the *)
(* DMA area (dma.c:42-82).                                                 *)
CopyIsExact ==
  dpc = "copy" =>
    \A j \in 0 .. idx - 1 :
      LET bus == aurora_dma_addr_mask(IF cfg.cmd = TO_DEVICE THEN cfg.src ELSE cfg.dst) + j
          dev == (IF cfg.cmd = TO_DEVICE THEN cfg.dst ELSE cfg.src) - AREA_START + j
      IN  bus \in Ram /\ dev < AREA_SIZE => buff[dev] = mem[bus]

(* The line is asserted only in the mode whose lower path deasserts it, so *)
(* the driver's ACK always reaches it (irq.c:106-142).                     *)
AssertedLineIsAckable == line => pin /\ ~msixOn /\ ~msiOn

(* The engine always gets back to DMA_STATUS_IDLE, after any descriptor    *)
(* and any re-entry (dma.c:122-127).                                       *)
EngineComesBackIdle == status = "EXECUTING" ~> status = "IDLE"

(* The comment on dma->buff (dma.c:48): the dedicated area that receives   *)
(* DMA transfers.  The next cell of a transfer lies inside it.             *)
TransferInsideArea ==
  dpc = "copy" /\ idx < cfg.len =>
    (IF cfg.cmd = TO_DEVICE THEN cfg.dst ELSE cfg.src) - AREA_START + idx < AREA_SIZE
=============================================================================
