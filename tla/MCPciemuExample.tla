--------------------------- MODULE MCPciemuExample ---------------------------
(* One process, with a in page 1 and b in page 2, on a machine with four   *)
(* devices.                                                                *)
EXTENDS PciemuExample

MCNoSelfBar == [a \in {} |-> "other"]

MCNoInputs == [r \in BarRegs |-> {}]

MCModes == {}

MCUserInit == [p \in Pages |-> 0]

(* Every offset in the first pages, those where an int straddles included. *)
MCAddrs == 0 .. 3 * PAGE_SIZE

MCA == [t \in Threads |-> PAGE_SIZE + 2 * INT_SIZE]
MCB == [t \in Threads |-> 2 * PAGE_SIZE + INT_SIZE]

MCThis == [dom |-> 0, bus |-> 0, slot |-> 4, func |-> 0]
MCDevices ==
  {MCThis, [MCThis EXCEPT !.slot = 10], [MCThis EXCEPT !.slot = 16], [MCThis EXCEPT !.bus = 4, !.slot = 0]}

(* -s 4 in all spellings that reach the device, the others named wrongly,  *)
(* and what parse_args refuses.                                            *)
MCSlot4 == [dom |-> 0, bus |-> 0, slot |-> 4, regs |-> 4, how |-> "ok"]
MCArgs ==
  {MCSlot4, [MCSlot4 EXCEPT !.regs = 1], [MCSlot4 EXCEPT !.slot = 260],
   [MCSlot4 EXCEPT !.bus = 65536], [MCSlot4 EXCEPT !.slot = -252]} \cup
  {[MCSlot4 EXCEPT !.slot = s] : s \in {10, 16, 32, 0}} \cup
  {[MCSlot4 EXCEPT !.bus = 4, !.slot = 0], [MCSlot4 EXCEPT !.bus = 256],
   [MCSlot4 EXCEPT !.dom = -1], [MCSlot4 EXCEPT !.regs = 5],
   [MCSlot4 EXCEPT !.regs = 256], [MCSlot4 EXCEPT !.how = "bad"],
   [MCSlot4 EXCEPT !.how = "help"]}

(* Every slot the range message names, and a number that is cut to one. *)
MCNodeArgs == {[MCSlot4 EXCEPT !.slot = s] : s \in 0 .. 31 \cup {260}}
=============================================================================
