---------------------------- MODULE PciemuExample ----------------------------
(***************************************************************************)
(* driver/userspace/pciemu_example.c, run by each thread of the driver as  *)
(* a process of its own: main parses its arguments, opens the node of the  *)
(* device they name, stores to the device's registers through mmap, sends  *)
(* the value of a into the device, gets it back into b and compares.       *)
(*                                                                         *)
(* The machine has several devices, and a node for each that the driver    *)
(* named; the one that is modelled is This.                                *)
(***************************************************************************)
EXTENDS DmaDriver, IoctlSpan, Sequences

CONSTANTS
  Args,      (* command lines                                              *)
  DOM_WRAP,  (* a domain number is stored modulo this (2^32 in the code)   *)
  Devices,   (* the devices the driver is bound to, by their PCI numbers   *)
  This,      (* the device the modules below model                         *)
  A, B,      (* thread -> the addresses of its variables a and b           *)
  RandVals   (* values rand() may return (bounds the runs)                 *)

PciNumbers == [dom : 0 .. 2^16 - 1, bus : 0 .. 2^8 - 1, slot : 0 .. 2^5 - 1, func : {0}]

(* how: what strtol and getopt make of the options.  An option that is not *)
(* given stands as its default.                                            *)
CommandLine == [dom : Int, bus : Int, slot : Int, regs : Int, how : {"ok", "bad", "help"}]

ASSUME ExampleAssumption ==
  /\ \A a \in Args : a \in CommandLine
  /\ DOM_WRAP \in Nat /\ DOM_WRAP > 2^16
  /\ \A n \in Devices : n \in PciNumbers
  /\ This \in Devices
  /\ A \in [Threads -> Addrs] /\ B \in [Threads -> Addrs]
  /\ \A t \in Threads : PageOf(A[t]) \in Pages /\ PageOf(B[t]) \in Pages
  /\ RandVals \subseteq Val

VARIABLES
  epc,      (* where each process is in main                               *)
  args,     (* its command line                                            *)
  opened,   (* the device whose node it has opened: none, or one           *)
  stores    (* registers write_registers_sequential has stored to          *)

progVars == <<args, opened, stores>>
exVars == <<vars, epc, progVars>>

Program(t, from, to) == epc[t] = from /\ epc' = [epc EXCEPT ![t] = to]

ExInit ==
  /\ Init
  /\ epc = [t \in Threads |-> "parse"]
  /\ args \in [Threads -> Args]
  /\ opened = [t \in Threads |-> {}]
  /\ stores = [t \in Threads |-> 0]

-----------------------------------------------------------------------------
(* parse_args: strtol returns a long, and struct context keeps fewer bits. *)
Parsed(a) ==
  [dom |-> a.dom % DOM_WRAP, bus |-> a.bus % 2^16, slot |-> a.slot % 2^8, func |-> 0]
ParsedRegs(a) == a.regs % 2^8

(* The range checks are made on what was kept. *)
InRange(a) ==
  a.how = "ok" /\ Parsed(a) \in PciNumbers /\ ParsedRegs(a) \in 1 .. Cardinality(Regs)

parse_args(t) ==
  /\ \/ InRange(args[t]) /\ Program(t, "parse", "open")
     \/ ~InRange(args[t]) /\ args[t].how # "help" /\ Program(t, "parse", "failure")
     \/ args[t].how = "help" /\ Program(t, "parse", "success")
  /\ UNCHANGED <<vars, progVars>>

-----------------------------------------------------------------------------
(* File names, as printf puts them together.                               *)
Digit == <<"0", "1", "2", "3", "4", "5", "6", "7", "8", "9", "a", "b", "c", "d", "e", "f">>

Digits(n, base) ==
  LET digits[k \in Nat] ==
        IF k < base THEN <<Digit[k + 1]>>
                    ELSE Append(digits[k \div base], Digit[(k % base) + 1])
  IN  digits[n]

Name(n, base) ==
  <<"d">> \o Digits(n.dom, base) \o <<"b">> \o Digits(n.bus, base) \o
  <<"d">> \o Digits(n.slot, base) \o <<"f">> \o Digits(n.func, base)

(* device_create in pciemu_probe: d%xb%xd%xf%x_bar%u *)
NodeName(n) == Name(n, 16)

(* A bug this code could have: bus and slot are in the wrong order. *)
NameSwapped(n) == Name([n EXCEPT !.bus = n.slot, !.slot = n.bus], 10)

(* open_pciemu_dev: d%ub%ud%uf%u_bar0 *)
FileName(n) == Name(n, 10)

Named(t) == {n \in Devices : NodeName(n) = FileName(Parsed(args[t]))}

(* open fails for want of a node, or of anything else it needs. *)
open_pciemu_dev(t) ==
  /\ \/ /\ Named(t) # {}
        /\ opened' = [opened EXCEPT ![t] = Named(t)]
        /\ Program(t, "open", IF This \in Named(t) THEN "mmap" ELSE "elsewhere")
     \/ opened' = opened /\ Program(t, "open", "failure")
  /\ UNCHANGED <<vars, args, stores>>

mmap_pciemu_bar(t) ==
  /\ Program(t, "mmap", "write") \/ Program(t, "mmap", "failure")
  /\ UNCHANGED <<vars, progVars>>

-----------------------------------------------------------------------------
Register == <<"reg0", "reg1", "reg2", "reg3">>

(* One store of write_registers_sequential *)
WriteRegister(t) ==
  /\ stores[t] < ParsedRegs(args[t])
  /\ Program(t, "write", "write")
  /\ \E v \in RandVals : GuestWrite(Register[stores[t] + 1], v)
  /\ stores' = [stores EXCEPT ![t] = @ + 1]
  /\ UNCHANGED <<drvVars, args, opened>>

(* ioctl_pciemu: a = rand(), b = rand() *)
Rand(t) ==
  /\ stores[t] = ParsedRegs(args[t])
  /\ Program(t, "write", "to")
  /\ \E x, y \in RandVals :
       user' = [user EXCEPT ![PageOf(A[t])] = x, ![PageOf(B[t])] = y]
  /\ UNCHANGED <<devVars, threadVars, dma, mtx, hpc, mapped, pins, leaks, ops, progVars>>

(* A bug this code could have: both transfers go the same way. *)
IoctlFromIsTo(t) ==
  /\ Program(t, "from", "compare") /\ Ioctl(t, TO_DEVICE, PageOf(B[t]))
  /\ UNCHANGED progVars

(* Both ioctls return 0 whatever happened, so no error path is taken. *)
IoctlTo(t) ==
  /\ Program(t, "to", "from") /\ Ioctl(t, TO_DEVICE, PageOf(A[t]))
  /\ UNCHANGED progVars
IoctlFrom(t) ==
  /\ Program(t, "from", "compare") /\ Ioctl(t, FROM_DEVICE, PageOf(B[t]))
  /\ UNCHANGED progVars

(* Returned(t): the second ioctl is over and a and b are about to be read. *)
Returned(t) == epc[t] = "compare" /\ pc[t] = "idle"
Equal(t) == user[PageOf(A[t])] = user[PageOf(B[t])]

Compare(t) ==
  /\ Returned(t)
  /\ Program(t, "compare", IF Equal(t) THEN "success" ELSE "failure")
  /\ UNCHANGED <<vars, progVars>>

-----------------------------------------------------------------------------
main(t) ==
  \/ parse_args(t) \/ open_pciemu_dev(t) \/ mmap_pciemu_bar(t)
  \/ WriteRegister(t) \/ Rand(t) \/ IoctlTo(t) \/ IoctlFrom(t) \/ Compare(t)

(* What is over: a program that opened another device is not followed. *)
Ended(t) == epc[t] \in {"success", "failure", "elsewhere"}

ExNext ==
  \/ \E t \in Threads : main(t)
  \/ /\ \/ \E t \in Threads : Lock(t) \/ ThreadStep(t)
        \/ HandlerStep
        \/ DeviceWorks
     /\ UNCHANGED <<epc, progVars>>
  \/ (\A t \in Threads : Ended(t)) /\ UNCHANGED exVars

ExSpec ==
  /\ ExInit /\ [][ExNext]_exVars
  /\ \A t \in Threads : WF_exVars(main(t))
  /\ \A t \in Threads : WF_exVars(ThreadStep(t) /\ UNCHANGED <<epc, progVars>>)
  /\ \A t \in Threads : SF_exVars(Lock(t) /\ UNCHANGED <<epc, progVars>>)
  /\ WF_exVars(HandlerStep /\ UNCHANGED <<epc, progVars>>)
  /\ WF_exVars(DeviceWorks /\ UNCHANGED <<epc, progVars>>)

-----------------------------------------------------------------------------
(* Every variable holds a value of its type, and what main has checked by  *)
(* the time it opens, maps and stores stays true.                          *)
ExTypeOK ==
  /\ epc \in [Threads -> {"parse", "open", "mmap", "write", "to", "from", "compare",
                          "success", "failure", "elsewhere"}]
  /\ args \in [Threads -> Args]
  /\ opened \in [Threads -> SUBSET Devices]
  /\ stores \in [Threads -> Nat]
  /\ \A t \in Threads :
       /\ epc[t] \in {"open", "mmap", "write"} \/ opened[t] # {} => InRange(args[t])
       /\ opened[t] \subseteq Named(t)

(* The ioctl that t is in was given page p, and transfers that page. *)
Carries(t, d, p) ==
  pc[t] # "idle" => dir[t] = d /\ dma.page = p /\ (pc[t] # "call" => page[t] = p)
Over(t) == pc[t] = "idle" \/ TookEffect(t)

(* Where the value of a is: in the device once the first ioctl took        *)
(* effect, and in b once the second did.                                   *)
RoundTrip(t) ==
  /\ epc[t] \notin {"from", "compare"} => pc[t] = "idle"
  /\ epc[t] = "from" =>
       /\ Carries(t, TO_DEVICE, PageOf(A[t]))
       /\ Over(t) => buff[0] = user[PageOf(A[t])]
  /\ epc[t] = "compare" =>
       /\ Carries(t, FROM_DEVICE, PageOf(B[t]))
       /\ buff[0] = user[PageOf(A[t])]
       /\ Over(t) => user[PageOf(B[t])] = buff[0]

(* The inductive invariant of a lone process: the driver's, which other    *)
(* processes would disturb by overwriting memory that is mapped, and the   *)
(* way of the value (pciemu_example.c:128-160).                            *)
LoneInv == IndInv /\ ExTypeOK /\ \A t \in Threads : RoundTrip(t)

(* "values a and b should be equal after DMAs" (pciemu_example.c:155)      *)
ValuesEqual == \A t \in Threads : Returned(t) => Equal(t)

(* Every run of the program comes to its end, whatever its command line.   *)
ProgramEnds == \A t \in Threads : <>Ended(t)

(* n is the device that the command line of t asks for. *)
AskedFor(t, n) == n.dom = args[t].dom /\ n.bus = args[t].bus /\ n.slot = args[t].slot
SingleDigits(t) == {args[t].dom, args[t].bus, args[t].slot} \subseteq 0 .. 9

(* "-s slot  pci device number of device" (pciemu_example.c:53, and :49-50 *)
(* for the bus and the domain): the node that is opened is that of the     *)
(* device with the numbers given.                                          *)
OpensAskedFor == \A t \in Threads : \A n \in opened[t] : AskedFor(t, n)

(* It is as long as every number given is a single decimal digit, although *)
(* the program looks for decimal names, the driver makes hexadecimal ones, *)
(* and arguments are cut to the width of struct context                    *)
(* (pciemu_example.c:92-93, 182-226, pciemu_module.c:239-243).             *)
OpensAskedForBelowTen ==
  \A t \in Threads : SingleDigits(t) => \A n \in opened[t] : AskedFor(t, n)
=============================================================================
