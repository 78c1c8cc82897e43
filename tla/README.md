# A verification of pciemu

pciemu is an example of a whole PCIe device in software: a QEMU device with a
DMA engine, interrupts and a memory that lives behind a TCP connection, the
Linux driver for it, and a program that uses the driver. This directory holds
TLA+ models of it, TLC configurations that check them on small instances, and
TLAPS proofs of what matters most for every instance.

Paths below are relative to the repository.

## 1. The system

| Component | State | Operations | Modelled by |
|---|---|---|---|
| DMA engine, `src/pciemu/aurora_backend/dma/` | descriptor, command, status, 4 KiB buffer | register writes, doorbell, reset | `Aurora` |
| Register file, `aurora.c` | four 64-bit registers | read and write by address | `Aurora` |
| Interrupts, `front_end/irq.c` | a union of raised flags, the INTx line | raise, lower, reset; init, fini | `PciemuIrq`; init, fini in `PciemuDevice` |
| BARs and glue, `front_end/*bar.c`, `glue/` | the registered regions | register, forward an access | `Aurora`, `PciemuDevice` |
| Device construction, `front_end/pciemu.c` | the backend pointer | realize, exit, reset | `PciemuDevice`; reset in `Aurora` |
| Memory BAR, `membar.c`, `tcp_client.c` | a socket, a mutex | read and write over TCP | `TcpLink` |
| TCP server, `utils/tcp_server/` | how far it has started, its child | start, accept, fork, answer | `TcpLink` |
| Driver, `pciemu_module.c`, `pciemu_dma.c` | the struct of the one transfer, a mutex | open, mmap, ioctl | `DmaDriver`; offset and length in `IoctlSpan` |
| Interrupt handler, `driver/kernel/pciemu_irq.c` | none of its own | unmap, put page, ACK, complete | `DmaDriver` |
| Probe, remove, module init and exit | everything the driver acquires | acquire, unwind, release | `Lifecycle` |
| Example program, `pciemu_example.c` | command line, the opened node, registers, a and b | all of `main` | `PciemuExample` |

How they interact: the program calls `ioctl`; the driver pins the page of the
argument, maps it for the device, writes five registers and sleeps on a
completion. The last write is the doorbell. QEMU runs it under its big lock
inside the `iowrite32` of the vCPU: the engine copies over the bus, raises an
interrupt and returns to idle. The interrupt handler, on any CPU, unmaps and
releases the page, acknowledges the interrupt through another register write,
and wakes the sleeper.

An access to the memory BAR becomes a message to a server on the host and a
wait for its reply, inside the access and under the big lock: the machine
stands still meanwhile. Probe acquires what the driver needs call by call and
unwinds by labels; its device node is visible before the last calls are made.

What is hard about it:

* the driver keeps the state of a transfer in one struct for all threads, and
  not every access to it is under the mutex;
* the interrupt becomes visible before the engine is idle again, so the handler
  runs while the doorbell is still in progress;
* the engine can be told to write to the registers of its own device, which
  re-enters the register handler in the middle of a transfer;
* pinning or mapping a page may fail, and the machine may be reset at any time;
* a sleeper has no timeout, so every link of the chain must eventually work;
* a receive that fails leaves its reply in the stream, where the next access
  finds it;
* programs and interrupts can arrive while probe or remove is on its way;
* realize goes on after a capability or malloc failed, and exit undoes what was
  set up elsewhere;
* the server ignores a failed fork and keeps the descriptors of its children, so
  a connection can stay open with nobody at its other end;
* the driver names nodes in hexadecimal and the program looks for decimal names,
  after cutting its arguments to the width of the fields they are kept in.

The hazards, each at its line and with the properties aimed at it, are in
`PROJECT.json`.

## 2. The modules

```
PciemuIrq
  Aurora                      AuroraProofs
    PciemuDevice              PciemuDeviceProofs (with AuroraProofs)
    DmaDriver                 DmaDriverProofs (with AuroraProofs, Foundations), DmaDriverRefines
      PciemuExample           PciemuExampleProofs (with DmaDriverRefines)
        (with IoctlSpan)
TcpLink                       TcpLinkProofs
Lifecycle                     LifecycleProofs
                              Foundations
```

A module extends the one it is indented under, and the modules at the right
extend the one at the left. `DmaDriver` instantiates `DmaCall`, the contract it
is shown to implement. `Foundations` models nothing: it holds the arithmetic and
the sums over finite sets that the proofs need.

`MCAurora`, `MCPciemuDevice`, `MCDmaDriver`, `MCPciemuExample` and `MCLifecycle`
give the constants their values for TLC; `TcpLink` needs none.

### PciemuIrq

`raised` is the MSI and the MSI-X array of the `IRQStatus` union at once: both
have the same elements at the same places. `pin` is a cell of its own, because
it overlays the first byte of a pointer that nobody uses. `line` is the INTx
line and `irr` the set of messages sent and not yet taken. The functions keep
their names; those for MSI and MSI-X are the same code over two lengths and
share one definition. Switching modes and delivering messages belong to QEMU
and are external.

### Aurora

The doorbell is the only handler that is not one step. `dpc` says where it is:
`copy` while cells are copied, `end` between the interrupt and the write of
`DMA_STATUS_IDLE`. Other register accesses start only when `dpc = "idle"`,
because QEMU's big lock serialises them; what can happen in between is what the
transfer itself does to the device's own registers (`BusWrite` with an address
in `SelfBar`), and the guest taking the message.

A cell abstracts the unit of transfer. The device's side of a transfer is
`dma.buff`, followed by `regs` as in `struct AURORADevice`, followed by memory
of others: a read there gives any value and a write is not tracked. That is
what the boundary check lets happen, and it is modelled rather than excluded.
`regs` starts with what malloc left. A bus address that nothing answers reads as
zero; the engine logs such an error and goes on.

`DevSpec` is the device under an arbitrary guest.

### PciemuDevice

The life of the device around `Aurora`: `Realize` and its two failures, the
device at work (`Works`, with every action of `DevNext`), `Unplug`. Realize and
exit run under the big lock and are one step each, composed of the init and fini
functions they call, in their order. `bars` is what `pci_register_bar` was told.

The error paths are the code's: `pciemu_irq_init` does not stop at a failed
capability and sets the error again at a second one, which QEMU does not
survive; `aurora_backend_init` logs a failed malloc and leaves a NULL that the
next access, reset or exit follows. Such a device has no engine: what the engine's
variables hold then means nothing, and `DeviceInv` claims it of an existing backend
only. `heap` counts the backends allocated, and
`orphans` (history) those of devices whose realize failed: QEMU drops the object
and nothing else points to the struct. `pciemu_irq_fini` tells `msix_uninit` to
take the MSI-X table out of the register BAR while `pciemu_irq_init_msix` put it
into the internal one, so an unplug meets an assertion of QEMU; the model says
`stopped`, and `Restart` is somebody starting QEMU again.

### IoctlSpan

The offset and the length `pciemu_ioctl` computes for an address, as operators,
against a reference definition: the bytes of the int that are in the pinned
page. `PageOf` is used by the example.

### DmaDriver

One `pc` per thread, one step per statement that another actor could observe.

| `pc` | what comes next |
|---|---|
| `idle` | `get_user_pages_fast` into the shared `dma.page` (`PinPage`, `PinFails`) |
| `call` | reads `dma.page` back as the argument of the call (`CallDma`) |
| `lock` | `mutex_lock` and `pciemu_dma_struct_init` (`Lock`) |
| `map` | `dma_map_page` (`MapPage`), or the -ENOMEM path, which leaves the error value in `dma_handle` (`MapFails`) |
| `src` `dst` `len` `cmd` `bell` | one `iowrite32` each |
| `wait` | `wait_for_completion` |
| `unlock` | `mutex_unlock`, return |

Only the steps before `lock` and the release of pages touch `dma.page`, and
they do so without the mutex. `hpc` is the same for `pciemu_irq_handler`. Its
ACK is a register write and waits until the doorbell is over, as it would for
the big lock; the unmapping before it does not.

`user` is memory as the CPU sees it and `mem` as the device does; mapping and
unmapping hand contents over, as the streaming DMA API does. A page holds one
cell, the int of the ioctl. `leaks` is a history variable: references the
-ENOMEM path left behind. `Reboot` is a reset of the machine followed by a new
probe, at any time the big lock is free.

### DmaCall

What the two DMA functions promise: a call fails and changes nothing, or moves
one int at one instant between call and return. `DmaDriver!Contract` maps the
driver to it: a call into the device takes effect when the engine copies the
cell, a call out of it when the handler unmaps the page.

### PciemuExample

`main` on top of the driver, step by step: `parse_args` with the widths of
`struct context` (`Parsed`), `open_pciemu_dev` with the name it prints against
the names the driver printed in probe, `mmap_pciemu_bar`, one store per
register, the two ioctls and the comparison. A failed transfer is
indistinguishable from a successful one since `pciemu_ioctl` returns 0. The
machine has several devices; only one is modelled, and a program that opened the
node of another one is `elsewhere`. Names are compared digit by digit, since
`OpensAskedFor` and `OpensAskedForBelowTen` are about them.

### TcpLink

One access at a time, since QEMU's big lock covers it whole; `t_mutex`, which
is initialised before every use, is therefore left out. `pc` follows the
access: `send` in `send_to_server` (which links first when there is no socket),
`recv` in `recv_from_server`, `check` in the comparison at the end of
`tcp_send_mem_read_req` and `tcp_send_mem_write_req`. `up` and `down` are the
two directions of the stream, in messages. A connect that fails leaves an open
socket behind, on which every later send fails: `fd = "open"` with
`conn = "none"`. `srv` is how far the server has come, from `socket` to the
child that serves the connection; `orphaned` is a connection without a child,
because `fork` failed or the child was stopped, which the parent neither serves
nor closes. A server that went away can be started again; the client keeps its
socket and does not notice. A `recv` of zero bytes is not an error in the code, and the
request on the stack is then compared with itself (`RecvEof`).

`id`, `eof` and `abandoned` are history: which access a message came from,
whether this access met the end of the stream, and how many receives failed.
The server remembers nothing: it answers reads and writes alike with the address
as the value. `ReadGivesAnswer` is about that answer, not about what was written
before.

A field the code leaves uninitialised holds any value of `Stack`, among them
the code for success.

### Lifecycle

`ppc` is the next call of `pciemu_probe`, the label it unwinds from or the next
call of `pciemu_remove`, and `held` what has been acquired. A call that fails
names what the function called releases by itself (`pciemu_dev_init` its
mappings, `pciemu_irq_enable` its vectors) and the label probe jumps to. A
device with neither MSI-X nor MSI makes `pciemu_irq_enable` run off its end:
any result. `phantom` is a device whose probe unwound and returned 0; the
kernel believes it bound, and nothing more is modelled of it until a reboot.
(`pciemu_remove` would find no driver data for it.) `mmio` is the pointer of
each BAR in the struct, `wild` as kmalloc left it, `mapped`, or `unmapped` when
`pciemu_dev_clean` has been there; the pointers are not reset, and a cleanup
that finds one neither NULL nor mapped unmaps an address that is not its own.
That happens in `pciemu_dev_init` when a mapping fails early, so
`UnmapsOnlyMapped` is about the clean-ups after it succeeded.
Programs open and close the node. A file still open when the struct is freed is
`stale`; of what a program does with it, closing it and its mmap are modelled: a
mapping of the register BAR outlives `pciemu_dev_clean`, so a program can have the
device transfer, and send its interrupt, as long as the device is a bus master
with its vectors (`TransferEnds`).

## 3. The runs

| Run | States | Shows |
|---|---|---|
| `dev_descriptors` | 405,735 | `DevInv`, `CopyIsExact`, `ConfigStableWhileExecuting`, `TransferRunsToItsEnd`, `RejectedIsSilent`, `EndIsSignalled`, `EngineComesBackIdle` |
| `dev_interrupts` | 1,960 | `DeviceInv`, `AssertedLineIsAckable`, `BackendsConserved`, `LineEndsWithBackend`, `EndIsSignalled` |
| `dev_area` | violation | `TransferInsideArea` fails for an arbitrary guest |
| `drv` | 282,348 | `IndInv`, `DescriptorIsHolders`, `DeviceTouchesOnlyMapped`, `TransferInsideArea`, `WokenAfterTransfer`, `PinsConserved`, `RegsOnlyByMmap`, `ImplementsDmaCall`, `IoctlReturns` |
| `drv_page` | violation | `TransferUsesCallersPage` fails |
| `example` | 12,372 | `LoneInv`, `ValuesEqual`, `OpensAskedForBelowTen`, `SpansExact`, `ProgramEnds` |
| `example_node` | violation | `OpensAskedFor` fails |
| `example_enomem` | violation | `ValuesEqual` fails when a page cannot be pinned or mapped |
| `link` | 396,294 | `LinkInv`, `RepliesOwed`, `UnlinkedFails`, `ReplyIsOwn`, `ReadGivesAnswer`, `AccessReturns` |
| `life` | 4,837 | `LifeInv`, `NothingHeldUnbound`, `BoundIsReady`, `UnmapsOnlyMapped`, `MessageFindsHandler` |
| `life_error` | violation | `ProbeReportsFailure` fails |
| `life_ack` | violation | `AckReachesDevice` fails |

Bounds, and why they are enough:

* Device: an area of one cell with the registers right behind it, two cells of
  RAM, and the bus addresses of the command register and of the doorbell.
  Descriptors take every bus address, both ends of the window and an address
  past it, one or two cells (zero is the value after a reset) and every command
  including an unknown one. This reaches re-entry with a configuration write, re-entry with a
  second doorbell, transfers across the end of the area, and refusals.
* Interrupts and construction: all four combinations of enable bits, and a
  device plugged up to three times with every call allowed to fail, so that a
  failed realize, a device without a backend and an unplug follow each other.
  The data path is reduced to an empty transfer since it does not touch
  interrupts. `EndIsSignalled` is checked here too, because only here do resets and
  flags of all three modes precede a transfer.
* Driver: two threads, two pages with different contents, two ioctls since
  the boot, which both threads or one of them make, and a store through mmap at any
  time. Two threads suffice for every race over the shared struct, and a second
  ioctl of one thread for what the first may leave behind; a liveness property over
  three is out of TLC's reach in minutes. The theorems remove these bounds from every
  property but `IoctlReturns`. `drv_page` uses three ioctls.
* Example: one process. With two, `drv_page` and the device's single buffer
  make the comparison meaningless. Sixteen command lines: the device asked for
  in all spellings that reach it, numbers that are cut to it, names that are
  another device's in hexadecimal, and what is refused. `example_node` takes every
  slot the range message names, and 260. `DOM_WRAP` is 2^20
  instead of 2^32, which TLC's integers do not hold; `ExampleAssumption` keeps
  it above the range of a domain. Pages have 16 bytes, and `Addrs` is every
  address in the first three.
* Link: two addresses, so that a reply can be for the wrong one, and three
  accesses, so that the third can meet two replies that are late. The server may
  stop and start without bound. Words that
  mean something (success, all ones, 0xdeadbeef) are told apart. The theorems
  remove the bounds.
* Lifecycle: one device, every subset of the two capabilities, no bound.

None of `MaxOps`, `MaxAccess`, `MaxPlugs` and `Inputs` stands for anything in the code.

Deadlock is checked in every run. The device always accepts another write, QEMU
and the server can always be started again, a reboot is always possible in the
driver's runs, and the example has a step of its own for a program that is over.

### Fairness

* `WF(DoorbellStep)`: the vCPU that rang the doorbell executes the handler to
  its end; QEMU has no way to abandon one.
* `WF(ThreadStep(t))`, `WF(HandlerStep)`: the kernel runs every runnable thread
  and delivers a pending interrupt.
* `SF(Lock(t))`: the mutex is free again and again, not continuously. The
  kernel's mutex hands itself over to a waiter at the head of its queue that
  keeps losing, so it does not starve one.

* `TcpLink`: QEMU goes on with the access it is in, and the server accepts the
  connection that waits for it and goes on with its loop. Receives are not
  assumed to fail, so an access is shown to return by an answer or by the end of
  the stream, never by luck (`RecvFails` is unfair). The one exception
  `AccessReturns` makes is a server that lives on without the child for this
  connection: then the access, and the machine, wait until somebody stops it.

Nothing is assumed of programs: `Ioctl`, `MmapWrite` and `Reboot` have no
fairness (the example's own steps have, as it is a running program).

### What the violations show

1. `dev_area`: `aurora_dma_inside_device_boundaries` is inclusive at the upper
   end and the length is never checked. A descriptor that starts inside the
   window leaves it. The driver itself never does that: run `drv` checks the
   same property around it, and `DriverStaysInside` proves it.
2. `drv_page`: `dma.page` is written before the mutex is taken. When two ioctls
   overlap, one transfers the other's page; it takes two (`LoneCallersPage`).
   Calls remain atomic
   (`ImplementsDmaCall` is about the page that was passed), and references
   still add up (`PinsConserved`, which is about their total), but each may be
   dropped on the wrong page.
3. `example_node`: the program is told which device to open by its PCI numbers,
   prints them in decimal and looks for a node that the driver named in hexadecimal.
   Asked for slot 10 it opens slot 16, asked for 260 slot 4, because the argument is
   cut to 8 bits before its range is checked. `AskedForExactlyBelowTen` proves how far
   it goes: a command line with a number above 9 opens nothing or the wrong device.
   What is left of the promise is `OpensAskedForBelowTen`.
4. `example_enomem`: the return value of the DMA functions is ignored. Where
   nothing fails and one process runs, the claim is a theorem (`ValuesAgree`).
5. `life_error`: a probe that does not find the register BAR jumps to a label
   with the 0 of the call before it, releases everything and returns success.
6. `life_ack`: `mmio_ack_irq` is set after `request_irq`, when the node is
   already there, and `pciemu_remove` unmaps the BAR before `free_irq`. A
   handler that runs then acknowledges to nowhere.

## 4. The proofs

All from the assumptions named in the modules: `IrqAssumption` (array lengths),
`AuroraAssumption` (values are naturals, the device's BAR is not RAM),
`DriverAssumption` (pages are RAM, and the handle of a page survives the
engine's mask, which is what the DMA mask set in probe is for; there are
finitely many threads and pages), `ExampleAssumption` (command lines, PCI numbers
and the variables of the program have their types, and the field that keeps a
domain holds more than a domain number),
`LinkAssumption` (addresses and the named constants are words),
`DeviceAssumption`, `LifeAssumption` (the constants have their types) and
`SpanAssumption` (an int is not larger than a page).

`AuroraProofs`. `DevInv` is inductive: with well-typed state, `status` is
EXECUTING exactly while a doorbell is in progress, and what is copied is an
accepted descriptor. The second part is needed because re-entry is harmless
only thanks to the status: a configuration write and a second doorbell during a
transfer both look at it. `ConfigStable`, `RunsToItsEnd` and `RejectedSilent`
follow from it step by step. `LineAckable` is an invariant of its own.
`CopyExact` compares the two ends of a transfer cell by cell: `ReadCellExact` and
`WriteCellExact` say which cell `CopyCell` reads and writes, in each direction, and
that it changes no other cell of RAM or of the area; what the re-entry of a
transfer into the registers changes is neither.
`EndSignalled` says that whatever was raised before, the step that ends a
transfer leaves a message under way in MSI or MSI-X mode, and the line asserted
otherwise. A message not taken yet stands for two transfers, as it does in an
interrupt controller.

`PciemuDeviceProofs`. `DeviceInv` says of a backend that a realized device is
around it and that its status tells whether a doorbell is in progress, as in
`DevInv`; without a backend, only that no doorbell is in progress (otherwise a
realize could reset the status under a running transfer) and no line asserted.
`BackendsCounted` and `LineEnds` are parts of it; a step of the device at work is
a step of `DevNext`, so the lemmas of `AuroraProofs` are cited and not repeated.
`EndSignalledThroughLife` is `EndSignalled` for this specification: the only steps
that end a transfer are those of the device at work.

`Foundations`. The library's induction theorems take an operator as a
parameter, which the provers cannot instantiate. What is needed of them is shown
by a minimal counterexample instead: a non-empty family of subsets of a finite set
has a minimal member (`SetMin`), a non-empty set of numbers a smallest one
(`NatMin`), both from the library's theorems on well-founded relations. With
`SetMin`, `SumExists` and `SumUnique` show that the recursive function behind
`MapThenSumSet` exists and is unique, and `SumDef`, `SumAdd` and `SumZero` say what
it computes: a sum changes by what one of its terms changes by.

`DmaDriverProofs`. None of the driver's properties is inductive alone. `IndInv`
says what the mutex holder may rely on at each `pc`:

* `Programmed`: the registers it wrote so far are in the device;
* `Described`: the shared struct, except `page`, describes its call;
* `Phase`: while it programs the device, everything is quiet (no doorbell, no
  message, no handler); once it waits, the transfer is in exactly one of four
  phases: copying, raised, handling, completed;
* `MappedPages`: exactly its page is mapped, up to the handler's unmapping;
* `DataMoves`: where the int is at each moment;

and that without a holder all is quiet and nothing is mapped. `dma.page` is
absent on purpose: it is the one field the mutex does not protect.
The proof has a lemma per action. `DescriptorHeld`, `OnlyMapped`,
`DriverStaysInside`, `WokenAfter` and `RegsSafe` follow. `Phase` is also the
safety half of `IoctlReturns`: a waiter is never left without a copy, a message, a
handler or a completion that is on its way to it.

`PinsCounted` adds `PinsConserved` to `IndInv`. The right-hand side counts the
calls whose handler has yet to drop a reference (`Owing`); each action that moves
the sum moves this set by one thread (`PinAdds`, `MapFailsLeaks`, `PutDrops`), and
the others leave both alone. The put is the step that needs `IndInv`: a handler
runs only for the one call that waits, so it drops one reference, whichever page
the struct names by then.

`LoneCallersPage`: with one thread nobody overwrites `dma.page`, and the page that
is transferred is the caller's, failures of pinning and mapping included.

`DmaDriverRefines`. `DriverImplementsDmaCall`: every step of the driver is a
step of `DmaCall` or leaves its variables alone. `DataMoves` is what shows that
the value moved at the two points of effect is the caller's.

`PciemuExampleProofs`. That a quotient and a remainder are unique
(`OneQuotient`) gives the page of an address and of the bytes after it
(`SpanBounds`), and `SpanExact` follows for every size of page and int.

`ValuesAgree` is proved for one process on a machine where pinning and mapping
succeed, since it is false otherwise (runs `drv_page` and `example_enomem`). A page
is one cell: where a and b lie in one page they are one variable of the model. Its
inductive invariant is `LoneInv`: the driver's `IndInv`, the types of the program
(`ExTypeCorrect`, which needs neither restriction), and `RoundTrip`, which says
where the value of a is. Other processes would disturb `IndInv` itself: `Rand`
stores to memory that another call may have mapped. The value moves only at the
two points of effect of `DmaCall`, so the lemmas of `DmaDriverRefines` are cited:
every other step leaves the contract's variables alone (`TripStutters`), and a
transfer does what the contract says (`TripTransfers`).

`AskedForExactlyBelowTen` holds for every set of devices, every command line and
any number of processes, and `BelowTenOpened` is its positive half. It is about what the recursive function of `Digits` computes:
`DigitsExist` and `DigitsUnique` show that there is one such function, `DigitsDef`
gives its equations, and `NatMin` takes the place of induction. A name that is
read in both bases is split at the same letters (`OneReading`), because a decimal
number contains none of b, d and f; and one word means the same number in both
bases exactly if it has one decimal digit (`SameNumber`), because read in base 16
it is worth at least as much (`HexAtLeastDecimal`).

`TcpLinkProofs`. `LinkInv` is inductive. `ReplyIsOwn` alone is not: what it
takes is that everything on its way in either direction belongs to this access
as long as no receive failed (`AllOwn`), and that at most one reply is owed
beyond the abandoned ones (`RepliesOwed`), so that a new access starts with an
empty stream. `ReadGivesAnswer` rests on `AllAnswers` instead, which does not
care whose reply it is, and so survives failed receives. `Linked` ties the
socket to the connection, and says that nothing is in a stream that is not
there.

`LinkInv` also contains `UnlinkedFails`.

`LifecycleProofs`. `HeldByStage` says for each call and label which resources
are held, and `StageState` the same of the module, the mutex, the ACK address
and the pointers to the BARs. Together they are inductive, with a lemma per action;
`NothingHeldUnbound` and `BoundIsReady` are what they say at two places.
`MessageHandled` adds `MessageFindsHandler` to them: a message is sent only by a bus
master with vectors, which at every such stage has the handler or is about to
request it (`SenderHasHandler`), and `free_irq` comes when it no longer is one.

Every invariant and every action property of the passing runs is a theorem, with
the two restrictions named above for `LoneInv` and `ValuesEqual`. Only
model-checked are the liveness properties `IoctlReturns`, `EngineComesBackIdle`,
`AccessReturns` and `ProgramEnds`: fairness and ENABLED are beyond the prover.

## 5. Not modelled

* Access sizes and 64-bit values: registers hold a cell, and a 32-bit write of
  the driver is a write of the whole register.
* An int across two pages, beyond the bytes of it that are transferred: in
  `DmaDriver` a page is one cell.
* What is unpinned or unmapped on a page dropped too often: the count is
  modelled, the reuse of the page by the kernel is not.
* Writes of a transfer behind `AURORADevice`; nothing is known of that memory.
* Programs that store anything but the general-purpose registers through mmap:
  the driver's contract is for programs that leave the DMA registers to it.
* A `recv` that returns part of a message, and further clients of the server: one
  QEMU makes one connection.
* The use of a file whose device was freed, other than through its mmap, and locking `dma.mtx` in the window
  between `device_create` and `mutex_init`.
* What the programs print, and a program after it opened another device's node.
* QEMU itself, what becomes of it after a failed assertion, and the build and start scripts.

## 6. Plan

The order was: the engine and the driver that depends on it, with the contract
of the two DMA functions; the link; the lifecycle of the driver; then device
construction, the start-up of the server, the whole example program and the
arithmetic of the ioctl, and the proofs for `Lifecycle`. Every safety property
has been proved since. What could follow:

1. The safety half of the liveness properties as theorems of their own: for the
   link and for the program, that whoever waits is owed a step by somebody who can
   take it, as `Phase` says of the driver.
2. What holds instead of `ValuesEqual` when there are several processes: each
   comparison is of values that the transfers of some process moved.
3. Receives of part of a message, at the granularity of words: whether client
   and server can lose the boundaries of messages.
