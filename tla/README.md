# Verification of SupernovaOS

SupernovaOS is a small x86-64 kernel in C (`src/CORE`) with an EFI loader
(`src/EFI`).  This directory holds TLA+ modules of its parts, TLC
configurations that check them on small instances, and proofs, checked by
TLAPS, of theorems that hold for every instance.

## 1. The system

### Components, their state and how they interact

| component | source (under `src/CORE/src`) | state | operations |
|---|---|---|---|
| EFI loader | `src/EFI/src/main.c` | firmware's memory map, the region table, disks | sort, compact and convert the map; find and load `CORE.DLL` |
| physical page allocator | `mm/pmm.c`, `mm/vmm.c` | `MEMORY_MAP`, an ascending list of free blocks | `setup_memory`, `alloc_physical_memory`, `free_physical_memory` |
| node pool | `mm/vmm.c` | `BLOCK_HEAP`, a chain of pages of 127 list nodes | `vmm_alloc_node`, `vmm_free_node` |
| address spaces | `mm/vmm.c` | `VMMA`, a list of typed regions; page tables; `CR3` | `virtual_alloc`, `vmm_uncommit`, `virtual_mapping`, `INT0E` |
| heap | `mm/vmm.c` | headers in the heap's words, `HEAPK` | `heap_alloc`, `heap_free`, `expand_heap` |
| reentrant lock | `async/async.c` | `CORE`, `CONT` | `async_lock`, `async_unlock` |
| console | `console.c` | frame buffer, cursor `POSS` | `outchar` under its lock |
| start of the other processors | `interrupt/apic.c`, `smp/smp.c`, `AP.ASM` | `CPU_MASK`, `APIC_BSP_LOCK`, the boot stack | `apic_startup_ap`, `aproc_startup` |
| interrupts | `interrupt/*` | routines, vector bitmap, local and I/O APIC | `register_interrupt`, `interrupt_alloc_intx`, `ioapic_redirect`, `__isr_common` |
| PCI Express, MSI, MSI-X | `driver/pci/*` | configuration spaces, capabilities | `setup_pcie`, `pcie_setup_interrupt` |
| xHCI driver | `driver/xhci/*` | command, event and transfer rings, slots, contexts, ports | start, port reset, enumeration, `xhci_send_command`, `xhci_transfer`, `xhci_interrupt` |
| USB classes | `driver/usb/*`, `driver/scsi/*` | descriptors, keyboard request, bulk-only transport | keyboard callback, CBW/data/CSW transfers |
| NVM Express driver | `driver/nvme/*` | admin and I/O queues | set-up, `nvm_express_submission`, `nvm_express_completion`, read |
| AHCI driver | `driver/ahci/*` | ports, command slot 0 | set-up, read |
| storage registry, partitions, NTFS | `driver/disk`, `fs/*`, `user/user.c` | device list, DMA page, `PARTITION`, records | `storage_insert`, `setup_part_table`, `ntfs_create`, `ntfs_mft_record` |
| formatting | `std/sprintf.c` | a context with a capacity | `vformat` behind `snprintf`, `sprintf`, `printf` |
| system calls, process | `interrupt/syscall.c`, `proc/proc.c` | `CURRENT_PROCESS`, the process's copy of the image | `__syscall`, `create_process` |
| timers, ACPI, processor set-up | `timer/*`, `acpi/*`, `cpu/*` | addresses found, frequencies | set-up once |

The parts lean on each other in loops that are easy to get wrong.  The physical
allocator keeps its free blocks in nodes, the nodes live in physical pages, and
the pages are reached through a linear mapping whose page directories are
physical pages too: a request for a node may allocate a page, and touching that
page may fault and allocate another, while the outer operation is half done.
Everything is serialised by a lock that the same processor may take again, and
that interrupt handlers on its back take as well.  All processors start on one
stack and print on one screen.  A driver and its controller share rings without
telling each other how far they have come; the answers come in an interrupt
handler, which can only tell its controller by the vector it was entered with,
while the boot thread is still setting up the next one.  What a set-up is given
(pages, a slot, a vector) has to be given back, or to stay found, whichever
step fails.

### What is hard, and what makes each part correct

* **Lists of blocks**: merging looks only one node ahead.  Correct when the
  list is ascending, disjoint and merged after any order of frees, no page is
  lost or handed out twice, and 0 means that there is no such run of pages.
* **Node pool**: nested allocation.  Correct when a slot is used exactly when
  somebody holds it and the kernel stops only when memory is used up.
* **Heap**: arbitrary orders of frees.  Correct when the walk by sizes finds
  every header and giving pages back never discards a live word.
* **Address spaces**: partial uncommits and faults.  Correct when no frame is
  leaked, shared or left behind a page that is not committed.
* **Lock, processors, console**: interleavings, a time-out that races a late
  start, handlers in the middle of a character.  Correct when the lock
  excludes and is left free, one processor at a time is on the boot stack, and
  the screen shows what was printed.
* **Rings and queues**: wrap-around with a cycle or phase bit that is all the
  two sides share.  Correct when they are queues, for ever.
* **xHCI**: a completion waited for without limit; ports whose devices come
  and go during a reset; an enumeration any step of which fails.  Correct when
  nobody takes another's answer, every wait ends, every page has an owner, and
  driver, controller and device agree on each slot.
* **Reads**: requests cut in pieces, a shared bounce page, leftovers of failed
  commands.  Correct when success means every sector in its place.
* **Interrupts**: vectors taken, registered and raised in any order.
* **Controllers as a firmware leaves them**: switched only when they have
  followed the last switch, working with pages of their own.
* **Tables of others**: memory maps, partitions, runs of clusters.

`PROJECT.json` lists the chief places with their lines under `hazards`; section 5 has
more.

## 2. The modules and the code

Pages are numbers (an address shifted right by 12), the heap counts in 8-byte
words, disks in sectors.  A C function that holds a lock for its whole length,
or that only the boot processor's single thread executes, is one action; where
somebody else can see it half done, each part he can see is an action of its
own.  Every record of `PROJECT.json` under `map` gives the lines a definition
stands for.  Definitions that come just before one of the code's, with a comment
such as "a driver that ...", are wrong variants of it; none is used by a
specification, and each is one that a property is shown to reject.

### Memory

| module | models | state | actions |
|---|---|---|---|
| `BlockList` | `mm/pmm.c`, the search of `vmm_alloc` | none: operators on sequences of blocks | |
| `PageAllocator` | what callers rely on | free and held pages | allocate a run, free pages |
| `PhysicalMemory` | `setup_memory`, `alloc_physical_memory`, `free_physical_memory`, nodes taken as given | `memoryMap`, `held`, `blockHeap`, `region` | `SkipRegion`, `AddRegion`, `Alloc`, `AllocFails`, `Free` |
| `NodePool` | the same with `vmm_alloc_node`, `vmm_free_node` and the fault they may take | `poolMap`, `poolHeld`, `poolRegion`, and `pool`, `tables`, `other`, `pending` | the above in halves (`AllocAtEnd`, `AllocInside`, `PoolFree`, ...), `GetPage`, `GetDirectory`, `LinkPage`, `Insert`, `Exhausted`, the other lists' demand |
| `Heap` | `heap_alloc`, `heap_free`, `expand_heap`, in the kernel and in a process | `userMode`, `heap`, `pages`, `live`, `resident`, `status` | `Alloc`, `AllocGrows`, `AllocFails`, `Free` |
| `AddressSpace` | what a process relies on | type of each page, pages with memory | change a run of like pages, back a page |
| `VirtualMemory` | `virtual_alloc`, `vmm_uncommit`, `INT0E` with `virtual_mapping` | `vmma`, `entry`, `table`, `free`, `status` | `Place`, `PlaceFails`, `Withdraw`, `Fault`, `FaultWild`, `Panic` |
| `MemoryMap` | loader: `SortMemoryMap`, `CompactMemoryMap`, the conversion; kernel: the regions given to the allocator | `firmware`, `loaderMap`, `kernelMap`, `given`, and the place of the loops: `stage`, `cursor`, `merged` | `SortMemoryMap`, `CompactMemoryMap`, `Convert`, one turn of each; `StartKernel`, `SetupMemory` |

### Processors, interrupts, text

| module | models | state | actions |
|---|---|---|---|
| `ReentrantLock` | `async_lock`, `async_unlock`, one memory access per step | `core`, `cont`, `calls` (a stack per processor) | `Call`, `Compare`, `Exchange`, `Count`, `Uncount`, `Test`, `Clear` |
| `Console` | the screen under `outchar` | none: operators on a screen | draw, move, scroll |
| `Multiprocessor` | `apic_setup_multiprocessor`, `apic_startup_ap`, `AP.ASM`, `aproc_startup`, `outchar` | the lock's, `boot`, `mask`, `bspLock`, `identity`, `ap`, the printers' places, `screen`, `poss` | one per step of the boot thread, of a started processor, of a printer, and `HandlerPrints` |
| `DeviceInterrupts` | vectors, `ioapic_redirect`, `pcie_setup_interrupt`, MSI and MSI-X, the common handler | vectors, routines, messages, what is raised | one per write the interrupt can fall between |
| `Sprintf` | `vformat` and what it calls | `format`, `next`, `ctx` | one per part of a format |

### Controllers

| module | models | state | actions |
|---|---|---|---|
| `Fifo` | what a ring promises | a queue | put, get |
| `XhcRing` | `driver/xhci/xhc_ring.c`: `xhc_queue_transfer` against a controller | `ring`, `place`, `writing`, `taken` | `QueueTransfer`, `Copy`, `Fetch`, `FollowLink` |
| | `xhc_event_ring_pop` against a controller | `eventRing`, `post`, `erdp`, `popped` | `Post`, `Pop`, `WritePointer` |
| `XhciDriver` | `xhci_send_command`, `xhci_transfer`, `xhc_event_ring_process`, `xhci_interrupt`, the keyboard's callback | rings as sequences, `comp`, doorbells, places of thread and handler | one per step of either |
| `XhciPort` | `xhci_port_reset` against the handler of port events | `port`, the driver's `status`, `events`, `handler`, `reset`, `history` | the thread's (`PortReset`), the handler's (`PortInterrupt`), the port's |
| `UsbDevice` | descriptors and requests; contexts, commands, what a controller makes of them | none: operators | |
| `XhciEnumeration` | ports, slots, `xhci_setup_device` and what it calls for keyboards and disks | slots, rings, pages, the controller's and the devices' own state | one per command or transfer, with its failure |
| `ControllerSetup` | base addresses, pages, the boot thread of a set-up | `function`, `hw`, `driver`, `chain`, `registry`, `free`, `boot` | operators of the next four |
| `NvmeSetup`, `AhciSetup`, `XhciStart` | the three set-ups, to the disks they register | the above | one per register the controller can react to |
| `PcieDevices` | the walk of `setup_pcie` over the functions | the above | `BootStep`: the three, and the walk; the controllers' own (`Controller`, `Fatal`) |

### Disks and what is on them

| module | models | state | actions |
|---|---|---|---|
| `DiskRead` | what a reader of a disk relies on | request, buffer, answer | ask, transfer, finish |
| `UsbBulkRead` | `usb_bulk_read`, `scsi_command` | the read's place, bounce page, what the disk has to do and to send, halted endpoints | `Ask`, `SendCbw`, `TakeData`, `TakeStatus`, `TransferFails` |
| `NvmeRead` | `nvm_express_read`, `nvm_express_transfer` | buffer, bounce page, what is done | `Ask`, `Transfer`, `TransferRefused`, `TransferFails` |
| `NvmeQueues` | `nvm_express_submission`, `nvm_express_completion` | `sq`, `cq`, `ctrl`, `asked`, `answered` | `Submission`, `CompletionTaken`, `TakeCommand`, `PostCompletion` |
| `AhciRead` | `ahci_ata_read`, `ahci_ata_operation` | `ataRequest`, `ataBuffer`, `ataBounce`, `ataCall`, `port` | `AtaAsk`, `DeviceBusy`, `Issue`, `OperationEnds`, `PortDone`, `PortFails` |
| `Partitions` | `storage_insert`, `setup_part_table`, `ntfs_create` | `table`, `list`, `part`, `volume`, `page`, `dma`, `walk`, `counter` | one per read, which may fail, and per partition |
| `DataRuns` | the runs of an NTFS attribute and the search in them | none: operators | |
| `MftListing` | `user_main`, `ntfs_mft_record`, `ntfs_resolve_record`, `ntfs_file_destructor` | the record, the heap blocks, the list printed | one per read or block |
| `CoreLoader` | `DetectingDisk` of the loader | disk, record, path, memory | one per read |

### How they are composed

`PhysicalMemory` and `NodePool` are built over `BlockList` and each implements
`PageAllocator`: the page allocator is the union of the list's blocks, whatever
they are cut into.  `VirtualMemory` uses the same operators with blocks of three
types, and implements `AddressSpace`.  `Multiprocessor` extends `ReentrantLock`
and `Console`: its printers' steps are the lock's own.  The two
rings of `XhcRing` and the queues of `NvmeQueues` implement `Fifo`; `XhciDriver` uses rings as the
sequences they were shown to be, and `XhciEnumeration` a command or transfer as
the answer `XhciDriver` shows it gets.  `UsbBulkRead` implements `DiskRead`.
`PcieDevices` extends the three set-ups; `DeviceInterrupts` has what they do
about their vectors.

`MCPageAllocator`, `MCProcessMemory`, `MCXhci`, `MCStorage` and `MCBoot` check
modules that share no state in one run: a behaviour is one of one of them,
as a variable (`level`, `part` or `kind`) says, and the variables of the others
stay as they began.  Each extends the modules it checks, whose names are apart, so
that the properties TLC checks are the definitions the theorems are about; only
`MftListing`, `CoreLoader` and `Sprintf`, which have no proofs, are instances.
The properties are statements of each part, put together by what a reader asks
(`PoolSound`, `SpaceSound`, `SlotAgrees`, ...).

Points where the models are finer than the code reads:

* `vmm_alloc_node` may call the physical allocator while that is carving or
  inserting.  `NodePool.pending` is the operation on the stack; the nested
  allocation sees the list as the outer one left it, and the page fault on the
  new page may nest once more.
* the lock's owner test, exchange, count and clear are separate accesses, and a
  handler may strike between any two of them, and between the drawing of a
  character, the cursor and the scroll.
* a processor that was given up starts nevertheless, whenever it likes.
* `xhc_queue_transfer` writes the link, changes its cycle bit and only then
  copies the TRB; the controller may look in between.  The handler tests the
  event ring for the last time and writes the dequeue pointer in two steps.
* `xhci_port_reset` reads and writes status words that the handler writes; the
  handler reads the change bits and acknowledges them in two steps.
* an interrupt may come between the enabling of a controller's messages and the
  registration of the routine, since a firmware may leave a controller running.
* `CPU_MASK` has one bit for all APIC ids that are equal modulo its width.
* the byte an interrupt stub pushes is signed: a vector of 0x80 or more is
  negative where the handler compares it.

External definitions, modelled as the code uses them: disks in `UsbBulkRead`,
`AhciRead` and `NvmeRead`; the controllers of the rings, queues, slots and
ports; the devices of `UsbDevice`; firmware.  An xHCI controller executes a TRB
whose cycle bit fits, follows a valid link, posts an event and sends an interrupt
unless busy, and halts an endpoint at an error; `prompt`, chosen at the start,
says that it stops looking at a ring as soon as it is empty and until the next
doorbell.

## 3. The runs

| run | instance | properties |
|---|---|---|
| `page_allocator` | `PhysicalMemory`: 13 pages in 5 regions (one below the limit, two that touch, a hole), requests of 1 to 3 pages aligned to 1, 2, 4. `NodePool`: 7 free pages, 6 slots in a page, two nodes of other lists | `ListSeparated`, `FailureHonest`, `PagesConserved`, `ImplementsPageAllocator`; `PoolSound`, `PoolImplementsPageAllocator` |
| `process_memory` | `VirtualMemory`: 4 pages, runs of 1 and 2, 3 frames, page tables of 3 entries. `Heap`: pages of 4 words, requests of 1, 2, 3, 5 words, the kernel's heap of up to 4 pages and a process's range of 4 | `SpaceSound`, `ImplementsAddressSpace`; `HeapSound` |
| `reentrant_lock` | processors 0, 1, 3, calls nested to 3 | `MutualExclusion`, `LeftFree`, `Progress` |
| `multiprocessor` | processors 0, 1, 3; a table that lists 1, 2, 3 and 5; 1 may be late; a mask of 4 bits, so that 1 and 5 share one; a screen of 2 by 2; two characters and their handlers | `HandedOver`, `ConsoleExclusive`, `ScreenShowsText`, `ProcessorsStart`, `KernelPrints` |
| `xhci_driver` | commands, control transfers of 2 TRBs, the keyboard, port changes, room for 2 events; a prompt controller and one that may see a TRB before its doorbell | `AnswersItsOwn`, `OneKeyRequest`, `WaitEnds`, `KeysHandled` |
| `xhci_enumeration` | 2 ports, 2 slots, up to 10 pages, eleven devices; a port; rings of 3 TRBs and a link with 3 TRBs under way; an event ring of 4 | `PagesOwned`, `SlotAgrees`, `DriverProceeds`; `ResetKnown`; `TransferRingIsFifo`, `EventRingIsFifo` |
| `storage` | USB: pages of 2 sectors, a disk of 4, requests of 1 to 3; SATA: 4 sectors to a command, requests of up to 5; NVM Express queues of 3 and 4 entries and five ids; 2 disks with tables of up to 5 entries; files of several extents and holes | `ImplementsDiskRead`; `AhciReads`; `QueuesServe`; `PartitionsOwn`; `ClustersFound` |
| `boot` | maps of 3 entries on 8 pages; 3 xHCI controllers for 3 vectors, of all kinds of messages, boot APIC 0 or 1; 10 pairs of PCI Express controllers with their firmware's registers, pages of two addresses, up to three scratchpads (an array of two pages); every format of the conversions with all flags, numbers of `%f` in eighths, of which some lie in the middle, into 5 capacities | `MemoryMapHonest`; `InterruptsServed`, `RoutinesKept`; `SwitchedCleanly`, `ControllersReady`, `DisksRegistered`, `SetupsEnd`; `FormatSound` |
| `usb_bulk_status` | `UsbBulkRead` with `EarlyCbw`; violated | `StatusIsOwn` |
| `nvme_read` | pages of 4 sectors, a disk of 7, requests of 1 to 5; violated | `BufferKept` |
| `context_entries` | one port and one slot with the devices of `xhci_enumeration`; violated | `EntriesCoverEndpoints` |
| `format_result` | the formats of `boot`; violated | `ResultIsLength` |

What they show, in words:

* **Merging.**  `pmm_insert_link` looks at one node behind the block only.
  `ListSeparated` says that this is enough whatever the order of frees, since
  every pair of neighbours was apart before; `FailureHonest` is what callers
  get from it: a free, aligned run is never hidden by a cut in the list.
* **The loop of nodes and pages.**  At every moment a slot of the pool is used
  exactly when the list, another list or the operation on the stack has it;
  the counts of free slots are those of the bitmap; a request finds a slot
  although the request for the page that was to bring new slots takes some; and
  the kernel stops for want of a node only with no page left.
* **The heap.**  From any sequence of calls the walk by sizes meets every
  header; the last block is always free, on which both the growth of the heap
  and the end of the search depend.  In a process, `heap_free` never gives back
  a page with a live word or a header in it, and always every page that has
  neither.
* **Address spaces.**  A call deletes a region and inserts up to three parts;
  in whatever order regions are reserved, committed and given back, the list
  covers the range with neighbours of different types, so that a run is refused
  only when there is none.  No page that is not committed has memory behind it,
  and each frame is free, a table, or mapped at one page.
* **The lock, the processors and the screen.**  The lock excludes, is free when
  nobody is in or on the way in, and somebody who waits gets in.  While none is
  given up, a processor on the boot stack is the one that is waited for, with
  `APIC_BSP_LOCK` taken and low memory mapped; a late one ends this, and
  `HandedOver` and `ConsoleExclusive` say so (`late = {}`).  Every processor
  that is listed starts, also after others were given up, since the mask then
  gets every bit.  Handlers print only on the boot processor and only when the
  others have halted; with them a character may come out in the middle of
  another (`struck`), but the lock is never left taken and every line is printed.
* **The rings and queues.**  All are queues, for ever, with the cycle or phase
  bit as the only thing the two sides share; no entry is fetched twice,
  skipped, or taken for one of the round before, and what is put is taken.
* **xHCI.**  A wait returns the completion of its own request and ends; no
  event is left without an interrupt; the keyboard has exactly one request
  under way until an error.  A port's reset is known to have ended when it has,
  but for an end that falls between the handler's look at the change bits and
  their acknowledgement, which nobody sees.  Whatever fails in an enumeration,
  every page has one owner, and driver, controller and device agree on where a
  slot's rings are, its packets, its intervals, and its configuration.
* **Controllers as the firmware leaves them.**  None is switched before it has
  followed the last switch.  The pages its registers name are those of
  its record, an array of scratchpads in one piece, and no page is lost or has two
  uses, with one exception: the page of NVM Express's identify data, which the
  driver gives back although it is the submission queue by then (`nvme.c:355`).
  The allocator has it, and a later controller may get it.  The disks registered are those
  it told of; the set-ups end when the controllers are sound: none breaks, a
  port whose link was reset comes back, and NVM Express masters the bus.
* **Interrupts.**  What a controller raises once it is set up is served, for
  vectors below 0x80 and on a machine where the processor with APIC id 0 is up;
  a vector without a routine is met only when the firmware left the controller
  running and it raises in the window between messages and registration.
* **Reads and tables.**  A read of a USB disk that answers success has put every
  sector in its place, whatever failed in reads before, and none writes behind
  its buffer.  A SATA read does so in its first command and where there is
  memory (`AhciReads` says what it does beyond).  Partitions have their own data
  and their own boot sector although all come through one page; the files
  listed are those of the root, each for its own record unless a read failed;
  the loaded kernel is one file, whole and in order.  What the allocator is
  given was free in the firmware's map.
* **Text.**  The formatter never writes past its buffer, and a number has its
  value, sign and width in any combination of flags; one of `%f` is the nearest with
  its decimals, and for a number in the middle of two texts either of them, as the
  doubles of `emit_float` come out.

Four runs end in a violation, where the code differs from what its comments say:

* `usb_bulk_status`: `usb_bulk.h:25` says that the tag associates a status with
  its command.  `scsi_command` gives each command the tag 1, does not compare it,
  and leaves the status unfetched when the data stage fails.  With a disk that
  accepts the next command meanwhile, a later read takes the data and the status
  of the one before.
* `nvme_read`: `nvme.h:1896` says that the count of a read command is zero-based.
  `nvm_express_transfer` stores the count itself, so a read moves one sector too
  many.
* `context_entries`: `xhci_context.h:130` says that Context Entries is the index
  of the last valid endpoint.  `xhci_usb_configure_endpoint` stores the index of
  the endpoint it configures, also when one with a higher index is in use.
* `format_result`: `sprintf.c:598` says that the final NUL does not count.
  `ctx_putc` counts it, in the next line.

### Bounds, and why they are enough

* Thirteen (or seven) pages: three separated blocks, a merge on either side and
  on both, a prefix and a suffix at once, and alignments that overshoot a node.
  All frees of any part of what is held are tried.
* `Slots` is 6 instead of 127: the threshold of the code is 4, so a page
  runs low at its third node and the pool grows in the middle of
  start-up, of carving, of freeing and of other lists' requests.  `MaxOther`
  bounds the nodes in use by other lists; two can use up the last page.
* `PageWords` is 4 instead of 512 and `MaxPages`, `UserPages` are 4: blocks lie
  within a page, across one boundary and across several, and end on one.
* Four pages in two page tables hold a region with both neighbours of the other
  types, and three frames are fewer than four pages and two tables need: they
  run out at a page and at a table (`FaultWild`).  `TableSpan` is 512 in the code.
* `MaxCalls` bounds the calls nested on one processor, those of handlers
  included: 3 is a handler in a handler in a thread.  `MaskBits` is 4, of 64;
  the table has an id that is there twice in the mask and one that is absent.
  A screen of two lines scrolls at the third.
* `Last`, `EventSize`, `EventRoom`, `SqSize`, `CqSize`: ring lengths, 255 and
  more in the code.  A ring of three goes round with both cycle bits.  The
  lengths of the two NVM Express queues and `Ids` have no common divisor, as
  those of the code, so that they fall together in every way.
  `Window`, the TRBs outstanding, is 3: the code queues one request of at most
  three TRBs and waits for it.  `Stages` is the length of a control transfer: 2
  tells its last TRB, which alone asks for an event, from the others.
* Ten pages are fewer than two disks need, so that memory runs out at every
  step of an enumeration; the eleven devices are a keyboard and a disk, fast and
  slow, and each descriptor the parse treats differently.
* Reads have requests below, of and above a page or a command; a command's mark
  is counted modulo 3, since at most one is with the disk and one answered but
  not fetched.  Requests alternate between two marks.
* `Byte` is 4 instead of 256, so that runs of clusters need one byte and two,
  with either sign.  `Half` and `Vectors` are 7 and 9: three vectors are free,
  below and above the sign bit and at 0, where the allocator's failure lies.
* `Patience` is 1 instead of 5000 or 500: the turns differ only in their number.

Deadlock is checked in `reentrant_lock`, `xhci_driver` and `nvme_read`.  In the
others something may really stop: no page for a node, or for the heap; the
kernel's allocator called from ring 3; a page touched that is not committed; a
transfer on a halted endpoint; a processor in its idle loop; a panic; and what
has an end, as an enumeration, a walk, a set-up, a text.

### Fairness

* `ReentrantLock.FairSpec`: a processor goes on executing the steps of a call
  and leaves the section.  Nobody need call, and nothing decides who wins the
  exchange: `Progress` says that somebody gets in, not everybody.
* `Multiprocessor.FairMachine`: processors execute, each its own step; a wait
  nobody ends times out, as its counter does.  No handler has to come.
* `XhciDriver.FairSpec`: the handler and pending interrupts go on (weak).  The
  thread is interrupted again and again by keys and port changes, and the event
  ring may be full now and then; it is enough that the thread can run, and the
  controller can report, again and again (strong).  No key, port change or
  request has to come.
* `MCXhci`: the thread gets on with the enumeration, every command having its
  answer, right or wrong; the driver finishes its copy of a TRB; the controller
  looks at its ring as long as there is something for it.
* `MCStorage`: both sides of the NVM Express queues go on.
* `MCBoot`: a pending interrupt is taken; the boot thread runs; each controller
  follows what it was told.  That one breaks (`Fatal`) is never required.

## 4. What is proved

| theorem | in | for |
|---|---|---|
| `InsertLinkTakes`, `InsertLinkPages` | `BlockListProofs` | every merged list and every block outside it |
| `CarveGives` | `PhysicalMemoryProofs` | every list, count and alignment |
| `TypeCorrect`, `Separated`, `Conserved`, `Honest`, `Implements` | `PhysicalMemoryProofs` | every region table, every set of requests |
| `RetypeChanges`, `SpaceIsSound`, `SpaceImplementsAddressSpace` | `ProcessMemoryProofs` | every range, any runs, frames and reach of a page table |
| `HeapStaysSound` | `ProcessMemoryProofs` | any size of pages, heaps and requests; the kernel's heap and a process's |
| `Exclusion`, `FreeAtRest` | `MultiprocessorProofs` | any processors, any nesting; without handlers |
| `StackHandedOver`, `ConsoleKept` | `MultiprocessorProofs` | any processors, table, mask, late ones; handlers to any depth |
| `PoolStaysSound`, `PoolImplements` | `PhysicalMemoryProofs` | any slots in a page, requests, other lists, region tables |
| `RoutinesStay` | `BootProofs` | any controllers, vectors, redirections and firmware tables |
| `SwitchesFollowed`, `ReadyControllers`, `RegisteredDisks` | `BootProofs` | any functions with any ports and namespaces, left by the firmware in any state, any number of pages and scratchpads; controllers may break. `ReadyControllers` leaves out the page of `nvme.c:355` |
| `HonestMemoryMap` | `BootProofs` | any map without overlap, in any order |
| `RingTypeCorrect`, `RingImplementsFifo` | `XhciProofs` | any ring length and window, with and without a link at the start |
| `EventsImplementFifo` | `XhciProofs` | any length of the event ring |
| `PagesStayOwned`, `SlotsAgree` | `XhciProofs` | any ports, slots and pages, any devices plugged in |
| `DriverTypeCorrect`, `OwnAnswerSeen`, `KeyRequestKept` | `XhciDriverProofs` | any room for events, control transfers of two or three TRBs |
| `ResetEndKnown` | `XhciProofs` | any connects, disconnects and failures during a port's reset |
| `ReadImplementsDiskRead`, `StatusOwned` | `StorageProofs` | any size of pages, disk and requests; a disk that takes no command before it was asked for the last status |
| `AtaReads` | `StorageProofs` | any size of commands and pages, any requests, any pages of the buffer absent |
| `QueuesImplementFifo` | `StorageProofs` | any two lengths of the queues, any number of ids |
| `RegistryOwn` | `StorageProofs` | any disks, in any order, with any tables |

`PROJECT.json` says which property of which run a theorem states.  The lemmas
about blocks of several types are those of `BlockListProofs`, which the physical
allocator and the address spaces both use.

**Physical memory.**  The invariant is type correctness, `Coalesced(memoryMap)`
and `PagesConserved`.  It has to have all three at once: that a freed block
touches no page of the list comes from conservation, and only a list apart
everywhere lets the insertion stop after one node.  The list lemmas say what
`InsertLink` yields from such a list: the place it stops at, the part before,
the merged block and the part behind, each apart from the next.  `Honest`
follows since a run of free pages lies in one block of a list whose blocks do
not touch.  `Implements` maps the list to its set of pages.

**Node pool.**  Here an operation may be half done while another page is sought
for it.  `PoolInv` says three things at every such point.  The slots in use are
those of the list, of the other lists and of the request in progress, each once
(`NodesSound`), and every page counts its free slots exactly, but for the one a
growth has counted off and not yet marked.  The last page has room for what a
growth takes on the way, or is untouched (`Roomy`): hence a request finds a slot
whenever there is a page, and the nesting ends.  And the pages are apart
(`PagesApart`): free, held, waiting to be put on the list, of nodes, the new one of
these, directories; all of the regions the kernel has been through
(`PagesManaged`).  A step either moves a page from one of these sets to another
or leaves them, which is a step of `PageAllocator` when a caller gets or gives,
and a stutter otherwise.

**Address space.**  `SpaceInv` is type correctness, `Tiled` (the list is merged
and its blocks cover the range) and `OneUseEach`.  One call takes a block out
and puts up to three back, so the list covers less than the range on the way.
`RetypeChanges` says what is left once all are back: the pages asked for have
the new type, every other page keeps its own, and the list is merged.  Whether a
run is refused honestly then follows as for physical memory, and the type of a
page in `AddressSpace` is the type of the one block that holds it.  `OneUseEach`
counts: each frame is free, a table, or mapped, in one place, so a page fault
that takes one or two frames, and runs out at the second, loses none.

**Heap.**  `HeapInv` has five parts for the list of blocks.  `Chain`: each block
begins where the one before ends, the first at 0, the last at the end of the
pages and alone marked as last.  `Joined`: no two neighbours are free, and the
last block is.  `Owned`: used blocks and callers' blocks are in correspondence,
and those of callers are apart.  `There`: each header and each word of a caller
lies in a page with memory.  `Clean`, in a process: no page inside a free block
has memory.  The steps of
`heap_free` are the clearing of the mark, the join with the block before and the
join with the block behind, and `Pairs` names the places where two free
neighbours may still stand, one fewer after each join.  What the uncommit gives
back lies wholly behind the header and before the end of the joined block, so
nothing else is lost.  It goes no further than one page to each side of the block
that was freed; that it is complete all the same rests on `Clean`, by which the
pages beyond, inside a neighbour that was free, had no memory any more.
The search of `heap_alloc` always ends, since the last block is free (`Joined`).

**Lock.**  The invariant says where the owner's calls can be when `core` is a
processor's number, that `cont` counts exactly the calls between `Count` and
`Uncount`, and that a call past the exchange belongs to the owner.

**Processors and console.**  `HInv` says, while no late processor was given up,
that the boot processor has come to the mask's end only with nobody on the
stack, and that a processor on it is `boot.id` in a wait with the lock taken;
`StackHandedOver` is part of it.  For the console there are two cases.  Until a
handler strikes, the machine's steps are steps of the lock, whose own invariant
holds.  When one strikes, the boot processor is past the start, so by the
hand-over all others have halted for good: from then on `Alone` holds, which
says that only the boot processor has calls, and what `core` and `cont` are when
calls are stacked on others at any of their steps.  A lock counted down to 0 by
a handler and given away under its owner is harmless for this reason only.

**Interrupts of devices.**  `RoutinesKept` is not inductive, as it speaks of
what is raised.  `RoutesInv` adds where it comes from: a message that is on
has a vector with a routine, or is the one the boot thread is about to register
(`MessagesServed`); messages the thread has not come to are off
(`MessagesAhead`); only what the firmware started runs behind the thread's place
(`RunningKnown`); and the vectors given to devices are no fixed ones
(`VectorsFree`), so that no registration replaces the system control routine.

**Set-up of the controllers.**  `PcieInv` says how far the boot thread is with the
controller of each place: not there yet, at one of the positions of its set-up,
or past it (`Before`, `In`, `Over`).  By position it gives the pages the record
has and which registers name them (`NvmePages`, `NvmeQueuesAt`, and likewise for
AHCI and xHCI), what the controller is known to have followed (`NvmeOn`,
`AhciStopped`, `XhciHalted`), which command is under way (`NvmeCommand`) and what
it told of (`NvmeTold`).  `PagesApart` says that every page of the machine is free
or in one record, at one name; the pages of a set-up that fails may stay in its
record but are nobody else's.  It names its exception: the identify page of an NVM
Express controller the walk is past is free, or in the record of a later place,
while the controller's register for the submission queue still holds it.  The pages an xHC
takes are the lowest, a run for its array among them: `XhcTaken` says that they are
free, apart, and that the run is one.  Of the registry it says that a disk
is of a unit the walk has come to and was told of, and that what was told of is
registered by now or still to come (`NvmeDisksKnown`, `AhciDisksKnown`).  A step
of the thread changes the record and registers of the one place it is at, a
step of a controller its own registers, and for every other place the whole of
`PcieInv` is carried over by one lemma for each kind.  `SwitchesFollowed` reads
off `NvmeOn`, `AhciStopped` and `XhciHalted` what the last switch was and that it
was followed.

**Memory map.**  `MapInv` follows the map through four loops.  What a map *tells* is
the set of pairs of a page and a type; at every turn of the sort and of the
compaction the entries that count tell what the firmware told (`MapSame`), for the
compaction those it has merged to and those still to be read.  `MapOrder` says how
far they are sorted, and that none overlap.  `RegionsKnown` is about the kernel's
regions: they are in order and before the entries still to be read, each page
of a region is of an entry of the region's type, and each entry read lies in one
region.  Region 0, which says that it starts at 0, is taken for the pages it was
made of (`RealPages`).  From there, a free page above 1 MB that the allocator
was not given lies in a region that starts below 1 MB or is region 0, and all
pages of that region up to it are free or taken for free: `Joined`.

**Transfer ring.**  Besides the types: the cycle bits of the TRBs before and
behind `INDX` on this round, that no entry behind a fresh ring's `INDX` looks
new, where the controller can be, and that the TRBs outstanding fit.  A step of
the driver or the controller then appends to or takes from the sequence of
entries between them, or leaves it as it is: following the link, which moves
the start of the sequence from the end of the page to its beginning, is a
stutter.

**Event ring.**  The entries before the controller's place, and no others, carry
its present bit (`CycleBits`); an entry not yet written has the bit no driver
waits for (`Unwritten`); and the driver is behind the controller on the same
round, or beyond it on the round before, with the pointer that was last told in
between (`Places`).  This is what keeps the controller from writing over an
event that was not taken, however late the pointer is told.

**Reset of a port.**  `ResetKnown` needs to know where the end of a reset is noted
while it is on its way from the port to the thread.  `PortInv` says that before
the request no reset has ended (`NotBefore`), that a change bit of a reset or the
driver's own bit is there only for one that did (`EndsKnown`), that a change bit is
never without an event or the handler to read it (`ChangesReported`), and that an
end nobody raced for is in the driver's bit, or in a change bit the handler has
not looked past (`EndNotMissed`).

**Transfers and their answers.**  `DriverInv` follows a request through its
four places.  Where none is under way nothing is in the ring or among the
events (`IdleQuiet`); the TRBs in the ring are the waiting request's, and only
the last asks for an event (`OwnTrbs`); an event about the ring is the
request's, and there is one at most, and then nothing in the ring (`OwnEvents`);
a completion seen after the clearing is its own and the last trace of it
(`OwnAnswer`).  A halted endpoint is excepted wherever the code does not clear
what is left.  `KeyPlaces` is the same for the keyboard, whose one request is in
the ring, in an event, or with the handler.

**Enumeration.**  `PagesOwned` speaks of sets and counts of uses; `OneUse` says
it of one use at a time, which is what a step changes.  The rest of `OwnedInv`
is what the steps read: a slot that is off has no context (`SlotsHold`), the
endpoints still to configure have no ring and different ids (`RingsAhead`, for
which the parse must yield endpoints numbered 1 to 15), the page of an inquiry is
there exactly during one, and a page is lost only when a port's answer says that
an inquiry failed (`FewLost`).

**Contexts of a slot.**  `SlotAgrees` holds of every slot the controller knows;
`AgreeInv` follows the slot at hand to that, on top of `OwnedInv`.  It says which
contexts the controller has of each slot and where they come from (`SlotKnown`),
how far the slot at hand is wherever the thread is (`SlotAtHand`), that no other
slot is at its port (`RootsApart`), and what the device has taken and which
endpoints are still to configure (`DeviceAtHand`).  A slot that the keyboard or a
disk uses is one the thread is done with (`UsersKnown`), so no later command
touches it.  `PolledInTime` is the arithmetic of the interval: the exponent in the
context is the largest that does not exceed the period asked for, which needs a
period that is not 0.

**Reads of a USB disk.**  `ReadInv` says of a read under way that it is inside
the disk (`Within`), that what is done is in the buffer (`DoneHolds`) and the
piece whose data came is there or in the bounce page (`PieceLanded`), and that
what the disk has still to send is the data and status of this command
(`RepliesOwn`).  The last holds for a disk that keeps the order of the
protocol (`~EarlyCbw`); the run `usb_bulk_status` shows what happens on one that
does not.  Each step is then one of `DiskRead`, the transfer of a page's worth
being the one that is seen.

**Reads of a SATA disk.**  `AtaInv` says what a read leaves behind for the pieces
done (`DoneLeft`, with `Left` for what the code does when a piece goes through the
bounce page or a page of the buffer is absent), that the buffer is untouched from the
piece under way on until its data comes (`NothingYet`), and that it is in place or
in the bounce page afterwards (`PieceIn`).  `PortAgrees` ties the port to it: a
command is with the port only in the wait for it, or the port stands, which
every later read then finds.

**Queues of NVM Express.**  `Phases` says which entries of the completion queue have
the phase of the present round, and `OneCommand` where the one command is: with
nobody, in the ring, with the controller, or answered, in which case the
controller is one entry further than the driver, on the same round or, at the
end of the queue, on the next.  The two queues of `Fifo` are then those of no
entry or one.

**Partitions.**  `WalkInv` says that the sector in the page is the one of the entry
the walk is at (`WalkAgrees`), that what was kept of a partition is its own entry
and its own boot sector (`PartsOwn`), that all entries in use before the walk's
have their partitions (`Covered`), and, unless pages were lost to a failed read, on
all disks before; that drive C: is found once there is one (`VolumeFound`); and
that each disk's walk is counted, lost or going on (`Counted`).

Assumptions, each named in the module that declares the constants:
`RegionsAssumption` (the table is ascending, as the loader's sort leaves it),
`FirstRegionAssumption` (a usable region has two pages or more: the first loses
one to the nodes), `LowLimitAssumption`, `RequestsAssumption`, `LockAssumption`
(APIC ids fit a byte with one added), `ConsoleAssumption`, `MachineAssumption`
(the boot processor is there and is not late, ids are of a byte),
`RingAssumption` (no more TRBs outstanding than the ring holds),
`EventAssumption`, `RangeAssumption` (page 0 is not in the range: 0 is the
refusal), `HeapAssumption` (a page holds a header and a word more, no request is
for nothing), `DriverAssumption`, `EnumerationAssumption` (slots and ports count
from 1; endpoints of a descriptor have the numbers 1 to 15, as USB gives them:
the driver would put the ring of another over that of the control endpoint; and a
polled one has an interval of 1 to 255 ms on a slow device, an exponent of 1 to 16 on
others),
`BulkAssumption`, `InterruptsAssumption`, `PoolAssumption` (the regions as in
`RegionsAssumption`, the first with two pages or more), `AhciAssumption` (the most
sectors of a command are a multiple of those of a descriptor), `QueuesAssumption` (a
queue has two entries or more), `PartitionAssumption` (disks are numbered in
the order of their insertion), `SetupAssumption` and `DevicesAssumption` (the
functions of a bus are as `FunctionAssumption` describes them), `PointersAssumption`
(a page holds an address or more), `MapsAssumption`
(the firmware reports no page twice and no empty entry).  TLC evaluates each in
a run.  `ReadImplementsDiskRead` and `StatusOwned` have `~EarlyCbw` besides, a property
of the disk.

**Only model-checked.**  Everything under fairness (`Progress`, `WaitEnds`,
`KeysHandled`, `DriverProceeds`, `QueuesServe`, `ProcessorsStart`,
`KernelPrints`, `InterruptsServed`, `SetupsEnd`): no prover here has a rule for
it, nor for `ENABLED`.  `ScreenShowsText`, whose screen is computed by recursion
over the text, and `FormatSound` and `ClustersFound`, whose digits and runs are:
induction over data has no rule here either.  All other safety properties of the
passing runs are theorems.  The modules with proofs are
written without recursive operators.

## 5. Not modelled

`PROJECT.json` says for each component what is missing.  In short:

* **System calls, processor set-up**: a dispatch by number to functions
  modelled where they are defined; writes of descriptor tables and control
  registers.  No behaviour over time.
* **Timers, ACPI tables**: counters read and a calibrated wait; a one-pass parse.
  Their part in interrupts is in `DeviceInterrupts`.
* **Processes**: the kernel starts one and never switches or ends it; its
  memory, its heap and what it does with the disk are modelled.
* **Address spaces**: `UNCOMMIT` and `FREE` over several regions, which no
  caller asks for; the attributes of a mapping.
* **USB**: the translation of key codes; the mouse, which the driver refuses.
* **Partitions and NTFS**: the index of a directory and a record's fix-up.
* **The loader**: its screen mode, page tables and own drivers; the firmware's
  services.
* **Formatting**: exponents and `%g`, which end in the same fields; fonts,
  colours.
* **Headers that hold no code** (`sal.h`, `correct.h`, most of `nvme.h` and
  `xhc_regs.h`): annotations and register layouts.

Places that no property covers, because what happens there is certain and not
a matter of order, or lies in what the models leave out (under `src/CORE/src` where not
said otherwise):

| line | what happens | in the model |
|---|---|---|
| `mm/vmm.c:513` | a request that fits the last heap block exactly extends the heap, in a process by the kernel's allocator from ring 3 | `Heap` stops there (`Stop`) |
| `mm/vmm.c:438` | without a frame for a page table its entry names page 0 | `VirtualMemory` stops there (`FaultWild`) |
| `mm/vmm.c:346` | giving back several blocks at once advances by pages instead of bytes | no caller; the guard of `Withdraw` |
| `driver/xhci/xhci.c:251` | the output context is freed before the slot is disabled | the one caller has none yet |
| `driver/xhci/xhci.c:352`, `xhci.h:27` | arrays of slots and ports are short for the highest numbers | layouts are left out |
| `driver/nvme/nvme.c:89` | a read of eight sectors or more is refused | `NvmeRead` has it (`TransferRefused`) |
| `driver/nvme/nvme.c:333` | a format's upper index is put in the wrong place | `DisksRegistered` leaves such disks open |
| `driver/nvme/nvme.c:212`, `137` | page size and bus mastering are the controller's and the firmware's | `SetupsEnd` is for those that fit |
| `driver/ahci/ata.c:103`, `ahci.c:75` | pages not given back | one page for each read |
| `fs/part.c:41`, `fs/ntfs/ntfs.c:35`, `54`, `ntfs_file.c:13` | limits of tables, holes, clusters beyond 32 bits, attributes of length 0 | well-formed tables of few entries |
| `console.c:79`, `std/sprintf.c:610`, `101` | signed characters, colours, 22 digits | characters are names, numbers small |
| `interrupt/apic.c:321`, `131` | a redirection is unmasked before its destination; spurious interrupts | one step; none |
| `src/EFI/src/main.c:633`, `656`, `303` | the table's 64 entries, the map's key, a full sector | no limit; no key; an empty entry in each sector |

Three further places where a comment and the code differ, too small for a run
of their own: `xhci_device.c:375` copies the output context into the input
context so that the endpoints are added to what is up to date, and the copy is
cleared again before each endpoint is configured (`SlotAgrees` holds without
it); the address in `msi.c:16` has the APIC id where the address has no such
field, which `InterruptsServed` states as it is; and `sprintf.c:561` announces
the digits of `%p` in lower case and sets the flag for upper case.

What would come next: a read through `NvmeRead` over
`NvmeQueues` in one module; several controllers at work at once, whose handlers
share the keyboard's driver; the processor's own view of the page tables in
`VirtualMemory`, with what stays in the translation buffer.
