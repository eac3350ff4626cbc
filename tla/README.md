# CARAT for Linux modules: specifications, model checks and proofs

CARAT (compiler- and runtime-based address translation) guards the memory
accesses of a kernel module. A compiler pass puts a call of `texas_guard`
before each load and store; the kernel module `carat-cop` answers the calls by
looking the address up in a policy, a red-black tree of regions; a process
writes policies through `/proc/policydev`. The largest module the repository
compiles with the pass is the network driver e1000e. This directory holds TLA+
specifications of all of these, TLC configurations that check them on small
instances, and TLAPS proofs, for every instance, about the region tree, the
policy module, compiled modules that run against it, and much of the driver.

Paths below are relative to the repository; `carat-cop.c` is
`src/caratCOP/carat-cop.c` (the copies under `caratCOP/test` and
`caratCOP/e1000e-test` are the same code), `Pass.cpp` is `src/pass/Pass.cpp`;
the driver's files are those of `src/caratCOP/e1000e-test`.

## The system

| part | state it keeps | operations | hard about it |
|------|----------------|------------|---------------|
| region tree, `carat-cop.c:72-140` | nodes, links, root | `insert_region`, `lookup_region`, `delete_region` | any order of insertions, overlapping, empty and wrapping regions, rotations |
| policy module, `carat-cop.c:142-306` | `test_policy.region_map`, the trees on the heap, the proc entry | write (`input_policy`, `list_to_tree`), read (`output_policy`), `texas_guard`, load, remove | no lock anywhere; user memory and `kmalloc` fail in the middle; rmmod against running calls |
| user-space application, `user-space-app.c` | none | writes two policies, reads one | lengths one short of what the comments say |
| guard pass, `Pass.cpp` | guards found, per function and in all | scan, follow a pointer to its base, record, insert | hash-map order, insertion into code that already has guards, exemptions |
| guarded modules, `src/test.c`, `caratCOP/test/test.c` | their own | whatever they do, with guards | the guard and the access are two steps; loaded before there is a policy |
| driver: transmit ring, `netdev.c` | `next_to_use`, `next_to_clean`, buffers, descriptors, stopped queue | `e1000_xmit_frame`, `e1000_clean_tx_irq`, hang detection, reset | sender, reclaim and controller share the ring without a lock |
| driver: receive ring, `netdev.c` | the same, and a frame under construction | three allocation and three clean routines | allocations fail; frames span descriptors, polls and resets |
| driver: interrupts, `netdev.c` | ICR, IMS, the NAPI state | handlers of three modes, `e1000e_poll`, netpoll, up and down | lost causes; an interrupt between two steps of a poll |
| driver: life cycle, `netdev.c`, `ethtool.c` | state bits, vectors, rings, timers, power | probe to remove, open, close, reconfigure, suspend, resume, errors, watchdog, reset task | operations that overlap, requests that fail half-way |
| driver: PHY access, `phy.c` | `hw->phy.addr`, the page selected, wakeup bits | reads and writes of each family | shared pages; transactions that fail |
| driver: semaphores, `82571.c`, `80003es2lan.c`, `mac.c`, `ich8lan.c` | SWSM, SW_FW_SYNC, EXTCNF_CTRL, EECD | acquire and release | two ports, threads and firmware; time-outs half-way |
| driver: NVM, `ich8lan.c`, `nvm.c`, `ethtool.c` | two flash banks, shadow RAM; EEPROM words | read, write, commit; ethtool's byte ranges | power loss between flash cycles; odd bytes, pages, address bits |
| driver: copper link, `mac.c`, `ich8lan.c`, `phy.c`, `ethtool.c` | autonegotiation, flow control, K1, EEE | watchdog's check, ethtool's settings | the link changes between two looks |
| driver: SerDes link, `82571.c`, `mac.c` | link state, forced or negotiated | the watchdog's check | no interrupt to trust; a partner that comes late |
| driver: filters, `netdev.c`, `mac.c`, `ich8lan.c`, `manage.c` | RCTL, RAR, MTA, VFTA, management VLAN | `e1000e_set_rx_mode`, VLAN calls, `e1000_set_mac`, resets | copies of registers; resets lose them, other ports' too |
| driver: timestamps, `netdev.c` | one transmit and one receive time, the packet marked | marking, the work, the watchdog, settings, removal | times carry no name |
| driver: self-tests, `ethtool.c` | causes, test rings | interrupt test, loopback test | verdicts from memory and causes that were there before |
| driver: ring memory, `ethtool.c`, `netdev.c` | blocks of two rings | `e1000_set_ringparam`, open, close | memory runs out between two rings |
| build scripts | none | compile with the pass | one of them compiles `carat-cop` itself with the pass |

How they interact:

- the **pass** and the **policy module** share the signature and the flag bits
  of `texas_guard` (`texas.h`); the guard returns nothing;
- a **guarded module** calls `texas_guard` synchronously, on its own thread,
  whatever that is; the exported symbol keeps `carat-cop` loaded;
- a **process** writes the decimal address of the first node of a list in its
  own memory; the module reads the list directly;
- `input_policy` builds a new tree and stores a pointer to it. Guards and
  readers load that pointer once and walk the tree; that pointer is all they
  share with writers;
- inside the **driver**, the stack, NAPI, interrupt handlers, the watchdog,
  the reset task, ethtool and power management run at once; they meet in the
  rings, in state bits (`__E1000_DOWN`, `__E1000_RESETTING`), in device
  registers, and in the controller, which is a process of its own.

What makes each part correct:

- *region tree*: the three functions are operations on a set of regions with
  distinct start addresses, and their loops end;
- *policy module*: guards and readers see whole policies, the policy is
  replaced at one moment, nothing is lost to concurrent writers but the last
  store wins, a failed write changes nothing, removing waits for callers;
- *pass*: each load and store but the exempt ones has its guard right before
  it, and nothing else changes;
- *together*: no access that needs a guard happens before the guard for that
  address and kind of access has answered;
- *rings*: the transmit ring is a queue: accepted packets are sent once, in
  order, or dropped by a reset, and freed once; the device touches mapped
  memory only; the stack gets whole, good frames in order;
- *interrupts and life cycle*: waiting work is announced, an open interface is
  complete, a closed or sleeping one is quiet, no operation waits for ever;
- *registers*: an access reaches the register it names, shared ones are
  exclusive, filters and link settings follow what was asked for;
- *NVM*: one bank is valid at every moment, and writes change what they name;
- *reports*: times, answers and verdicts are true.

## Modules

```
Regions ---- RegionMap (abstract map)          GuardedCode (what the pass is given, what it should give)
   |             ^ implements                      |             \
   +--- RbTree --+                              GuardPass         \
   |      \      |                              (runOnModule)      \
   |       \     |                              <- GuardPassProofs  \
   |    RegionTree (loops, nodes) <- RegionTreeProofs               \
   |                                                                 \
   +--- PolicyStore (abstract register)                           CaratSystem <- CaratSystemProofs
   |             ^ implements                                    /  (clients run compiled code
   +--- PolicyModule (handlers, guards, rmmod) -----------------+    against the policy module)
               \--- UserPolicies (the two policies of the application) <- CaratSystemProofs

Rings (index arithmetic)          TxQueue (abstract queue)
   |--- TxRing --- implements -------^      <- TxRingProofs
   +--- RxRing <- RxRingProofs            IrqSetup --- Lifecycle
HwSemaphores  NapiIrq  PhyAccess <- HardwareProofs
NvmFlash  NvmWords <- NvmProofs
Filters <- RxRingProofs
CopperLink  Timestamps  SelfTest  RingMemory <- HardwareProofs
SerdesLink
   all of them: MCDriver (safety) <- DriverProofs;  seven of them and the policy module: MCLive (liveness)
```

### The policy and its guards

**Regions** has the region record, the arithmetic of `addr + len` in
`uint64_t` (modulo `Modulus`, which stands for 2^64), the three-way test of
the lookup loop and `check_protections`. `MayFind` says what a lookup in a set
of regions may answer: a region that covers the address, or nothing if no
region covers it, or if the set is ambiguous, that is, if some region starts
inside another one. There the answer depends on the tree's shape.

**RegionMap** is the promise of the three tree functions: a set of regions.

**RbTree** models the part of `<linux/rbtree.h>` that is used. Colours are left
out: rebalancing is any choice of up to two rotations, which includes the one
the colours call for after an insertion. An erasure rotates the node to a
place where it has at most one child, and splices it out. `below`, the set of
nodes of each subtree, is an auxiliary field that no operation tests; the
invariants are stated with it, since recursion over the tree could not be
proved about.

**RegionTree** is `insert_region`, `lookup_region` and `delete_region` with one
action for each way through an iteration of a loop, and one for each return.
`slot` is `n` and `parent` of the insertion; `n`, `addr` are the locals of the
search. `reply` is what the last call returned, for the comparison with
RegionMap.

**PolicyStore** is the promise of the policy module: a register of whole
policies. Each write, read and guard takes effect at one moment of its call; a
call that is refused or faults has no effect.

**PolicyModule** is the policy module with its callers. A thread's step goes
from one access to shared state to the next: `InputPolicy` parses the number
and has no effect on others, `AllocRoot` is the `kmalloc` of the root, each
`ListToTree` an iteration of the list's loop, `Publish` the store to
`test_policy`, `WriteReturn` the return. `OutputPolicy` loads the pointer,
`PrintRegion` is one iteration of the printing loop, `ReadReturn` the copy to
the user. `TexasGuard` loads the pointer and `GuardReturn` logs what the
lookup found in it (an operation of RegionMap; the descent itself is
RegionTree's). `NoMemoryForRoot`, `NoMemoryForRegion`, `BadPointer`,
`OutputFault`, `PrintPastBuffer` and a `TexasGuard` without a policy are
kernel faults: the thread stops where it is, and a process that stops in a
handler keeps `proc_remove` waiting. `pc = "dead"` and `guard = "dead"` are these threads. A
number that is corrupted because the buffer is not terminated
(`carat-cop.c:222`) is the list `Dangling`.

**UserPolicies** has the policies of `user-space-app.c` (arguments 2 and 3) as
fractions of the address space: all its constants are multiples of a sixteenth
of 2^64 less one, or of 2^32 at the top. Arguments 0 and 1 pass pointers to
something else than a list, which are the bad lists of PolicyModule.

**GuardedCode** describes the input of the pass as data (functions, values and
their definitions) and `Compiled`, what the result should be, written down
without the pass's order of steps. **GuardPass** is `runOnModule`: the scan,
the pointer chase, the record, and the insertions in the order of an
`unordered_map`, which is left open. Functions may be scanned in any order,
more than the code does.

**CaratSystem** composes them. Each client executes the compiled form of a
function over and over; `CallGuard` and `ReturnGuard` are PolicyModule's
`TexasGuard` and `GuardReturn`, `Perform` is the access itself, which nothing
prevents. `PolicyFirst` is an assumption about deployment, not code: with it,
clients are loaded only once a policy has been written.

**RegionTreeProofs**, **GuardPassProofs** and **CaratSystemProofs** hold
proofs, the last of them those about the policy module, with the answers its
guards give and the application's policies, in its first part and about the clients
in its second; modules that begin with
`MC` give constants their values.

### The driver

Every module of the driver models one mechanism against the processes that
meet in it, the device included. Registers are variables; a step goes from one
access to shared state to the next. What a packet, a word or a register holds
is reduced to what the properties tell apart.

**Rings** is the arithmetic of a ring: `After`, `DescUnused` (one slot always
stays free), and `Span`. **TxQueue** is what the transmit ring promises, and
**TxRing** the ring: `XmitFrame`, `XmitContext`, `XmitMap`, `XmitQueue` and
`XmitKick` are the parts of `e1000_xmit_frame`, with the stop of the queue and
its second look, fragments that cannot be mapped, and batches; `CleanStart` to
`CleanDetect` are `e1000_clean_tx_irq`; `HwSend` and `HwHang` the controller;
the watchdog, the hang check with its repetition and the reset follow.

**RxRing** has the receive ring in three shapes: one buffer, header and pages,
chains of pages. `Refill` and `Tell` are the allocation routines, which write
the tail in steps; `CleanSkb`, `CleanSplit` and `CleanJumbo` take a descriptor
off the ring, with the frame under construction and the one that is being
tossed.

**NapiIrq** has the handlers of MSI-X, MSI and legacy interrupts, `e1000e_poll`,
netpoll, and the parts of `e1000e_down` and `e1000e_up` that concern
interrupts; the rings are counters. **IrqSetup** is the chain of requests and
fall-backs from MSI-X to MSI to a line; **Lifecycle** uses it. There an
operation is a script of named steps, and `todo` what each of three threads
(user, power management, reset task) still has to do; the watchdog runs
beside them and holds no lock.

**PhyAccess** gives the program of each family's register accesses, one step
per assignment to `hw->phy.addr` or transaction. **HwSemaphores** has the four
schemes. **NvmFlash** has two banks, the signature bits that make one valid,
the shadow RAM, and the commit, where every flash cycle is a step and the
power may fail between any two. **NvmWords** is `e1000_set_eeprom` over the
serial EEPROM, the EEWR register and the flash of the 82573 and 82574.

**CopperLink** has the watchdog's check of the link, with flow control, K1 and
EEE, and the ethtool operations that change what is asked for; **SerdesLink**
the four states of the 82571 and the generic check. **Filters** keeps what the
stack asks for beside the registers it is copied to; a call is the list `todo` of its
accesses, and a reset that restores VLANs looks for the next active one after each
(`RestoreFrom`). **Timestamps**,
**SelfTest** and **RingMemory** are what their names say.

**MCDriver** and **MCLive** put the components side by side: the variable
`part` says which component a behaviour is about, whose variables are the
first of the slots `s1` to `s19`. The components share no variables in the
model; where one calls another in the code (a reset from a link change, say),
each has the other's step in it as far as it matters there. So the states of
the run are those of the components one after the other.

**TxRingProofs**, **RxRingProofs** (the ring and the filters), **HardwareProofs** (semaphores,
interrupts, PHY accesses, the copper link, time stamps, self-tests and the memory of
the rings), **NvmProofs** and **DriverProofs** hold proofs.

An operator that follows a comment `Mistake` is what a plausible bug would
make of the definition below it; it is used only to see that a property fails.

## Runs

| run | shows | bounds |
|-----|-------|--------|
| `region_tree` | type, order, position of insertions, searches keep what they look for, loops descend, RegionTree implements RegionMap | 4 nodes, 6 addresses, 6 regions |
| `policy_module` | policies are whole, trees under construction are private, snapshots hold, output is ordered and complete, nobody is inside a removed module; PolicyModule implements PolicyStore | 2 processes, 1 guarded module, 3 trees, 5 lists |
| `user_five_parts` | verdicts of the five-part policy | 4096 addresses, both sides of every boundary |
| `guard_pass` | the result is the intended module; guards precede their accesses at every moment; the pass ends | 3 functions, 11 instructions, all kinds of pointers |
| `carat_system` | accesses are asked for; with a policy in place no guard faults; functions end with no help from processes | 2 clients, 1 process, 2 lists |
| `driver` | the safety of the driver's components: twelve properties, one or a few for each | below |
| `live` | what must happen in the end, for the policy module and seven mechanisms of the driver | below |

Five runs end in a violation, each of something that the repository says:

| run | what the code does | what is said |
|-----|--------------------|--------------|
| `guard_before_policy` | a guard before the first policy dereferences NULL (`carat-cop.c:181`, `:86`) | "Could not find a policy for memory address" (`:192`); `MODULE_SOFTDEP` (`src/test.c:27`) loads a guarded module as soon as `carat-cop` is there |
| `user_entire_space` | the last address is not covered | "entire address space" (`user-space-app.c:81`) |
| `carat_system_stops` | a disallowed access is logged and performed | "Bounds protection for CARAT" (`Pass.cpp:217`) |
| `driver_small_sectors` | with 256-byte sectors an erase skips sectors of its bank and runs into the valid one (`ich8lan.c:4545`) | "The start index for the nth Hw sector can be calculated as = bank * 4096 + n * 256" (`:4482`) |
| `driver_vlan_filter` | `e1000e_set_rx_mode` writes back a copy of RCTL without the bit it had set meanwhile (`netdev.c:3453`) | "enable VLAN receive filtering" (`:2792`) |

### Properties of `driver`

| property | says |
|----------|------|
| `TransmitRingIsSafe` | what the controller fetches is mapped, no mapping outlives its packet, tail never meets head |
| `QueueSpec` | TxRing implements TxQueue |
| `ReceiveRingIsSafe` | writes go to mapped buffers, every buffer has one owner, the stack gets whole good frames in order |
| `InterruptsAreSafe` | waiting work is announced; what is masked will be unmasked; a device that is down is left alone |
| `LifeIsOrderly` | an open interface is complete, handlers have vectors, sleep and closing leave nothing on, nobody resets beside a reset; rings, test rings and the marked packet are neither lost nor leaked |
| `PhyAccessIsExact` | accesses reach the page and register they name; wakeup bits are restored |
| `SemaphoresExclude` | exclusion in the four schemes; a failed acquisition keeps nothing |
| `NvmKeepsItsData` | a valid bank at every step, readers see writes, contents change as a whole; ethtool's write changes exactly the bytes it names |
| `SettingsFollowLink` | once the watchdog has settled, pause, K1 and EEE are those of the link |
| `FiltersFollowStack` | what the stack asks for is accepted, nothing else where the code intends it; the address survives the other port's resets |
| `ReportsAreTrue` | times belong to the packet or frame they are told of; answers about settings are so; a self-test fails a card if and only if it has a fault the test can find |

Why the bounds are enough:

- *Region tree.* Four nodes reach every shape with a grandchild on each side,
  the smallest trees in which two rotations and the erasure of a node with two
  children occur. The regions hold a pair that touch, one that overlaps
  others, two with the same start, an empty one inside another and one that
  wraps. The proofs do away with the bounds here.
- *Policy module.* Two processes show every interference of two handlers; more
  of them meet only through the one pointer. Three trees let a policy be
  replaced twice while a guard or reader keeps the first. The lists hold one
  that is not sorted, has a duplicate and more regions than the buffer holds,
  one in descending order, an empty one, one that ends in a bad pointer and a
  circular one. Trees are never freed, so their number bounds
  the writes of a behaviour; reads, guards, loads and removals are unbounded.
- *Buffer.* `BufRegions` is the number of regions `output_policy`'s buffer
  holds: at least eleven, as a printed region takes at most 85 of its 1000
  characters. The run takes two, and has a policy of three.
- *Pass.* The values include a pointer of each origin that the pass tells
  apart, and chains of two derivations.
- *Transmit ring.* Seven slots, so that a packet with its context and the gap
  leaves no room for a second and four packets wrap the ring; one packet is
  dropped for lack of a header, one may fail to be mapped, and the controller
  may hang.
- *Receive ring.* Eight slots, refilled in fours; seven frames of one to three
  descriptors go round it more than once, one of them bad; three descriptors
  per poll cut frames; one allocation fails and one reset changes the shape.
- *Interrupts.* Up to three descriptors and a budget of two: a poll may or may
  not empty the rings. *Life.* Five mixes of operations; each of three threads
  performs one at a time, over and over; which requests fail is in
  `LifeMayFail`.
- *PHY and semaphores.* Two threads; registers on every kind of page;
  semaphores are tried twice. *NVM.* Banks of six words, one power
  failure in each behaviour, words with two bits so that programming can only
  clear; EEPROMs of twelve words in pages of two,
  ranges with odd ends across a page.
- *Link and filters.* Three copper partners, one change and one request; four
  kinds of SerDes partner, three changes and a reset; four address registers
  for up to three unicast addresses, four calls.
- *Reports and memory.* Three packets, so that a time may be told to the wrong
  one of a pair while a third waits; a bad frame before good ones; every filter
  of the ioctl, and two calls of it. Four causes and one that is not tested;
  rings of four in rounds of two; four blocks of memory for two rings and
  their replacements, with failures.

Symmetry is used for nodes, processes and trees in `region_tree` and
`policy_module` only; no property and no constant there tells two of them
apart, and no liveness is checked with it. Deadlock is checked for the region
tree; the other runs may stop: a module without its proc entry, with every
caller dead, stays as it is; the pass ends; packets, frames and calls of the
driver's components are bounded.

### Fairness

`RegionTree!FairSpec` lets a call in progress take its next step: it runs on
its caller's thread, without blocking. `PolicyModule!Fairness` is the
scheduler: a thread inside a handler or a guard goes on, and `proc_remove`
wakes when its last caller has gone. Nothing obliges processes to call, or
`kmalloc` to fail: `NoMemoryForRegion` is outside the fair steps.
`CaratSystem!SysFairSpec` is weaker still: only the clients' own threads are
fair, which shows that guards wait for nobody. `GuardPass!FairSpec` is a single
thread that runs.

`MCLive` states the fairness of its components at once: `WeaklyFair(k)` and
`StronglyFair(k)` are the k-th action of whichever component `part` names.
`part` never changes, so that this is fairness to each component's actions.
Weak fairness is that of threads that run (a sender past its lock, a poll, a
work item, a controller that does not hang) and of timers that go off.
Strong fairness is needed in two places. A poll that empties the ring and the
transmit handler are each enabled again and again, while traffic goes on
arriving; that some time the ring is found empty is what budgets and a network
that pauses give. And threads of the life cycle wait for a lock or a flag that
others take and drop: `rtnl_lock` is a fair mutex, and the sleeping loops on
`__E1000_RESETTING` find the bit clear if it is clear again and again. Lists
are taken to end here, since `list_to_tree` never returns from a circular one.

| property of `live` | says |
|----------|------|
| `CallsReturn` | calls of the region tree return |
| `CallsEnd`, `RemovalEnds` | handlers end or die; rmmod ends unless a process died inside |
| `DataMoves` | packets taken are freed, stopped queues are started again, failed allocations are made up for |
| `RingsAreCleaned` | in every interrupt mode waiting descriptors are cleaned, and the watchdog's timer is set again |
| `OperationsFinish` | no operation waits for ever for another |
| `SerdesConverges` | the link settles to what the last partner makes possible |

Its instances are smaller than those of `driver`: three nodes and three
addresses, two processes with one root; a ring of six with two packets where
the controller may hang and the link be lost, and one of seven with three
packets where neither happens and nothing but the driver starts the queue; a
receive ring of four, five frames, two failures; at most two descriptors;
probing, opening and closing.

## Where the code falls short of what it says

The runs of `driver` hold under constants that say what is left out of them.
Each row changes one; TLC then finds a behaviour in which a property fails.
They are not runs of their own, except the two above.

| constant of MCDriver | what happens then | where |
|----------|-------------------|-------|
| `PhyAlone = {}` | `hw->phy.addr` is assigned before the semaphore is taken: an access of another thread goes to the wrong PHY address (`PhyAccessIsExact`) | `phy.c:2738-2925` |
| `PassesSmbi = TRUE` | on the 82571 a thread that does not get SMBI goes on without it (`SemaphoresExclude`) | `82571.c:434-492` |
| `FlashMayFail` with `"detect"`, `"persist"` | a signature that cannot be read is taken for bank 0; an erase cycle that fails at every retry is counted as done (`NvmKeepsItsData`) | `ich8lan.c:3800-4100` |
| `EepromRanges <- CrossingRanges` | the ninth address bit is computed once per call, so a range that crosses the middle of a small EEPROM is written to its first half (`NvmKeepsItsData`) | `nvm.c:375` |
| `CopperMayFail` with `"fc"`, `"k1"` or `"eee"` | a PHY access that fails leaves the settings of the last link, and is not tried again (`SettingsFollowLink`) | `mac.c:1024`, `ich8lan.c:1414` |
| `FilterOverlap = TRUE` | RCTL is read, changed and written by calls under different locks (`FiltersFollowStack`) | `netdev.c:2710-2760`, `3420-3453` |
| `FilterCookies <- UserCookies` | a management VLAN that is also the user's: removing the one removes the other (`FiltersFollowStack`) | `netdev.c:2711`, `2736` |
| `TxMayNotMap = {1}` | unwinding a failed mapping after a context descriptor starts from the wrong slot (`TransmitRingIsSafe`) | `netdev.c:5660` |
| `RxMayNotMap = TRUE` | a page that cannot be mapped is offered to the controller (`ReceiveRingIsSafe`) | `netdev.c:861` |
| `LifeMayFail` with `"tx"` or `"other"` | a later MSI-X vector that is refused leaves the handlers that were requested before it (`LifeIsOrderly`) | `netdev.c:2125` |
| `TimesMay = {"slow"}` | a packet that outlasts its time-out leaves its time to the next one, and from then on every time is that of the packet before | `netdev.c:1194`, against "At most one packet in the queue may be marked" (`:3593`) |
| `TimesMay = {"clear"}` | the watchdog and a change of settings clear the register while a frame waits for its time; the next frame's is told in its place | `netdev.c:5436`, `:3745`, against the comment at `:528` |
| `TimesMay = {"late"}` | a sender that has passed its test of `__E1000_DOWN` queues the work after `e1000_remove` has cancelled it | `netdev.c:7774` |
| `TestMay = {"late"}` | the loopback test never gives buffers back nor clears them: after one turn it checks frames of earlier rounds, and does not see that the loop broke | `ethtool.c:1654`, against "wrap the largest ring a number of times" |
| `TestMay = {"old"}` | the buffers are cleared with a length of 0; a frame left by an earlier test passes a dead loop | `ethtool.c:1304` |
| `TestMay = {"link"}` | a link change while its cause is enabled fails a sound card | `ethtool.c:1095` |
| `TestMay = {"map"}` | a mapping that failed is unmapped | `ethtool.c:1138`, `:1149` |
| `TestMay = {"cable"}` | the receiver is still on when the test rings are freed | `ethtool.c:1744` |

Others show without a property of MCDriver. With `CopperOverlap = TRUE` the
watchdog's look at the link overlaps a reset, and `CopperLink!AdvertisedAsRequested`
fails: what the PHY advertises is not what was asked of it (`netdev.c:5204`).
With `CopperLink!Refused`, a refused `set_link_ksettings` leaves `autoneg` changed
(`ethtool.c:203-256`); a batch whose last packet is dropped leaves the tail
unwritten until the next one (`netdev.c:5943`); netpoll reaches the rings while
`e1000e_down` empties them (`:7122`), which is why `QuietWhileDown` is asked of
the instance without netconsole only; a change of MTU holds the reset flag
while it waits for a runtime suspend that waits for the flag (`:6067`,
`:7097`), which is why `OperationsFinish` looks at an adapter without runtime
suspend; a failed self-test may leave an interface marked as running but not
open (`ethtool.c:1869`); a fibre link that is forced keeps `serdes_has_link`
when invalid codes arrive (`mac.c:568`). `FourthPartIsWritable` of UserPolicies
fails for the last address of a range said to be writable
(`user-space-app.c:124`), as for the entire space.

## Proofs

The proofs hold for every number of addresses above one, every set of flags,
nodes, candidate regions, processes, guarded modules, trees and lists, and
lists of any length; for functions of any length and values derived in any way;
for any number of threads, resources and tries at the semaphores; for transmit
rings of any length with any packets; and for receive rings of any length, frames
of any number of descriptors, any bounds on a poll, and any number of allocations
that fail and of resets; for interrupts of every mode, with any number of
descriptors and any budget; for any number of threads and any registers of a PHY;
for any link partners, any modes and settings to ask for and any number of changes and calls;
for banks of any number of words, in one sector or two,
and EEPROMs of any size, with pages of any size and any range to write; for any
lists of addresses and groups, any VLANs, any number of address registers and of calls
that change the receive filters; for any number of packets and any frames whose times are asked
for; for self-tests of any number of causes, with rings and batches of any size; for
any number of blocks of memory and any sizes of rings; and, of the application's policy in five parts, for
address spaces of any size.

| module | theorem | says |
|--------|---------|------|
| `RegionTreeProofs` | `TypeCorrectness` | `[]TypeOK` |
| | `Ordering` | `[]TreeIsOrdered` |
| | `InsertLoop` | `[]InsertPosition` |
| | `SearchLoop` | `[]SearchKeepsCover` |
| | `Termination` | `LoopsDescend` |
| | `Refinement` | `Spec => MapSpec`: the tree implements the abstract map |
| `CaratSystemProofs` | `TypeCorrectness` | `[]TypeOK` of the policy module |
| | `WholePolicies` | `[]PolicyIsWhole` |
| | `PrivateTrees` | `[]TreesApart` |
| | `SafeRemoval` | `[]NobodyInside` |
| | `Snapshots` | `SnapshotsHold` |
| | `OrderedOutput` | `[]OutputInOrder` |
| | `Refinement` | `Spec => StoreSpec`: the policy module implements the register of whole policies |
| | `CompiledIsGuarded` | in a compiled function of any length, each access that needs a guard has its own right before it |
| | `Verdicts` | every verdict of a guard is what one whole list that was written calls for |
| | `LastAddress` | no guard finds permissions for the last address |
| | `FivePartsAnswers` | the only list is `FiveParts`: `[]FivePartsVerdicts` |
| | `Asked` | `SysSpec => []AccessesAreAsked` |
| | `Composition` | `SysSpec => Spec`: clients that run against the policy module leave its theorems in force |
| | `Answered` | with `PolicyFirst`, `SysSpec => []GuardsAreAnswered` |
| `GuardPassProofs` | `TypeCorrectness` | `[]TypeOK` |
| | `Precedence` | `[]GuardPrecedesAccess` |
| | `Intended` | `[]GuardsInPlace`: the pass implements `Compiled` |
| `HardwareProofs` | `TypeCorrectness` | `[]TypeOK` of the semaphores |
| | `Exclusion` | `[](Waits => Exclusive)` |
| | `NothingStays` | `[]NothingIsKept` |
| | `IrqTypes` | `[]TypeOK` of the interrupts |
| | `Announcement` | `[]WorkIsAnnounced` |
| | `Unmasking` | `[]MaskedIsTransient` |
| | `Quietness` | without netconsole: `[]QuietWhileDown` |
| | `PhyTyped` | hv accesses one at a time: `[]TypeOK` of the PHY accesses |
| | `PhyExactness` | the same: `[]AccessesReachTheirRegister` |
| | `WakeupRestored` | the same: `[]WakeupBitsAreRestored` |
| | `LinkTyped` | `[]TypeOK` of the copper link |
| | `LinkFollowed` | no PHY access of a check fails but the first: `[]SettingsFollowLink` |
| | `Advertising` | no check overlaps a reset: `[]AdvertisedAsRequested` |
| | `StampsTyped` | `[]TypeOK` of the time stamps |
| | `AnswersTrue` | `[]AnswerIsTrue` |
| | `SentTimes` | no packet outlasts its time-out, no sender is late: `OneIsMarked`, `NothingIsLeft`, and the times of packets sent are theirs |
| | `TimesAreRight` | the same, and nothing clears a time a frame waits for: `[]TimesAreTheirs` |
| | `IntrTestIsRight` | no link change while its cause is enabled: `[]InterruptVerdict` |
| | `LoopbackTestIsRight` | the loop does not break within a test, buffers hold no old frames: `[]LoopbackVerdict` |
| | `TestMemoryIsGivenBack` | no mapping fails, no cable: `[]NothingIsHeld` |
| | `RingMemoryIsWhole` | `[]RingsAreWhole` |
| `NvmProofs` | `FlashSurvives` | banks of one sector or two, no failure goes unnoticed: `[](TypeOK /\ ABankIsValid)` |
| | `FlashCommits` | the same: `CommitIsAtomic` |
| | `FlashReads` | the same, and `e1000_read_nvm_spt` asked for single words: `[]ReadsSeeWrites` |
| | `EepromIsExact` | no range runs from one half of a 512-byte part into the other: `[]SetIsExact` |
| `TxRingProofs` | `TypeCorrectness` | `[]TypeOK` |
| | `Fetching` | `[]FetchedIsMapped` |
| | `Keeping` | `[](FailsAtFirst => NoStrayMapping /\ TailKeepsOff)` |
| | `Refinement` | `Spec => QueueSpec`: the ring implements the queue |
| `RxRingProofs` | `TypeCorrectness` | `[]TypeOK` |
| | `MappedWrites` | buffers can be mapped, or all have the shape `"skb"`: `[]WritesAreMapped` |
| | `Ownership` | `[]SkbsAccounted` |
| | `Delivery` | `[]WholeFrames` |
| | `MacHeard` | of the filters, whether or not calls overlap: `[]MacIsHeard` |
| | `FiltersFollow` | calls do not overlap, the firmware's VLAN is none of the stack's: `[]FiltersAgree` |
| `DriverProofs` | `SemaphoresInDriver` | `PassesSmbi = FALSE`: `Spec => []SemaphoresExclude` |
| | `TransmitRingInDriver` | packets 1 and 3 can be mapped: `Spec => []TransmitRingIsSafe` |
| | `QueueInDriver` | `Spec => QueueSpec` |
| | `ReceiveRingInDriver` | buffers can be mapped: `Spec => []ReceiveRingIsSafe` |
| | `InterruptsInDriver` | `Spec => []InterruptsAreSafe` |
| | `PhyInDriver` | hv accesses one at a time: `Spec => []PhyAccessIsExact` |
| | `NvmInDriver` | the conditions of `NvmProofs`: `Spec => NvmKeepsItsData` |
| | `FiltersInDriver` | the conditions of `FiltersFollow`: `Spec => []FiltersFollowStack` |
| | `CopperInDriver` | the condition of `LinkFollowed`: `Spec => []SettingsFollowLink` |
| | `ReportsInDriver` | the conditions of `TimesAreRight`, `IntrTestIsRight`, `LoopbackTestIsRight`: `Spec => []ReportsAreTrue` |
| | `MemoryInDriver` | the conditions of `SentTimes`, `TestMemoryIsGivenBack`: `RingsAreWhole`, `NothingIsHeld` and `NothingIsLeft`, the part of `LifeIsOrderly` that is not about the life cycle |

Assumptions: `ModulusAssumption`, `NoRegionAssumption`, `NilAssumption`,
`CandidateAssumption`, `PolicyModuleAssumption` and those of GuardedCode and
CaratSystem, each of which the code justifies and the runs of `MCRegionTree`,
`MCPolicyModule`, `MCGuardPass` and `MCCaratSystem` evaluate. The driver's
components have theirs as a definition, `Assumption`, which their theorems
take as a hypothesis: a ring has two descriptors at least, a packet one buffer
and a frame one descriptor at least, `None` is no packet, no skb and no chain,
a resource is not called `"none"`, a bank is a whole number of sectors, the
images it may begin with add up to `Sum`, and no range goes beyond the last
word; and, of the registers asked of a PHY (`CanAsk`), only the bm, bm2 and hv
families have a wakeup page, other pages have 32 registers, of which an hv PHY's
above page 768 are asked for from 16 on, the data port of the debug registers
is asked for by the debug accesses only, and what is read within a session is
above page 768; of the copper link, that modes are numbered from 1 to 5 and what an end says of pause frames
has two bits; and of the filters, that the kinds of controller are those modelled,
that there are two address registers at least, that lists of addresses are sequences and that
VLANs are numbers. `DriverProofs` shows that the constants of
MCDriver satisfy them; only that `None`, a model value there, is no number, no skb and no
chain remains a hypothesis. `UserPoliciesAssumption`, which only `FivePartsAnswers` uses, says that the
address space has sixteen parts of equal size and that the part at the top has two addresses at
least and is smaller than a sixteenth by two at least.

*The region tree.* All follow from one invariant, `IInv`. `TypeOK` and
`TreeIsOrdered` are not inductive alone: that a linked leaf keeps the tree
ordered needs to know that the slot is right, which is `InsertPosition`, and
that is an invariant of the loop only as long as the tree is ordered. The
search loop needs the same of `SearchKeepsCover`; for the result of a search
that finds nothing to be the map's, the invariant has to say that every
region that covers the address lies below the current node.

`RegionTreeProofs` begins with the lemmas about the library's operators, each stated once:
`RotateLeftKeeps` shows that a rotation keeps a search tree and its members,
`MirrorKeeps` gives the other direction, `RotationsKeep` two in a row,
`LinkKeeps` that a leaf linked where it `Fits` keeps the tree, `SpliceKeeps`
and `EraseKeeps` that an erasure removes just the one node. Rotation is the
heart of it: `Local` lists what the nodes around the rotation look like, and
`NoCycle` rules out that a node is below itself.

*The policy module.* That a policy is whole depends on the tree being private
while it is built (`TreesApart`), and that depends on where pointers may
point: `HeapInv` says that every pointer in use is to a tree that was
allocated, and that the others are empty, so the tree `kmalloc` hands out is
nobody's. `LocalsInv` ties the locals of a handler to its position. That
`list_to_tree` has collected `FirstOfEach` of what it has read is an induction
over the list; `ReadInv` carries the fact it needs, that every start address
read has a first position, along the loop, and `InsertNext` is the step. The
step lemmas are one per operation, but for returns and faults, which share one
each (`ReturnsIInv`, `FaultsIInv`). `SnapshotStep` uses `TreesApart` again:
only `list_to_tree` changes a tree, and nobody else has it.

For the refinement, `RInv` adds that start addresses in a tree differ,
`OutputInOrder` (which needs it), and that a writer has printed nothing. `StepsUnseen` collects the steps the register does
not see (opening and closing, `kmalloc`, an iteration of either loop, loading);
each of the other operations has a lemma that names the register's step it is,
and `StoreNext` puts them together.

*What guards answer.* A guard loads the pointer once and searches the tree it found,
while processes may publish other trees. `VerdictInv` says that a map a guard holds has
the regions `Whole(l)` of some list `l`, which `PolicyIsWhole` gives when it is loaded and
`TreesApart` keeps, and that a verdict is one such a search may give (`CalledFor`).
What that is follows from the regions. A region that reaches the last address has its end
at 0, so it covers nothing there (`LastIsUncovered`). The five parts are intervals
(`FivePartsCover`), none begins in another one (`FivePartsApart`), and so the search
finds the one that covers the address, and nothing at the last address of each, as
its length is one short.

*Clients.* `Compiled(f)` is the last element of `Prefixes(f)`, the function on
lengths that appends one instruction, with its guard if it needs one, at a
time. That the result is guarded is an induction over the length. The induction
theorems of the library take an operator as a parameter, which no prover here
can instantiate, so it is done with a set: of the lengths for which it fails
there would be a least one (`LeastNumber`), and `AppendGuarded` takes the step
to it from the one before. `Asked` needs an invariant, `SysInv`, that follows a
client through its function: between a guard's answer and the next instruction
the client stands at the access that guard was compiled for, and what was
asked is recorded; `WellGuarded` of its code is what makes the access it
reaches the one that was asked about. `Answered` adds `PolicyForClients`: where
there is a client there is a policy. It rests on the invariant of
PolicyModule, through which a policy once published is never taken back, and
`Composition`, a step of a client being a step of the policy module or none.

*The pass.* `IInv` of GuardPassProofs has a part for each phase. While functions
are scanned, the guards recorded are those of the instructions scanned so far
that need one (`ScanInv`), and following a pointer keeps whether its base is on
the stack (`ChaseInv`). While guards are inserted, `GuardPrecedesAccess` alone
is not inductive: an insertion moves every instruction behind it, so one has to
know where they all are. `LayoutInv` says that a function is laid out by a map
of source positions to places, with a guard in the place before exactly the
accesses whose guard has been inserted, and nothing else; inserting one adds
one to the places behind. `Layout` with every guard inserted is `Compiled`
(`LaidOut`), an induction over the function's length as above.

*Semaphores.* `Exclusive` speaks of threads that are inside, the code only of bits
in registers. The invariant relates the two: a bit is set only if a thread at a
place where it owns it is there (`SwsmIsHeld`, `SyncIsHeld`, `NvmIsHeld`,
`FlagIsHeld`), at most one thread is, and the copy of SW_FW_SYNC a thread will
write back is what the register holds (`CopyIsFresh`), since between its read and
its write no other thread owns SWSM. `Waits` excludes the one case in which
exclusion is lost, an 82571's thread that goes on without SMBI (see above); that
nothing is left behind holds even then.

*Interrupts.* That waiting work is announced is kept by whoever will look at the ring:
the cause is raised, the interface is down or a reset asked for, or a poll is `Coming`,
one that has yet to begin or will be repeated because its interrupt was `missed`.
A poll that has cleaned and not yet completed cannot be counted on, and with MSI-X a
poll does nothing for the transmit ring, whose handler cleans it (`Announced`). `Masked`
says who will enable what is masked, handler by handler: with MSI-X all but the receive
ring's do it themselves, the poll does it in every other case, and during a reset
`e1000e_up` will. It needs `NapiIs`, that a poll is held as long as one is asked for.
For `QuietWhileDown` the test of `__E1000_DOWN` in `e1000e_poll` and the write to IMS
after it are one step: `e1000e_down` sleeps 10 ms between setting the bit and masking
(`netdev.c:4296`). Netpoll calls the handlers whatever is masked, so the theorem
excludes it.

*PHY accesses.* An access is a program, and a step of it is right because of the ones
before: the transaction at its end reaches the register meant if the PHY address and
the page assigned before are still there. `Position` says at which step `k` of its
program a thread is, and `SelectsAt` and `WakesAt` what its steps so far have left;
that nobody else disturbs this is that only the holder of the semaphore runs
(`LockIs`, `OthersKeep`). What is there when the program begins does not matter, so
neither does what a failed access left. The hv variants assign `hw->phy.addr` before
they ask for the semaphore, so for them it does matter who else begins, and their
accesses are taken one at a time (`AloneIs`; see above). After a failure all that is
left is, in those variants, the assignment back (`HasFailed`). `WucIs` says that the
wakeup bits are open only while an access to the wakeup page runs, and `WakesAt` at which
of its steps, and that the value it saved is the one to restore.

*The NVM.* While the other bank is erased, programmed and marked, the bank in use is
found as before and keeps its words (`BankKept`), so what can go wrong is in the other
one: `Erases` and `Programs` follow it word by word, and when it is marked it is an
update of the first (`Switches`), which is why the old bank may be voided, and why it
does no harm if that fails and two valid banks remain. The address that is erased adds
up right for two sectors at most (`TwoSectors`). Two failures are excluded, those nobody
notices (`Noticed`): a bank wrongly taken for the valid one, and an erasure that leaves
the flash as it was. That the checksum makes the words add up again is an induction
over the words, by a least number (`SumTo`).

What `e1000_set_eeprom` does to an EEPROM takes two passes over the words, the second
for the checksum. `FirstPass` and `SecondPass` say which words hold new bytes already;
a page's words are those from its offset on and do not wrap around, as the length was
cut at the end of the page (`InOnePage`). With eight address bits the ninth is in the
opcode and set once for all pages, so a range has to stay in one half (`OneHalf`).

*The transmit ring.* Places are measured by `Dist` from `next_to_clean`, and the
indices keep their order: `Low`, up to where the reclaim has come, `head`, `tail`,
`End`, where `e1000_xmit_frame` began. `FetchedIsMapped` needs this order (`Order`),
that slots handed over hold whole packets and one ends right before the tail
(`Whole`), that what is reported done lies before the head (`Done`), that the
slots counted are there (`Room`), and that no packet is freed while a slot holds
it (`Owners`): the last of these is what keeps the reclaim of one packet from
freeing another's. `Mappings` says which slots may be mapped. It holds only if a
packet that cannot be mapped fails at its first buffer (`FailsAtFirst`), as
`e1000_tx_map` leaves the first of several buffers mapped (see above).

For the refinement, `Accounts` adds where packets may be: `Placed`, a packet is in
a slot in use or in the one being handed over; `Ended`, the controller stops at
every packet; `Sent` and `Reported`, the slots between reclaim and controller hold
what has been sent and not freed, and nothing else has been. What the queue holds
is `Held`, the packets of the slots from the head on, a recursive function over the
ring. `HeldSame`, `HeldLonger`, `HeldMore` and `HeldFirst` say how it changes
where the slots keep their packets, at slots without one, by a packet at its end and
by its first packet; each is an induction over the slots, again by a least
number. Then handing over is `Accept`, the controller's step is `Send`, a turn of
the reclaim's loop is `Complete` or no step, the reset is `Lose`, and the three ways
to free a packet in `e1000_xmit_frame` are `Drop`. The refinement needs no condition
on which packets fail: a mapping that stays behind holds no packet.

*The receive ring.* Places are measured from the first slot that is not cleaned,
`Low`, which moves through a poll while `next_to_clean` is stored only at its end.
`Order` says head, tail and `next_to_use` follow in this order; that what a poll has
cleaned and not refilled fits between; and `Ring` that slots are `Full` up to
`next_to_use` and `Spare` from there on, where a buffer may be left from a failed
attempt. The allocation routines fill slot after slot until one fails: the slots
they leave behind are a recursive function, whose meaning (`FilledIs`) is an
induction over them by a least number, and `StuckKeeps` is the slot that failed,
whatever of it was obtained. `Accounted` says that every skb is in one slot or is
the chain's. So that a new one exists when a slot is empty, `NewSkbIs` counts: the
slots filled are fewer than the ring has, and there is one chain.

`WritesAreMapped` follows if nothing is `Full` with a mapping that failed.
`e1000_alloc_rx_buffers` maps such a buffer again when it comes to it; the other
two routines find `buffer_info->dma` or the page's address set and go on (see
above). `MapsAnew` is the condition under which no such buffer is handed over.
`Ownership` and `Delivery` need no condition.

For `Delivery`, `Written` says that descriptors written and not read hold one part
after the other, up to where the controller is in its frame. `Between` compares
this with the driver: if the next part is not a first one, the chain holds the
parts before it, or, where there are no chains, the frame is being tossed; and
what went up came before the next frame. This is what makes the flag and the
chain of an earlier poll, or the parts cut off by a reset, harmless:
`e1000_clean_rx_ring` forgets both together with the descriptors, and the
controller begins with a new frame.

*The receive filters.* A call is a list of accesses, and between two of them the
registers are not what the stack asked for: a reset has cleared them and what restores
them is still to come. The invariants therefore speak of registers and calls at once:
something is in place, or it is `Pending` in what remains of the call. `Sound` says that
what remains makes sense, each reading access being followed by the writing one it belongs to
(`Advance` is how a step shortens it). `ListsInv` follows RCTL, the address registers and
MTA: `Placed` lists where addresses and groups go, and what is in the registers is `Good`
for the value of RCTL that is there or that is read and about to be written. `VlanInv` says
that a VLAN of the stack is active, and in the table or pending; pending it may be as
a `restoreFrom` of a lower number, which will come to it since it is active. A word
of the table that a call has read is still what the table holds when the call
writes it back, as no other call runs meanwhile (`OneRuns`): this is where calls must not
overlap, and a VLAN that firmware and stack both use would be removed for both. `MacInv`
needs neither: only calls under `rtnl_lock` change the address, and a reset of the other
port of an 82571, which takes it from register 0, leaves it in the last one, which only
that controller is given (`OwnCopy`).

*The copper link.* The link, the partner, the settings and the watchdog's check all move by
themselves, and what is set can be wrong at any time; the invariant says that it will then be
looked at. `LooksAgain` is that LSC is raised, the watchdog's flag is set or a reset is under way,
each of which leads to a check that reads the link. Otherwise K1, EEE and pause frames are
right, or the check that runs is before the step that sets them, and what it has read on the way is
still what the link says (`K1Inv`, `EeeInv`, `PauseInv`). A change of the link raises LSC at
once, so values read before it do no harm. `e1000_set_pauseparam` forces flow control without
regard to a check: between its two steps the MAC is still set to what was resolved
last. A check may overlap a reset, since `e1000e_up` raises LSC after it. It must not where
`Advertising` is concerned: a check that resolves flow control then overwrites the mode
that `e1000e_setup_copper_link` is about to advertise. An access that fails after the link was read
leaves the flag cleared and the settings of the last link, hence the condition on
failures.

*Time stamps.* Marks, work and the register of a time are three things that run on
their own; that a time told is the packet's is a relation between them, `TxInv`: a marked
packet on the ring is the one in `tx_hwtstamp_skb`, and there is one; when the register holds a
time, it is that packet's, which has left the ring; work that is queued has a packet to wait for. A time-out takes the
packet away while it may still be sent, and `e1000_remove` cancels work that a late sender
queues again: hence the two conditions. `RxInv` is simpler and more easily broken. The controller
stamps no frame while RXSTMP holds a time, so at most one frame that has one waits on the ring or
in the poll, and RXSTMP is its time; any clear in between breaks it. That the answer of the ioctl
is what TSYNCRXCTL does (`SetInv`) is shown for each filter in turn (`TakesAsked`): what was taken is
at least what was asked.

*Self-tests.* `IntrInv` says at each look of a cause's turn what the handler has
`Seen`, for a sound card and for each kind of fault, and that a fault which would show is still
`Ahead`, since the turn that meets it ends the test.
`LoopInv` counts: up to the current descriptor the buffers of a round are filled and marked
(`Filling`), and the good frames met on the way round a ring are at least the slots
below the batch (`Counting`); a broken loop has none (`LoopBroken`). `HeldInv` is about the two
setups and what undoes them: the memory held is the first `m` pieces of the one
`Program` that gets it all, whichever piece fails, and `e1000_free_desc_rings`, which asks of each
whether it is there, gives back all of them (`AllIsFreed`).

*Ring memory.* `MemoryInv` says whose a block is: a ring's or a replacement's, and no block two of
theirs (`Owned`); and at each step of `e1000_set_ringparam` what has been exchanged so far
(`Calling`), so that the way out after a failure frees the replacements and only these.

*In the driver.* MCDriver instantiates the components with variables and constants
of its own. DriverProofs instantiates each a second time, with its proofs, shows
that both instances have the same steps, and carries the invariant through a
behaviour of the driver: `part` names one component, and no step changes that. The
hypotheses, `PassesSmbi = FALSE`, `RxMayNotMap = FALSE` and that packets 1 and 3,
which have two buffers, can be mapped, that hv is in `PhyAlone`, `FlashIs` (sectors of half a bank or a whole
one, no failure unnoticed), `RangesAre`, `FilterOverlap = FALSE`, that no VLAN of
`FilterCookies` is the stack's, that `CopperMayFail` has none of `"k1"`, `"eee"` and `"fc"`, that `TimesMay` has nothing and
`TestMay` none of `"link"`, `"late"` and `"old"` (`ReportsInDriver`) or `"map"` and `"cable"`
(`MemoryInDriver`), are those of `MCDriver.cfg`, and exclude
what the table above shows.

Only model-checked: that the policy for the entire space misses its last address and
that the fourth part is not all writable, which are counterexamples; of the driver, the life
cycle; and all liveness
(`CallsReturn`, `CallsEnd`, `RemovalEnds`, `PassEnds`, `FunctionsEnd`, `DataMoves`,
`RingsAreCleaned`, `OperationsFinish`, `SerdesConverges`), which is out of the
prover's reach.

## Not modelled

- The colours of the red-black tree, and with them its height. Nothing here
  depends on the height but time.
- What writing past `output_policy`'s buffer may do other than stop the
  thread; it is not defined. Of reading the uninitialised rest of
  `input_policy`'s buffer, the wrong number parsed from it is modelled; the
  wrong length returned is not.
- Threads of one process that share a descriptor, and changes to the list
  while the module reads it.
- Processors that protect user memory from the kernel (SMAP): the module reads
  the list directly, so it only works without.
- The amount of memory that is leaked by duplicates and replaced policies.
- A build in which `carat-cop` is itself compiled with the pass
  (`caratCOP/test/Makefile`): its guard would call itself.
- `TEXAS_GUARD_HOIST` and `TEXAS_GUARD_MERGED`, which the pass never uses, and
  its metrics and registration.
- The build scripts, which run the compiler with the pass.
- Of the driver: the clock of `ptp.c` and everything that reads it, which is
  arithmetic on 64-bit time that TLC cannot enumerate; `param.c`, options read
  once at load; statistics and register dumps, counters that one function
  reads and another writes; the mailbox to the management firmware
  (`manage.c`), whose other end is not in the repository; interrupt
  moderation; the low-power states of single PHYs (ULP, `ich8lan.c`), their
  workarounds and cable tests, the GG82563's register accesses; LEDs and wake
  on LAN; the register, EEPROM and link tests, which read or write one
  register at a time; how each PHY is put in loopback. What frames hold, and
  the offloads computed from it, is left out of the rings.
- Effects between the driver's components beyond the steps that each of them
  has of the others, as said above.

Noticed in passing, in code that is not modelled: `__e1000_shutdown` releases
the PHY also when it has not acquired it (`netdev.c:6751`), and
`e1000e_pm_suspend` leaves `reset_disable` set when it fails (`netdev.c:6985`).

## Plan

Done: the region tree, the policy module, the application's policies, the pass
and the composition, with proofs; the driver's mechanisms with their safety
and, where the code justifies fairness, their liveness; both rings, the
semaphores, interrupts, PHY accesses, the NVM, the receive filters, the copper link,
time stamps, self-tests, the memory of the rings and what guards answer with proofs. Next, in this order:

1. theorems about the last component of `driver` without one: that the life cycle
   keeps its order (`Lifecycle`);
2. the reset path as a module that TxRing, RxRing, NapiIrq and Lifecycle share,
   so that the order in which `e1000e_down` stops them is checked once for all;
3. the policy module with processes that share a descriptor and change the
   list while the module reads it.
