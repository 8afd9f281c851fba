# A verification of the Vijos judge kernel

Vijos ("Vijos Isn't Just an Operating System") is a small RISC-V kernel that does
one thing: it receives a request over UDP, fetches a program and its input by
TFTP, runs the program in user mode, uploads its output by TFTP and reports exit
code, time and memory.  This directory holds TLA+ models of the kernel, the TLC
runs that check them, and theorems about them that TLAPS proves.  Paths below
are relative to the repository's root.

## The system

The kernel is cooperative: one processor, an idle loop and three tasks that give
up control only by calling `sched_yield` (directly or inside `wait`, `sleep`,
`exit`, `recv_udp`, `task_dispatch_udp`).  There are no locks; every guarantee
about shared memory comes from the places where control may change hands.

| component | state | operations | what must hold |
|---|---|---|---|
| scheduler, `task.c` | task table, wait words, `num_waiting_task`, timers, `wait_packet`s, the cursor of the round robin | idle loop (4 polls, 1 scan), `wait`, `sched_yield`, `sleep`, `exit`, `task_dispatch_udp` | the counter is exact; a task wakes by its own event only; nobody runnable starves; a datagram is delivered once, to a live frame |
| frames and DMA, `ip.c` 23-35, 740-802, `driver/axiethernet.c` | `dma_buff`, `udp_buff`, one descriptor each way | arm, poll, send | a buffer has one owner: engine or task |
| IP stack, `ip.c` | `ifinfo`, `ip_ready`, a cache of two MAC addresses | ARP, ICMP, NDP answers; UDP in and out | packets carry the right MAC address; answers are well formed; datagrams reach the task that asked, and the server in the end |
| DHCP client, `dhcp.c` | its transaction id; sets `ifinfo`, `ip_ready` and whom the cache is about | DISCOVER/OFFER, REQUEST/ACK rounds | the address is final and the board's own when `ip_ready` is set |
| judge daemon, `judge.c` and its client `client.py` | request, response | gate, acknowledge, session, result | one session at a time; a session leaks nothing |
| TFTP client, `tftp.c` | ports, block number | get, put | a finished transfer is complete and in order |
| page allocator, `mm.c` | bitmap, counter, cursor, one snapshot | boot, allocate, snapshot, restore | no page twice; fails only when full; restore is exact |
| page tables, `vm.c` | three-level table | `map_page`, `map_and_copy`, `count_pt` | no aliasing, idempotent, whole or failed |
| user mode, `arch/riscv` | saved contexts, `mscratch`, timer | enter, trap, leave | enter and leave pair up; the timer ends a session |
| ELF loader, `elf.c` | none | `load_elf`, `parse_elf_phdr` | segments lie inside file and user memory |

`PROJECT.json` lists them all with their files, the parts that are not modelled
included, and under "hazards" what is hard to test, at its line.

Interactions: the tasks share the scheduler's table, the two frame buffers and
`ip_ready`/`ifinfo`; `iptask` calls into the scheduler to hand a datagram to a
task suspended in `recv_udp`, whose stack frame it writes; the judge daemon calls
TFTP, the loader, the page tables, the allocator and user mode in one session,
and no other task allocates.

## What is hard here

* **Interleaving without locks.** Control moves only inside a kernel call, but
  every such call is a place where another task may have run: `send_udp` fills
  `udp_buff` and waits, `recv_udp` leaves pointers into its stack frame in a
  global table, `task_dispatch_udp` yields and looks a second time.
* **Devices.** The DMA engine reads and writes the frame buffers while the
  processor runs; reception and the answers `iptask` sends share one buffer.
* **An unreliable network.** Everything the daemon does goes over UDP: lost,
  repeated and late packets, retries at both ends, requests that open two
  transfers, a client that gives up while its session runs on.
* **A stack that drops what it cannot address.**  `ip_send` replaces a datagram by
  an ARP request when it does not know a MAC address and reports success, so
  the first packet to anybody is always lost; answers to a boot that is over may
  reach the next one.
* **Memory that is not cleared.** Pages come with what their last owner left,
  nothing is freed one by one, and a failed session stops half-way.
* **Arithmetic on numbers of others.** Offsets, sizes and limits come from the
  program's headers or from the request and wrap at 64 bits.
* **Traps.** Kernel and program share one trap entry; a single register tells
  them apart, and user mode is left by a task switch out of a handler.

The `hazards` of `PROJECT.json` list these at their lines, with the properties
that would notice; the ones without a property say why.

## Modules

| module | models | lines of the code |
|---|---|---|
| `Sched` | the scheduler: idle loop and every kernel call; what tasks do is open | `task.c`, `timer.c` |
| `SchedProofs` | its inductive invariant and theorems | |
| `NetKernel`, `NetKernelProofs` | the three tasks as programs over `Sched`'s calls, and the DMA engine; proofs | `ip.c`, `dhcp.c`, `tftp.c`, `judge.c` (control), `axiethernet.c` |
| `Checksum` | the ones' complement sums and the correction of an echo reply (proofs in `DhcpProofs`) | `ip.h` 406-440, `ip.c` 472-476 |
| `Ip` | the IPv4 side of the stack: address, cache of MAC addresses, ARP, echo replies, sending, admission | `ip.c` 37-275, 414-548, 740-783 |
| `Dhcp`, `DhcpProofs` | the DHCP client on `Ip`, with servers, hosts, network and resets; proofs | `dhcp.c` |
| `PageAlloc`, `PageAllocProofs` | the page allocator with boot, snapshot and restore; proofs | `mm.c` |
| `Tftp`, `TftpProofs` | get and put against a server, over a network that loses, repeats and reorders; proofs | `tftp.c` |
| `PageLayout` | how a range of words is cut at page boundaries | `vm.c` 78-122, `utils.c` |
| `AddressSpace` | abstract: virtual page -> rights and words | |
| `PageTable` | the radix tree in untyped pages, and the page fault handler | `vm.c`, `mmu.h`, `trap_handler.c` 13-117 |
| `Loader` | `load_elf` and the areas `do_judge` lays out, over `AddressSpace` | `elf.c`, `judge.c` 37-164 |
| `MemoryProofs` | proofs about page boundaries, `Loader` and `PageTable` | |
| `UserMode`, `UserModeProofs` | entry, traps, timer, return; proofs | `arch/riscv/*`, `clint.c`, `judge.c` 166-175 |
| `JudgeProtocol`, `JudgeProtocolProofs` | requests, answers and shared files between `client.py` and the daemon; proofs | `client.py`, `judge.c` |
| `MC*` | constants for TLC | |

Composition: `NetKernel` EXTENDS `Sched` and conjoins its actions with the
programs' own, so every step of it is a step of `Sched` by construction, and what is
proved of the scheduler carries over to it.  `Dhcp` EXTENDS `Ip`, which EXTENDS
`Checksum`: the client's steps end in the stack's sends, the network's in its handlers.  What
`NetKernel` leaves open at a send or an answer (what the frame is, which
edge of the client is taken) `Dhcp` and `Tftp` settle; what these take as one step,
`NetKernel` cuts at the calls.  `PageTable` implements `AddressSpace` through an
explicit mapping (`Space`, read off the tree), and `Loader` is written over
`AddressSpace`, so it need not know about tables.  `UserMode` leaves the verdict
on a page fault open, which `PageTable` gives; `JudgeProtocol` takes a transfer as
one step or a failure, which `Tftp` justifies.

### How state and actions correspond to the code

**Sched.**  `current` is who has the registers; `wait`, `num_waiting_task`,
`timer`, `wp` are the fields of `task.c` by name.  A task suspended in a call is
`call[t]`, with `bit` (the event of `wait(w)`) and `held` (the datagram of a
`task_dispatch_udp` that has yielded) for its locals.  A step runs from one
`switch_to` to the next.  `Poll` is one of the idle loop's four polls, `Scan` one
table entry of its round robin with the cursor `rr`.  Time is one step: a timer
or deadline that is armed becomes due (`Elapse`).  `out[t]` is what `recv_udp` has
received through its pointers.

**NetKernel.**  Each client is a graph of control points (`Edges`), one per send,
receive or yield of the program, so `at[t]` is its program counter.  `rx` and `tx`
are the two DMA descriptors.  Time limits and packet checks of `dhcp.c` and `tftp.c`
are branches of the graph.  `owed` is a history variable: the senders whose frame
had left when `iptask` looked for a receiver first.

**Ip.**  `ipv4`, `ip_ready`, `server_mac`, `dhcp_server_ip`, `dhcp_server_mac` are the
variables of `ip.c`; `wire` is the frame the board sent last.  A frame keeps the
fields that decide something: addresses, ARP operation, for an echo message its
checksum and the sum of its other words.  `IpSend` is `send_udp` down to the frame
that leaves, which may be an ARP request instead; `HandleArp` and `HandleEcho` are
the handlers with their admission, `Admitted`.

**Checksum.**  A message is the sum of its 16-bit words, since nothing else of it
enters a checksum; `Fold` and `Final` are `ip_checksum_final`.

**Dhcp.**  `pc` is where the client waits, `inbox` what its `recv_udp` has received. A
step of it runs from there to its next send: `Start`, `DiscoverAgain`, `TakeOffer`,
`RequestAgain`, `TakeAck`.  `xid` is the transaction id, which `Start` takes from the
cycle counter: a new one, for which the number of the boot stands, or, since the
counter starts over at a reset, one of an earlier boot, and then nothing tells that
boot's answers from this one's.  `life` numbers the boots and `earlier` collects their
ids: what a draw can give and what the properties speak of, nothing the client knows.
The servers, which are not part of the repository, offer any free address of their
`Pool`, grant it while it is free and refuse it after; `lease`, `expired` and `taken` are
what they and the other hosts know.  A lease may run out at any time, in the boot it was
granted to too, for the client never renews one.  `net` holds answers under way, which
may be lost, repeated, late or out of order.  `Reboot` is a reset of the board at any
moment.

**PageAlloc.**  `bits`, `used`, `next`, `size` are the bitmap, its counter, its
cursor and its length; a page number stands for an address.  `AddPages` and
`FinishAddPages` are boot, `TakeSnapshot`/`RestoreSnapshot` bracket a session.
`reserved`, `live` and `count` are history.

**Tftp.**  Transfer `i` of the session has client port `i`; `window`, `buff` and
`server_port` are the variables of `tftp_get_file` and `tftp_put_file`.  The server is
not part of the repository; it is the protocol the client expects.  `net` is a
set that delivery does not take from, so a packet may come again, later, or never.
It starts with `Stray`, packets of earlier transfers to a port that `get_port` draws a
second time: of any kind, with any block number, from any server port.  `seen` and
`taken` are history: the transfers whose client met one, and those that took one for
the packet they waited for.

**PageTable.**  A page is `PageWords` words and a word is what it would mean as a
table entry, so a page that is not cleared shows.  Every call of `vm.c` is a walk,
one action per level (`Descend`, `Grow`, `MapLeaf`, `Reuse`, `OutOfMemory`).  `Walk`
says where such a walk leads, as a function of the level, and `Span` how many pages
an entry stands for.

**Loader.**  `CheckHeader` and `LoadSegment` make the checks in the code's order
with wrapping sums; `PutPage`/`NoMemory` map the pages of the present segment
or area one by one; `NextArea` goes through the areas of `do_judge` in order.

**UserMode.**  `mscratch`, `sp`, `current`, `frame` are the machine's; `CallUser` is
`do_judge` up to the switch, `EnterUser` the assembler up to `mret`, `SaveAll` and
`RestoreAll` the macros of `trap.S`, and every branch of `trap_handler` is an action.
`task` is `user_task`, and `Report` copies to `resp` what `do_judge` reports of it:
exit code and time, not the error, which nothing ever reads.

**JudgeProtocol.**  `pc`, `attempt`, `seq` are the client's, `at`, `req`, `resp`, `run` the
daemon's.  `elf`, `stdin` and `stdout` are the files in the TFTP directory; each holds
the job, or the run, that wrote it.

## Runs

| run | question | bounds, and why they do |
|---|---|---|
| `sched` | do the table, its counter and the datagrams stay consistent, and does everybody get on? | 3 tasks (idle and two that make any call in any order), 2 datagrams, 2 filters, so that one datagram fits two receivers and the other one; two tasks meet every way in which one call can come between two steps of another; the proofs cover any number |
| `sched_zero` | finding: does a return of 0 mean the deadline? | the same |
| `kernel` | do the real programs keep the buffers apart, start in order, and make progress? | the four tasks of `main.c`; one datagram of every kind the filters tell apart |
| `dhcp` | is the address the board's own, does it get one, do packets go where they should and the server hear of it? | two servers (one is also the host of client and TFTP server, so both cache entries may be about one host) with an address each, two answers under way and two boots, which may share a transaction id or not: an answer of each server, to each boot, may overtake another; six echo messages, at both ends of the checksum, with sums that fold once and twice, zero, and broken |
| `pages` | is the allocator exact and exclusive at every boundary? | words of 4 pages, four layouts (hole first, two regions adjacent or apart, memory from 0), seven ends of the kernel: inside a word, at its end, in the hole, at the end of memory |
| `tftp` | is a finished transfer complete, over any network? | get of 3 blocks, get of 1, put of 2, two server transfers per request, four packets of earlier transfers (a first block, a last block ahead of the window, one of the wrong kind, an acknowledgement of the put's last block): three blocks give an old, a present and a next one |
| `tftp_live` | does a session end? | get and put of 2 blocks |
| `page_table` | is the tree an address space, at every way memory can run out? | three levels as in the code, two entries each; seven pages, so that each level of a walk meets exhaustion; copies of 0 and 4 words that are a first part, a page and a rest |
| `loader` | does any header get past the checks, and is the image right? | words of 5 bits, so that every sum wraps; one segment with every combination of boundary values, or two that overlap |
| `user_mode` | do entry and exit pair up, whatever traps come when? | five units of time; limits of 1 and 2, which several sessions can use up, and one whose sum wraps; a trap of the kernel anywhere outside `SAVE_ALL` and `RESTORE_ALL`; a register whose lower half is negative |
| `judge` | is a reported success this job's? | two jobs, three requests each: a session left behind by the first, and a retry that meets it |
| `judge_error` | finding: is a failed session reported as failed? | the same |

Deadlock is checked in `sched`, `kernel`, `dhcp`, `pages`, `tftp` and
`tftp_live`, where the system goes on for ever or says it is done.  The other models
stop where nothing is left to do: memory mapped, the program loaded, time at its bound
or the processor halted, the last job reported.

A definition named `Bad...` is the form a plausible mistake would give the
definition behind it.  No action uses it; put in its place it makes the property
named with it in `PROJECT.json` fail, which shows that the property can.  Some
properties are conjunctions of two that guard one thing (`StartupOrder`,
`LoadContained`, `ImageInPlace`, `ContextKept`); where the parts fail for different
reasons each has its faulty variant.

Type invariants (`TypeOK`) are stated in every module.  Where there are proofs they
are proved; they are not among the properties of a run, since every property below
them fails or becomes meaningless when they do.

### Fairness

* `sched`, `kernel`: the processor runs (the idle loop never blocks, and a task's
  code between two calls is finite) and deadlines pass.  In `kernel` also: the
  engine finishes a frame it sends.  Nothing is assumed of the network.
  `SendReturns` holds only if frames stop coming: `iptask` is first in the table
  and a steady flow of frames it answers can keep another sender from its event.
  The premise is in the formula (`QuietNetwork`).
* `dhcp`: the client's timers fire, and the TFTP client goes on asking (it repeats its
  request every quarter of a second).  Of the world outside: a server asked again
  and again offers, and answers requests, while the client listens; of the
  answers with the id of this boot one gets through at last, and so do replies to ARP
  requests.  All of that is strong fairness, since the client's timeouts disable a
  delivery again and again.  `Acquired` has as its premise what the code cannot see
  to: some address is free, and the one offered stays free until it is granted
  (`Kept`), for a refused request is repeated for ever.
* `tftp_live`: timers fire; the server answers, and of packets under way again and
  again one arrives (strong fairness, since loss disables a delivery).  There is
  no fairness for the thirty-second timeout of a get.
* `user_mode`: time passes, the assembler and a handler come to their end, and an
  interrupt that is due precedes the program's next instruction.

## What is proved

TLAPS checks these for every value of the constants, from the assumptions beside
them.

**SchedProofs**: `NumWaitingExact`, `RecvBuffersLive`, `RecvOutcome`,
`WokenOnlyByOwnEvent`, `DeliveredOnce`, that an exited task never runs, and the types.
None of them is inductive: that the counter is exact when a task is resumed
needs to know that its wait word holds exactly the bit it is about to clear.  The
invariant `IInv` therefore ties the place where a task is suspended to its wait
word, its wait packet and what was delivered to it (`SuspendedOK`, `ReceiveOK`).

**DhcpProofs**: `AddressOurs`, `DatagramsAddressed`, `EchoReplyValid`, for any hosts,
servers, addresses, draws of transaction ids, echo messages and number of boots.  `AddressOurs`
has three parts: the address was granted to this client; it was granted to this boot,
unless the boot drew the id of an earlier one; and nobody else has it while its lease
runs.  It needs to know of answers under way: one that grants an address tells of a
lease, and one with an id that no earlier boot had tells of a lease of this boot
(`AnswersOK`, `InboxOK`).  `DatagramsAddressed` needs that the cache holds only the
truth (`CacheTrue`): hosts say of themselves what is so, and the second entry is still
empty when an offer gives it a host (the code empties it there once more).  The same
module has the two theorems about `Checksum`: a message with the checksum
`ip_checksum_final` gives it passes the receiver's check (`SealedPasses`), and so does
the corrected checksum of an echo reply if the request's did (`EchoReplyPasses`),
except for a message of zeros, for every sum a frame of 4096 bytes can have.  Both
rest on one fact: two folds subtract a multiple of 65535 and leave a positive number
of 16 bits (`FoldTwice`), so a checksum is zero exactly when the sum is a positive
multiple of 65535.

**NetKernelProofs**: `UdpBuffExclusive`, `BuffersOwned`, `StartupOrder` and
`RetryAfterSenders`, for any datagrams.  An action of the kernel is by construction one of
`Sched` with more conjuncts, or leaves `Sched`'s variables alone, so the scheduler's
`IInv` holds of the kernel (the lemma `Implements`), and `NetInv` is inductive beside it: a
suspended task is inside the call that its control point makes, and waits for that
call's event (`ProgramsOK`); `ip_ready` tells where the DHCP client is (`GateOK`), which
is what parts the two users of `udp_buff`; and whoever was sending when `iptask`
yields is woken by the very next poll (`RetryOK`), since the poll of the receiver's
event comes right before that of the sender's.

**PageAllocProofs**: `UsedExact`, `PagesExclusive`, `NothingLeaks`, `FailsOnlyWhenFull` and
the types.  `IInv` says that the reserved pages and the session's are disjoint and make
up the bitmap, and that the snapshot is the bitmap without the session's: without the
last conjunct a restore might bring back anything.  `FailsOnlyWhenFull` is about the
search (`SearchOK`): the counter is below the size only if some word has a clear bit
(the bits and the counter agree, and none is set beyond the size), and a search of
all words from the cursor on, which stays inside the bitmap, cannot miss it.  That
boot keeps this up needs that its regions come in order, each behind the last.

**TftpProofs**: `TransfersComplete`, `LockStep`, `FailsForAReason`, for any transfers,
any packets of earlier ones, and for the specification with loss (`LossySpec`), of
which `Spec` is an instance.  Since the client cannot know a stray packet, the
properties say what it can do: a transfer is complete unless it took one, and can take
one only if it came from the very server port it talks to; a get stays in lock step
until the first one it meets, a put unless it takes one; and only they bring a failure
that is neither the server's word nor its silence. Nothing is assumed of the order of
packets, so the invariant says of each packet under way, on its own, that its block
number is bounded by what its sender has done (`PacketOK`), and of the sender that it
has not done more than the other end let it (`ClientOK`, `ServerOK`), all of it about
transfers that no stray packet disturbed.  Both bounds only grow, so a packet that is
late or repeated says nothing new, and taking one away disturbs nothing.

**MemoryProofs**, the loader: `LoadContained`, `ImageInPlace` and the types, for every size
of a page, every width of `size_t` and every file.
* `LoadContained`: the invariant (`LoadInv`) says of the pages still to be mapped what
  `LoadContained` says of those that are.  It rests on one fact about the checks of
  `load_elf`: where both comparisons of `Below` hold, the sum has not wrapped (`NoWrap`);
  the rest is that rounding keeps a range that starts and ends in user memory inside its
  page boundaries (`FloorCeil`, `Between`).
* `ImageInPlace` speaks of the end of loading only.  Its invariant (`ImageInv`) says of
  every word of the segments and areas reached so far that it is in place or in a page
  still to be mapped (`SegmentsOK`, `AreasOK`).  A step that maps a page must not spoil
  what is there: a page to come belongs to the segment or area being loaded
  (`ComingOK`), so a word it overwrites is given up to a later segment or to the
  kernel's areas, which is all that `ImageInPlace` allows, and a word of a page that it
  maps for the first time is zero.  When a stage starts, `CopiedArea` and `FreshBrings`
  say that its pages bring all of it, which is `ChunksExact` again.

**MemoryProofs**, the page tables: `TreeShape`, `CountExact`, `CopyExact`, `FaultVerdict`,
the types, and that the tables implement `AddressSpace`, for any number of levels, any
size of a page, any memory and any order of free pages.
* `TreeShape` is inductive only together with the free list (no page in it twice) and
  with where the walk is (`WalkInPlace`): a walk writes into the table it stands at, and
  only because that is the table `TableAt` finds for this page and level does the write
  change one place of the tree.  `SameWalk` and `GrownWalk` say how a write into a
  table changes the walks: not at all unless they pass that entry.
* A walk is a recursive function of the level.  What holds of it at every level is
  shown through a least counterexample (`UpTo`, `DownTo`), which needs no induction rule.
* The refinement maps the tables to the partial map they describe (`Space`).  `Descend`
  and `Grow` are stutters, since a new table is empty; `MapLeaf` and `Reuse` are puts;
  `Resolve` and the program's accesses mark a page.
* `CopyExact` needs to know at every step of a copy that each word of the range is either
  still in a chunk to be copied or in place (`CopyInPlace`).  At the start that is a
  theorem about `Chunks` (`ChunksExact`): the first part, the whole pages and the rest cut
  a range into pieces that lie in one page each and leave no word out.
* `CountExact`: a sum whose terms count the parts of a set counts the set (`SumCounts`), so
  a table counts the pages under it if the tables below it do (`TableCounts`), level by
  level.  `count_pt` would take an entry of an upper level with a right in it for a large
  page, so this needs one more invariant: a valid entry above the lowest level leads to
  a table (`InnerTables`).  The handler's marks and the program's stores cannot break
  that, because they reach entries of the lowest level and data only.

**JudgeProtocolProofs**: `QuietWhileRead`, `ReportIsOwn`, for any number of jobs and
retries.  The argument (`Ordered`) is the order of requests: what is under way to
the daemon is younger than the request it works on, what is under way to the
client is not younger than that, and nothing is younger than the client's last
request.  So a result that carries the client's last number leaves the daemon
idle with nothing under way; and a session of this job read this job's files,
since these are written before its first request.

**UserModeProofs**: `ScratchRule`, `OutcomeOfLastTrap`, `ContextKept`.  The invariant
adds that the frame of a trap of the program is that of the last trap
(`FrameOfTrap`), that the times of a session are in order (`TimesOrdered`), and that the
timer is set to this session's limit and was due when it interrupted
(`TimerOfSession`), from which it follows that a program that is timed out has had its
limit since it was entered, as long as the sum of `judge.c` 168 does not wrap and
entering took no longer than the two million cycles added there.  The exit code
reported is the lower 32 bits of the register, signed, for any width.

The theorem modules extend the modules they are about, and assume nothing but the named
assumptions there, which the runs evaluate: tables have a level, the free list is
without repetition, copies stay below the top of the address space (`PageTable`); the
areas of the daemon lie above its heap, and a file and its headers are made of words
of the width of `size_t` (`Loader`).

**Only model-checked**: liveness (`RunnableRuns`, `RecvReturns`, `ReceiverRearms`,
`SendReturns`, `Acquired`, `ServerReached`, `SessionEnds`, `UserModeLeft`), which the
prover does not do.  Every invariant that a run checks is a theorem.

## Findings

1. `recv_udp` returns 0 for an empty datagram, and its callers take that for a
   deadline that has passed (`ip.c` 801; run `sched_zero`).
2. `client.py` does not look at the error of a result and prints a failed session
   like a finished one (`client.py` 67; run `judge_error`).

What else was met on the way, none of it a contradiction of what the code promises:

* The comment at `ip.c` 522 says that only DHCP packets are received before the address
  is ready; the test under it admits any UDP datagram.  Nobody else listens then,
  which `StartupOrder` shows.
* An echo request whose words are all zero but for its type is answered with a
  checksum of 0 where summing the reply would give 65535; the check in
  `handle_icmpv4` itself would refuse that reply.  `EchoReplyValid` and
  `EchoReplyPasses` say that it is the only such message.
* A refused DHCPREQUEST is repeated for ever (`dhcp.c` 119); besides, a refusal that is
  broadcast is not even seen, since the board takes the offered address for its own
  and drops what is not sent to it.
* The board answers ARP requests for the offered address before it is granted
  (`dhcp.c` 98).  `AddressOurs` therefore speaks of the time from `ip_ready` on.
* A board that draws the transaction id of an earlier boot takes that boot's answers
  for its own, and a lease that runs out is not renewed.  In either case nothing in the
  code says that the address is still the board's, and `AddressOurs` leaves it open.
* A data packet of an earlier transfer is stored like one of this transfer if it carries
  the block number expected and comes from the same server port, or from any while no
  answer has come yet, and the transfer is then reported as a success; likewise an
  acknowledgement.  `get_port` makes that unlikely and does not exclude it.
* The sum that `do_judge` gives the timer wraps for a limit near 2^64, and such a
  program is timed out at once instead of ten percent late (`judge.c` 168).
  `client.py` asks for 300 seconds.
* `user_task.error` is set and never read: an answer does not tell a program that was
  timed out from one that called `exit(-1)`, nor one killed for a page fault from
  `exit(-11)`.
* The cache knows two hosts.  The daemon's answers to a client on any other are never
  sent: each is replaced by an ARP request whose reply nobody remembers.

## Assumptions and bounds of the models

* Client ports of the transfers of one session differ, and so do request numbers: the
  code draws the former from the cycle counter and the latter at random.  A request
  number is a counter in the model, so that it has an order.
* In `JudgeProtocol` the network loses datagrams but keeps their order and does not
  repeat them; client and board are on one Ethernet.  Invocations of `client.py`
  follow each other: two at once would replace each other's files.
* In `Dhcp` hosts do not change their MAC addresses, say the truth about them, and a host's frames to
  the board are taken one at a time.  A DHCP server sends answers to the address it
  offers, as it must to a client that does not ask for broadcasts.
* In `Tftp` packets of earlier transfers are modelled on their way to the client;
  those to the server concern transfers that are over.  A packet of a transfer of the
  same session is to its own port; what would come of two transfers with one port,
  `Stray` shows.  The server does not forget a transfer.
* In `Tftp` block numbers do not wrap.  The buffer of a get has 4 MiB, which is fewer
  than 65536 blocks; the code does not check the length against it.
* `PageTable` has canonical addresses; the allocator hands out pages in some fixed
  order.  `kernel_pt` is NULL throughout the code, so no kernel mapping is copied.
* In `UserMode` `SAVE_ALL` and `RESTORE_ALL` are one step each.  Between the exchange
  of stack pointer and scratch register (`trap.S` 16) and the clearing of the latter
  (59) a trap of the kernel would take the program's stack for the trap stack; the
  code there moves registers, reads the cycle counter and stores to the trap stack,
  and that it does not trap is assumed.  One clock stands for the timer's and the
  cycle counter, which the code takes to run alike.  One trap of the kernel inside a
  handler is enough, since it halts the machine.
* `MaxTime`, `MaxServe`, `NumJobs`, `RetryLimit`, `MaxFlight`, `MaxLives` and the
  sizes in the .cfg files are the only bounds; the modules name them as constants.

## Not modelled

IPv6: the interface has no IPv6 address and no multicast group (`init_ip` sets the
former to zero, nothing ever sets the latter, and `ip_send_init_packets` is never
called), so neighbour solicitations and reports concern nobody; `NetKernel` has the
replies they would cause as uses of the frame buffer.  Fields of packets that decide
nothing, lengths checked against the frame, and frames with a broken header or
checksum, which are dropped like lost ones.  Console, boot code and formatting helpers
have no state the others depend on; `printf.c` is third-party code; the programs in
`user/` are samples.  What `parse_elf_phdr` and `load_elf` print is left out.

## Plan

The order so far: scheduler, kernel, allocator, transfers, page tables, loader, user
mode, protocol, checksums, IPv4 and DHCP; then the theorems about them.  Next:

* abstract specifications of the transfers (a file arrives as a whole, at most once) and of
  the daemon (a request is answered by a report on it), and the refinements to them,
  as `PageTable` has one to `AddressSpace`.
