# Softnet in TLA+

Softnet is a userspace packet filter between VMs and a vmnet network. This
directory holds TLA+ models of it, the TLC runs that check them on small
instances, and TLAPS proofs of the main safety properties for every instance.

    tlc -config MCRules.cfg MCRules
    tlc -config MCProxy.cfg MCProxy
    tlc -config MCProxyLoop.cfg MCProxyLoop
    tlc -config MCSharedClock.cfg MCSharedClock
    tlc -config MCManager.cfg MCManager
    tlc -config MCHost.cfg MCHost
    tlc -config MCControl.cfg MCControl
    tlc -config MCBatch.cfg MCBatch
    tlc -config MCDhcp.cfg MCDhcp
    tlc -config MCDns.cfg MCDns
    tlc -config MCStartup.cfg MCStartup
    tlc -config MCStartupUser.cfg MCStartup       # finds a violation, see Findings
    for m in *Proofs.tla ; do tlapm $m ; done

`PROJECT.json` lists the components, the runs, the source lines behind every
definition, the hazards, the findings and the theorems.

## The system

| Part | Source | State | Operations |
|---|---|---|---|
| Packet policy | `lib/proxy/rule.rs`, `rules.rs` | mode, two prefix maps of sorted filters | `Rules::new`, `policy_decision`, `is_stateful` |
| Flow table | `lib/proxy/flows/` | tuple → initiating direction and expiry; next sweep | `inspect`, `commit`, `sweep_if_due` |
| Packet filter | `lib/proxy/{mod,vm,host}.rs` | policy, compiled rules, optional flow table | a frame from the VM, a frame from the host, `policy_get`, `policy_set` |
| Host interface | `lib/host.rs` | `draining`, a `Notify`, an acknowledgment channel, `finalized` | the event callback, `read`, `finalize`, `drop` |
| VM socket | `lib/vm.rs` | a datagram socket | read, write, disconnection |
| Manager | `lib/manager.rs`, `src/main.rs` | control task, calls channel, proxy tasks and handles, initialization worker | `run`, `dispatch`, `initialize`, `shutdown`, SIGINT |
| Control task | `lib/control.rs` | the request in hand and its reply channel | `run`, `parse` |
| Control transport | `lib/control_transport.rs` | buffered bytes, attached descriptors | `next`, `send` |
| Network, subnet finder | `lib/network.rs`, `lib/subnet_finder/` | the host's interfaces, reservations | one search and one creation per process |
| Rule syntax, exposed ports | `lib/proxy/rule.rs`, `exposed_port.rs` | none | parsing, formatting |
| DHCP and DNS servers | `lib/dhcp_server/`, `lib/dns_server/` | none that changes | one reply per request |
| Command line | `src/main.rs` | arguments, user IDs, the bootpd preferences of the host | escalation, bootpd settings, the main select |

How they interact: the manager owns one task per VM. `initialize` registers the
tasks, and a blocking worker creates the network and all proxies and hands each
proxy to its task. Only after privileges are dropped do the tasks get their
start signals. The control task forwards a client's requests over a channel of
one call; the manager forwards policy commands over a channel of one command per
proxy. A proxy serves its VM socket, its vmnet interface, its commands and a
timer in one `select!`. vmnet announces packets by a callback on a thread of its
own.

What is hard: SIGINT drops the manager's future at any await, including while
the worker creates interfaces; a client may stop reading; a proxy may stop
between accepting a command and acknowledging it; the callback parks until a
reader that may be gone acknowledges it; the policy changes while flows are
open; flows expire long before they are swept, by a clock that two threads can
set back; fragments and malformed headers take paths of their own; requests
arrive in pieces, with descriptors attached to any of them; a VM that never stops
sending competes with its own commands; DHCP datagrams are lost, repeated and
late; other processes rewrite the same preferences and take the subnet that was
free a moment ago.

## The modules

| Module | Models | Kind |
|---|---|---|
| `Packets` | frames and packets, reduced to the checks that the code makes | data |
| `Rules` | compilation of a policy and matching against it | operators |
| `Policy` | the policy in force and its tables, and the help text's reading of them | state and properties, part of `Proxy` |
| `FlowTable` | inspection, commit and sweep | operators |
| `Proxy` | the packet filter of one VM | state machine |
| `ReturnPermits` | what stateful flow authorization promises | abstract specification |
| `ProxyLoop` | the `select!` of `Proxy::run` and the VM's socket | state machine |
| `SharedClock` | the clock and the flow tables of several proxies | state machine |
| `Manager` | manager, control task, worker, proxy tasks, client | state machine |
| `ControlTransport` | `next` and its decoder over a stream of segments | state machine, part of `Control` |
| `Control` | the control task over the transport | state machine |
| `Host` | callback, reader and finalize | state machine |
| `Batch` | subnets, addresses, names and ports of batches | state machine |
| `DhcpServer`, `Dhcp` | the server, and a client with an unreliable path to it | operators; state machine |
| `DnsServer`, `Dns` | the size of replies and what the server leaves alone; a VM's queries to it | operators; state machine |
| `RuleSyntax` | the grammar of rules, `Display`, the normalised list | operators |
| `Startup` | `src/main.rs` before the manager, for several processes | state machine |
| `MC...` | instances for TLC, reference definitions | model checking |
| `PolicyProofs`, `ProxyProofs`, `AnswerProofs`, `PermitsProofs` | theorems about the filter and its policy | proofs |
| `ManagerProofs`, `BatchProofs` | theorems about the manager and its batches | proofs |
| `RuntimeProofs` | theorems about `Startup`, `Host`, `SharedClock` and `ProxyLoop` | proofs |
| `ServerProofs` | theorems about `Control`, `Dhcp` and `Dns` | proofs |

Operators keep the source's names where there is one (`inspect_tcp`,
`admit_with_tracking`, `policy_set`). Definitions named `Mut_...` are variants
with a plausible bug; they are used nowhere, and stand before the definition they
vary, to show that the properties tell the two apart. `RuntimeProofs` and
`ServerProofs` extend several components that share no state; the variables and the
specifications of these have names of their own (`HostSpec`, `DhcpSpec`).

**Packets and Rules.** An address is a number of `AddrBits` bits and a prefix an
address and a length, so that covering prefixes and truncation are computed, not
assumed. A compiled policy is a set of (prefix, filter, action) entries per
direction. Policies are sets of rules, since the code sorts and deduplicates its
lists; `ReadBackUnchanged` of
`MCRules`, which knows the lists, is what justifies this. `Policy` has what `Proxy` and
`MCRules` share: the properties of a policy are model-checked in one and proved
of the other.

**Proxy.** An event of `Proxy::run` is one step. Between inspecting a packet and
committing its flow the code does not await, and the one await on the way, in
`consume_dns`, comes before the inspection. The clock is `coarsetime`'s recent
instant, in units of the timeouts; any proxy may advance it, and `SharedClock`
models how it can fall back. A frame that
the VM's socket has no buffer for (`ENOBUFS`) is lost, and the flow it committed
stays; every other write error, and any on the vmnet side, ends the proxy and is
`RunFails` in `Manager`.

**ReturnPermits.** A permit is a tuple, the direction that opened it and a time.
The mapping takes the flows that have not expired as the permits, so that
sweeping, capacity and the layout of the cache are invisible.

**Manager.** The manager's future is parked at an await, named by `pc`, and an
action runs it to the next one. `Interrupt` drops it anywhere and starts
`shutdown`. Requests for reading and replacing a policy take the same path and are
one request. Whether a batch is rejected is left open, as it depends on
descriptors, MAC addresses, names and free subnets; a rejected batch changes
nothing. `Cleanup` is one step: `Host` shows that finalize terminates. A client that has
stalled does not resume: while the calls channel is open, one that resumes is one whose
response is written late, and once it is closed the control task has ended the write.

**Host.** vmnet is modelled from how the code uses it: it runs the callback once
at a time, remembers that packets arrived meanwhile, and `interface.finalize()`
waits for a callback in progress. These three are assumptions about a library
outside the repository.

**ProxyLoop.** Frames are counted, not read. A turn of the loop is a burst from the
VM, a batch from the host, one command or the timer; within a burst or batch the
code does not yield to another branch. The socket has a pending reset that
the first read or write after the peer closed consumes, as on macOS; every
result that the code classifies is an outcome of some read or write.

**SharedClock.** An update is two steps, reading the system's clock and storing.
`MaxLag` bounds the time between them, and how long a proxy works on frames
read after one update. Each proxy has one flow, enough to ask whether it lives as
long as it should.

**ControlTransport and Control.** A byte is a newline, a byte that is not UTF-8, or
one of three letters that stand for a VM of an initialize request, another
request and garbage. Descriptors are numbered by the segment and place at which
the client attached them. `recv` returns bytes of one segment. `decode` keeps
the search index of `LinesCodec`, so that forgetting to reset it has its real
consequence. The select of `next` against the closing of the calls channel
drops `next` between two receives (`ReadCancelled`).

**Batch.** Several processes search, create and leave networks while other programs
add and remove interfaces. `find_available_subnet` is the set of results of one
draw, so that any random choice is covered. Names are a label and a spelling;
hickory compares labels without case. The network and every proxy are records of
the values the code hands over, in the code's order.

**Dhcp.** The client is that of RFC 2131 and is external to the repository. Sets of
datagrams model loss, repetition and delay at once: a datagram stays and may be
delivered again, or never. `receive` ignores messages with a wrong opcode, hardware
type, address length or relay address exactly as it does those of another client;
`chaddr` stands for these checks.

**Startup.** A process is a parsed command line, user IDs and a phase. sudo (external)
may refuse, fail, or start the program again as any user. `Kill` ends a process
anywhere; the system then releases its lock.

## The runs

| Run | Distinct states | Shows |
|---|---|---|
| `rules` | 2,091 | the two-stage match follows the precedence of the command-line help; hiding ports evades no block; a bare block of everything is a default deny; a policy that is read and sent back is unchanged |
| `proxy` | 18,813 | every flow is authorised by the policy in force; bounded garbage; requests that pass can be answered wherever a rule decides them or their replies; DHCP stays local; the filter implements `ReturnPermits` |
| `proxy_loop` | 2,496 | a peer that closes ends the loop without an error, whichever call notices it, and is noticed without traffic; a flood from one side starves neither the other nor commands |
| `shared_clock` | 2,996,490 | flows live for their timeout, up to the lag of the clock |
| `manager` | 201,648 | all-or-nothing activation without privileges, owned interfaces, clean exit, no lost failure, the reply to a failed activation; shutdown terminates, the last VM ends the process, calls complete |
| `host_handshake` | 2,123 | one token per callback, no lost wakeup, finalize never deadlocks |
| `control` | 391,603 | frames are the lines of the stream with their own descriptors; bounded memory; one response for each frame; VMs get the sockets attached to their request; every complete request is answered |
| `batch` | 36,072 | a subnet overlaps only what appeared after the search; addresses suffice and are separate; names resolve; vmnet, filters and zone agree |
| `dhcp` | 11,668 | only requests for another address are refused; every client gets its lease, of the reserved address |
| `dns` | 1,440 | replies fit frame, client and server limits; queries for the zone stay local |
| `startup` | 218,752 | the manager drops to the caller; commits are applied by who made them; every process starts or fails |
| `startup_user` | | the finding below |

Bounds, and why they are enough:

- `MCRules`: 2-bit addresses, ports up to 3, up to `MAX_RULES` = 3 rules from a
  pool of eleven. Precedence compares rules in pairs; three rules give two
  competing matches and a broader fallback. The pool has nested prefixes, equal
  prefixes with different host bits, overlapping ranges of equal width, and rules
  for the host and the peers. Beside these, the text of every rule with any word
  replaced, inserted or deleted, and lists of up to three texts that are alike.
- `MCProxy`: two flows (`MAX_FLOWS` = 2) and three protocols fill the table;
  `MaxTime` = 3 lets a flow of one unit expire, stay unswept until the sweep after
  two and be renewed or swept, with a policy change in between; established TCP
  flows live for two. `MCPolicies` has policies without
  stateful rules, one that opens both directions, some that open one and close the
  other, one that closes single ports to replies that the default admits the
  requests of, and two that differ only before normalisation. The frames are those that
  open and answer flows, and those that never reach the table or reach it
  malformed.
- `MCManager`: `MAX_VMS` = 2 gives a first and a later VM of a batch, and
  `MaxFrames` = 2 an initialization and another request, before or after it.
  All actors, failures and the signal interleave freely.
- `MCHost`: five packets in batches of two, so that one callback covers full,
  partial and empty reads; drop retries a failed finalize once, as in the code.
- `MCProxyLoop`: bursts of 3 and batches of 2 with queues of up to 3: longer than
  a batch and able to refill during a turn.
- `MCSharedClock`: two proxies, since a wrong order takes two; `MaxTime` = 7 covers
  opening, expiry after `TIMEOUT` = 3 and a sweep after 4. The proxies are
  symmetric.
- `MCControl`: requests and buffers of 2 bytes and up to 2 descriptors, so that a
  line of three bytes is too long and takes two reads; three segments from
  ten, which hold whole, partial, pipelined, oversized and invalid
  lines with right and wrong numbers of descriptors.
- `MCBatch`: subnets of three host bits and `MAX_VMS` = 5, both as in the code; three
  ranges and interfaces that cover, split and lie inside subnets; batches with
  equal MACs, equal names, a bad socket, no VM and one VM too many.
- `MCDhcp`: one client, `MaxAbandoned` = 3 exchanges given up.
- `MCDns`: sizes around each of the three limits, in units.
- `MCStartup`: two processes, three users, lease times of four bits on both sides of
  the sign.

`rules` disables the deadlock check, since its client stops at `MAX_RULES`. All
others check for deadlock; a process that has exited stutters (`Terminated`,
`Done`, `Returned`, `Settled`).

Fairness: the tokio runtime polls every task that can proceed and blocking
threads run, so the manager, the control task, the worker and every proxy task
are weakly fair; so are the callback's thread, the reader and finalize. Clients,
VMs, SIGINT and failures are never assumed to happen. The bounds on frames and
packets also mean that no client sends forever; in `ProxyLoop` both sides do.

- `ProxyLoop`: tokio's `select!` polls its branches in random order, so a branch
  that is ready again and again is eventually taken: strong fairness for each
  branch, weak for the rest of a turn and for the timer.
- `Control`: the task, and a manager that answers or drops a call it has received.
- `Startup`: each process proceeds while it can; kills are never assumed. A lock
  that is held is either released by a fair process or by the kill of its holder.
- `Dhcp`: the client retransmits and moves on, and the current request and the
  replies to it are eventually delivered once the client stops giving up (at most
  `MaxAbandoned` times): a path that loses everything leases nothing.

## The proofs

The proof modules hold for all values of the constants, under named assumptions
in the modules that declare them (`PacketsAssumption`, `FlowTableAssumption`,
`ProxyAssumption`, `ClockAssumption`, `LoopAssumption`, `ManagerAssumption`,
`TransportAssumption`, `HostAssumption`, `DhcpAssumption`, `ClientAssumption`,
`DnsAssumption`, `QueriesAssumption`, `BatchAssumption`, `StartupAssumption`): sizes
are natural numbers, timeouts and batch sizes are positive, different addresses
are different, policies consist of rules that the parser can return, IPv4 frames
carry packets of the type `Ipv4Packet`, frames that arrive are told apart from the
replies that the proxy writes itself, a subnet has an address for the gateway and
for each of `MAX_VMS` VMs (six usable ones in the code's /29), and the server's limit
on a DNS reply has room for a header and fits a `u16`. `VmFrames`, `HostFrames`,
`Policies`, `Segments`, `Requests` and `Queries` are otherwise arbitrary sets.

- `PolicyProofs`: what a compiled table decides, for every policy. `HighestPriority`
  sorts the slots of one prefix, and `select` compares the winners; `SelectFacts` shows
  that together they find a maximum of one order, and `NarrowingFacts` that the help
  text's successive preferences arrive at the same rules (`PrecedenceHolds`).
  `UnknownPortsHold` and `DefaultDenyHolds` rest on the same account of what decides a
  packet (`DecisionFacts`).
- `ProxyProofs`: `TypeCorrect`, `NoStalePermission`, `CapacityRespected`,
  `CollectionBounded`, `DhcpIsLocal`. The invariant `IInv` ties the compiled rules to the policy
  and says that the table is in order (`TableOK`). Its unobvious part is
  `next_sweep < expires_at + SWEEP_INTERVAL` for every flow, which makes bounded
  garbage inductive. The heart of the argument is `CandidateFacts`: the question
  that a flow's key puts to the policy is the question that was asked about the
  packet which opened it.
- `AnswerProofs`: `HelpTextHolds`, `NoPortNoEvasion`, `BlockAllIsDefault`, `RepliesPass`. The
  first three carry the results of `PolicyProofs` to a running proxy, whose policy is
  replaced at any time. For the last, the flow of the packet forwarded last is live
  (`LastOpenerLive`), and the reply to a packet has the packet's key (`ReplyMatch`); a
  request that the default admits is tracked because the question asked about it is
  the question about its reply (`ReplyForeseen`).
- `PermitsProofs`: `FilterKeepsPromise`, the refinement of `ReturnPermits`. A permit is
  a live flow, so a sweep changes nothing that the abstract specification sees
  (`SweepInvisible`) and a commit grants exactly the frame's own tuple for its
  lifetime (`CommitGrants`). Every frame that passes is then explained by a rule
  or by a permit (`VmFrameExplained`, `HostFrameExplained`), and each step of the
  filter is a step of `ReturnPermits` or a stutter.
- `ManagerProofs`: `ActivationIsAtomic`, `Ownership`, `ExitIsClean`,
  `TransfersNeverFail`, `FailuresSurface`, `RoomForCommand`,
  `FailedActivationAnswered`. `IInv` adds where the worker may still
  run (`WorkerPlace`), how far it has come (`WorkerProgress`), what holds once the
  start signals are sent (`Activation`), what each phase of shutdown has joined
  (`Joined`) and what a reaped failure has decided (`Failures`).
  Two invariants of their own follow a policy command (`CommandInv`: only the one
  that the manager awaits can be queued) and a reply (`ReplyInv`: the control task
  waits for it while a call is served, and is not aborted before the run is over).
- `BatchProofs`: `OverlapsAreRaces`, `AddressesAreSeparate`, `NamesAreResolved`,
  `ViewsAlwaysAgree`. Prefixes are blocks of 2^n addresses (`PrefixBlock`), and two
  blocks are nested or disjoint (`BlocksNest`): so the comparison of prefixes in
  `find_available_subnet` is one of addresses (`SearchResult`). `BatchInv` says that a batch
  which got past `initialize` was checked against the interfaces known then, and
  that network and proxies are functions of it.
- `RuntimeProofs`, four sections with an invariant each:
  - `Handshake`, `DrainedBeforeRelease`: `HostInv` adds that the sender
    exists while the interface is open and that a buffered acknowledgment belongs
    to a parked callback.
  - `LagIsBounded`, `LifetimeIsKept`: `ClockInv` bounds every sample in
    flight and the stored instant from both sides, and an expiry by the opening
    time plus the timeout less the lag.
  - `DisconnectsAreClean`: `LoopInv` adds that a socket reports a reset only once its
    peer has closed.
  - `SudoOnce`, `PrivilegesReturn`, `LockIsExclusive`: `StartupInv` ties the arguments of
    an image to the caller and the number of escalations (`Escalation`), user IDs to
    phases (`Privileges`) and the committed value to the lock's holder
    (`Preferences`).
- `ServerProofs`, three sections with an invariant each:
  - `CodecIsInStep`, `MemoryIsBounded`, `ResponsesInOrder`: `IInv` has what
    a call of `next` holds between two receives (`Held`), what is left in the socket
    (`Sending`) and how the task's place relates responses to frames (`TaskInv`).
    `DecodeFacts` and `TurnFacts` say what the decoder leaves behind; they need the
    least newline of a sequence, from the well-foundedness of `Nat`.
  - `OnlyReservations`, `RefusalsAreDeserved`: `DhcpInv` says of every datagram on its
    way, however old, what it may contain (`Datagrams`, `Grants`) and that none is from
    an exchange that has not begun (`NothingFromTheFuture`); only then can the
    current exchange be singled out (`CurrentRequests`, `CurrentRefusals`).
  - `AnswersAlwaysFit`: the casts and the subtraction of `max_payload` for every size.

`TypeCorrect`, `CapacityRespected`, `TransfersNeverFail`, `DrainedBeforeRelease`,
`LagIsBounded`, `OnlyReservations`, `SudoOnce` and `CodecIsInStep` state
properties that no run checks separately; the proofs need them or give them for
free.

Only model-checked: all liveness properties (fairness and `ENABLED` are beyond
the prover), `FramesAreLines` and `SocketsMatchVms` (they refer to the whole flattened
stream, which takes induction over sequences) and `ReadBackUnchanged` (sorting and
parsing lists of words, which takes it too).

## Findings

- `startup_user`: a process that was started with `--user` and needs sudo is started
  again with its own arguments followed by another `--user` and `--group`
  (`src/main.rs:222-232`). Both are options with one value, so the second image
  ends with a usage error. README.md:63 says that privileges are dropped to the
  calling user "or those represented by the `--user` and `--group` command-line
  arguments". The counterexample has a caller who is not root, an explicit user
  and a sudo that needs no password. With the set-user-ID bit the argument works
  as documented.

Met on the way and modelled (`AsSigned`), but not a run: the lease time is a `u32`
and is stored as `lease_time as i32` (`src/main.rs:332`), so that values from 2^31
on become negative.

## Not modelled

- The bytes of JSON, Ethernet, IPv4, DNS and DHCP messages: smoltcp, hickory, serde and
  the like do the work. What the code checks in a message is a field of the model's.
- Carriage returns that `LinesCodec` strips, and requests that are JSON but of a
  wrong shape; they are answered like other invalid ones.
- System calls that validate a descriptor or set socket options (`VM::new`,
  `Host::new`): they succeed, or the batch fails.
- The parsing of exposed ports. Nothing compares the external ports of
  two VMs of one batch; vmnet decides what becomes of the second.
- The number of draws in the subnet search. It is a probability, not a
  possibility, that matters there.
- Sentry, tracing and version information.
- Memory orderings: atomics and channels are taken as sequentially consistent.
