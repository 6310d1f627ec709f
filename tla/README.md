# ExecSandbox in TLA+

ExecSandbox (`src/`) turns a `.wasm` module into one executable: the build tool
appends the module to a base binary, and the finished program runs it in wazero
under a policy. A guest does nothing but wait in `recv`; what wakes it comes from
other sandboxes (`send`, over Unix sockets) and from external clients (`-l`,
answered with `conn_write`). The concurrency of the system is around that one
mailbox, and so is this project: TLA+ modules of the Go code, TLC runs on small
instances, and TLAPS proofs for all instances.

Run, in this directory:

    tlc -workers 2 -config MCMailbox.cfg MCMailbox.tla     # any MC*.cfg
    tlapm MailboxProofs.tla                                # any *Proofs.tla

`PROJECT.json` names the source lines that every definition stands for, a faulty
variant of the code for every property (the operators marked "Faulty variant" in
the modules), and the hazards that the properties are for.

## 1. Inventory

| Component | State it keeps | Operations | Source |
|---|---|---|---|
| Mailbox | `queue`, `notify` (channel of one token), `limit`, drop counter | `Push`, `PushDisconnect`, `Recv` | `sandbox/mailbox.go` |
| External connections | `nextID`, `conns` under `ct.mu`; one reader goroutine per connection | `Serve`, `add`/`allocID`, `serveConn`, `disconnect`, `Write`, `Close` | `sandbox/conn.go` |
| Listening on an ID | the socket file, the listening socket | `Listen`, `Serve`, `serveConn`, the listener's `Close` | `sandbox/listener.go` |
| Messages to other sandboxes | `DestTable.conns`, one lazy connection per destination number | `Send`, `Close`; `WriteFrame`, `ReadFrame` | `sandbox/dest.go`, `framing.go` |
| Rate-limited counter | `count`, `lastLog` under `c.mu` | `Hit`, `onFlush` | `sandbox/ratelimit.go`, `log.go` |
| Host functions | none | `recv`, `send`, `conn_write`, `max_frame` | `sandbox/host.go` |
| Process life | deferred calls, the exit code, the `-t` deadline | `main`, `run` | `cmd/execsandbox/main.go` |
| Policy | none | `MemoryLimitPages`, `RuntimeConfig`, `ModuleConfig` | `sandbox/policy.go` |
| Options | what `parseArgs` returns | `parseArgs`, a `Set` method per option, `validate`, `ParseListenAddress` | `cmd/execsandbox/options.go`, `sandbox/listenaddr.go` |
| Stamp and build tool | the output file | `parseArgs`, `stamp`, `WriteFile`, `ExtractWASM` | `cmd/execsandbox-build/*`, `sandbox/footer.go` |
| Socket address | none | `resolveSocketPath` | `sandbox/address.go` |

**How they interact.** `run()` creates the mailbox, starts `Serve` for `-n` and
`ConnTable.Serve` for `-l` as goroutines, registers the host functions, and then
runs the guest on its own goroutine. Every goroutine that reads a socket calls
`Mailbox.Push`; the guest's goroutine alone calls `Recv`. `conn_write` takes
`ct.mu` to look a connection up and writes without it; when the write fails the
guest's goroutine runs the same `disconnect` as the reader. `Send` is called only
by the guest's goroutine. The guest's return runs the deferred calls in reverse:
the runtime, the connection table, its listener, the destination table, the ID's
listener.

**What is hard, and what correctness means.**

* *Mailbox*: the wake-up is sent outside the mutex and tokens are not counted.
  No wake-up may be lost; every push is delivered, waiting or dropped exactly
  once, in each producer's order; only disconnect events go over the cap.
* *Connections*: a reader and a failed `conn_write` race to disconnect; ids wrap
  and are reused; the mailbox may be full; the process may be closing down. A
  connection is opened once and closed once in the guest's eyes, its data stays
  in order, ids in use are not given away, table and sockets agree.
* *Listening*: dial, remove and bind are separate system calls, done by several
  processes, which crash and leave the file behind; a full backlog looks like
  nobody.
* *Messages*: frames over a byte stream of bounded capacity; receivers crash in
  the middle of one; oversized frames are skipped. Frames stay whole and in
  order, and a send does not wait for ever, unless nobody accepts it any more.
* *Counter*: clock readings used out of order; a line is written with the mutex
  held.
* *Host functions*: 32-bit sums near their limits; three meanings in one i32;
  a signed and an unsigned reading of one length.
* *Options and policy*: a guest gets nothing that no argument asked for, through
  defaults, short forms, repetitions and the end of the options.
* *Process*: each start-up step may fail; the deadline may pass in any host call.
* *Stamp*: a build cut short leaves an executable behind.

## 2. Modules

| Module | What it is | State and actions |
|---|---|---|
| `MailboxQueue` | the queue as data: kinds, the cap, one push | operators `Full`, `Pushed`, `WithinLimit`, used by all modules with a mailbox |
| `MailboxSpec` | **abstract specification**: what a mailbox promises (spec §3.6, §4.2, §5.3), without locks or wake-ups | one FIFO; a `recv` returns once it can; one started on a non-empty box never reports a timeout |
| `Mailbox` | `mailbox.go` at the granularity of its critical sections | `Enqueue`/`TailDrop` (the mutex), then `Notify`/`LogDrop` outside it; `RecvDeliver`/`RecvTooSmall`/`RecvEmpty` (the mutex), then the select: `RecvWake`/`RecvTimeout`; `CtxDone` |
| `ConnSpec` | **abstract specification**: what one connection leaves in the mailbox (spec §5.3, "start, continue, end"), as far as the code keeps it | per connection a stage and the events told: `Begin`, `Data`, `End` |
| `ConnTable` | `conn.go` and the guest's view of the connections | acceptor: `Accept`, `PushEstablished`, `Spawn`, `AcceptFails`; readers: `ReadData`, `PushData`, `ReadErr`; any of them or the guest: `Lock`, `Close`, `Announce` (`disconnect`); guest: `GuestRecv`, `WriteLookup`, `WriteOK`, `WriteFails`; `TableClose`, `ListenerClose`; clients: `HangUp` |
| `SocketListen` | `Listen` by several processes with one name | `Dial`, `DialCrowded` (EAGAIN from a live listener), `Remove`, `Bind`/`BindFails`, `ListenCall`; `Finish`, `Unlink`, `CloseFd`; `Crash` |
| `Messaging` | `dest.go`, `framing.go` and the receiving half of `listener.go`, over sockets | `Send`, `Dial` (which may fail although the receiver is up), `WriteFrame` (a token at a time), `WriteFails`, `SenderEnds`; `Accept`, `AcceptFails`, `ReadLength`, `ReadPayload`, `DiscardPayload`, `ReadFails`, `PushFrame`; `Start`, `Crash` |
| `RateLimit` | `ratelimit.go` | `Stamp` (the clock is read), `HitCounts`, `HitLogs`, `Written`; `Tick` |
| `HostABI` | the four host functions with words of bounded width | one action per way a function returns: `Recv*`, `Send*`, `MaxFrameReturns`, `ConnWrite*` |
| `FlagSet` | Go's package `flag` (external): which arguments are options, which are words | operators on a sequence of arguments |
| `Options` | `options.go` and `listenaddr.go` | `parseArgs` folds `Set` over the arguments; a `Set…` operator per method; `validate`, `parseSize`, `parseVolume`, `ParseListenAddress` |
| `Policy` | `policy.go`: `ModuleConfig`, and `MemoryLimitPages` with wrapping int64 | operators |
| `Stamp` | the build tool from its command line on, `stamp`, `ExtractWASM` | `parseBuildArgs`; `OpenOutput`, `WriteOutput`, `WriteCut` |
| `Sandbox` | one executable from its build to its exit code; **composes** `Stamp`, `Options` and `Policy` | `Build`, `Parse` (a command line), `Startup`/`StartupFails` (all steps of `run()`), `Call`/`CallServed`/`CallCancelled` (the blocking host calls: `recv`, `send`, `conn_write`, wazero's reads, writes and sleep, each only where the options let it block), `Expire`, `Terminated`, `GuestReturns`/`GuestTraps`/`GuestExits`, `Deferred`, `Exit` |
| `MC*` | constants for TLC only | |
| `*Proofs` | theorems | |

**Composition by contract.** A push takes two critical steps in `Mailbox` and one
in `ConnTable` and `Messaging`. The run `mailbox` shows that `Mailbox` implements
`MailboxSpec`, in which a push is atomic, under the mapping at the end of
`Mailbox.tla`; the larger modules use the same `Pushed` operator. The run
`conn_table` shows in the same way that `ConnTable` implements `ConnSpec`. A step of
`ConnTable` is one critical section under `ct.mu`, one push, or one blocking
socket call.

**Abstractions.** Payloads are sizes or numbers. A frame is two tokens, prefix
and payload, in a stream of `Buffer` tokens; that is what tells the two `Write`s
of `WriteFrame` apart; each also carries the ID that `Send` meant (`to`, history,
not in the real frame), with which `FrameIntegrity` compares the mailbox it ends
in. A file is a sequence of cells of the footer's size. Kinds
0, 1 and 2 behave alike in `push`, so the mailbox has one of them and the
disconnect. An argument of a command line is an option with a number and the
text of its value cut at the separators its parser looks for (`:` `=` `,` `/`);
what is not a number where one is wanted, and an unknown option, is `?`. `time` is
a counter; 0 is the zero `time.Time` of `lastLog`.
Variables marked "history" are read by no guard.

**External code.** Unix sockets (`Answers`, `Listening`, `Unlink`, `CloseFd`,
`Take`), Go's integer arithmetic and package `flag`, wazero's memory and its
`WithCloseOnContextDone`, the clock, the clients and the guest. The guest may
call any host function at any time with any arguments of the run; it keeps an
entry per connection as spec §4.2 tells it to.

## 3. Runs

All bounds are constants of the `.cfg` files.

| Run (`.cfg`) | What it asks | Bounds, and why they are enough |
|---|---|---|
| `mailbox` (`MCMailbox`) | No wake-up is lost (`NoLostWakeup`), the cap, loss and duplication (`EveryPushAccountedFor`), order (`SenderOrder`), and the refinement `ImplementsMailboxSpec` with its liveness | 2 producers × 2 pushes, limit 1, two sizes and two buffers: stale tokens, a full mailbox, disconnects over the cap and buffers that are too small all occur, and two producers can each be between mutex and token |
| `conn_table` (`MCConnTable`) | The refinement `ImplementsConnSpec` (order and content of each connection's events, one closure, at most one chunk after it), `NoMixUp`, `GuestStateReclaimable`, `NoConnectionLeaks`, `HangUpAnnounced`, also after the acceptor gave up | 2 connections, 2 chunks, mailbox of 2, shutdown at any time; each connection has its reader and the guest as rivals |
| `conn_table_wrap` (`MCConnTableWrap`) | The same table when ids wrap: `NeverRebound`, `TypeOK`, `NoConnectionLeaks`, `GuestStateReclaimable` and `ImplementsConnSpec` still | 3 connections for 2 ids, so that every id is reused, once while the old closure is under way |
| `socket_listen` (`MCSocketListen`) | `ServerReachable` while start-ups do not overlap and no backlog is full, `NoStartFails` with full backlogs too; `NameServed` also when start-ups overlap | 3 processes, any number of starts and crashes (the state space is finite without a bound) |
| `messaging` (`MCMessaging`) | `FrameIntegrity`, `SenderOrder`, `TableMatchesSockets`, `SendReturns` | 2 destinations, 4 messages of which any may be oversized, dials that fail with the receiver down or up, 1 crash, sockets of half a frame (so that every write blocks), mailbox of 1 |
| `rate_limit` (`MCRateLimit`) | `EveryHitCounted`, `LinesLimited`, `HitReturns` | 3 goroutines, 6 hits, time 1..6 with interval 2: two and a half intervals, three clock readings out of order |
| `host_abi` (`MCHostABI`) | `WritesConfined`, `GuestDecodes`, `MaxFrameBufferSuffices`, `ValidCallServed`, `BytesLeaveWhole` | 4-bit words: all pointers, lengths, capacities and payloads, so that every sum that can wrap does |
| `sandbox` (`MCSandbox`) | `IntactOrRefused`, `BuiltAsAsked`, `LimitHonoured`, `CleanExit`, `LeastPrivilege`, `NothingOverwritten`, `TimeoutCodeHonest`, `TimeoutEndsProcess` | all pairs of 29 arguments (every option, good and bad values, words, `--`): a repetition, an order and what follows the end of the options need two; with `-m` in eleven sizes (0, partial page, maximum, beyond it and refused by `MemoryLimitPages`, within a page of the largest int64, beyond int64) all combinations of `-n`, `-t`, and `-d` with `-l`, `-s all` and `-a time`, so that each blocking host call occurs with and without a deadline; command lines of the build tool with no, one, two and wrong targets; modules of 0 to 3 cells, one of them with a footer of its own; builds repeated and cut anywhere |

Four runs end in a violation, each of something that a document or a comment
says and the code does not do:

| Run | Property | What happens |
|---|---|---|
| `conn_data_after_closed` | `NothingAfterClosed` | `conn_write` fails and announces the closure while the reader holds a chunk, which then follows the closed event (spec line 623: "start, continue, end") |
| `conn_excess` | `ExcessBoundedByLive` | connections that come and go while the guest does not receive each leave a disconnect event above the cap (mailbox.go:96: bounded by those live at once) |
| `socket_race` | `OneServer` | two overlapping start-ups both find nobody (the first has bound but not yet called listen when the second dials), the second removes the first one's socket, and both succeed; one listens on an unlinked socket (listener.go:17). The property supposes that no backlog was full, which is another way to the same end (below) |
| `sandbox_stuck_send` | `TimeoutEndsProcess` | the guest sends to a destination given with `-d` whose reader has stopped: `send` has no deadline, and `-t` does not end the process (docs/usage line 147) |

Other disagreements met while modelling, without a run of their own:

* `Recv` may report a timeout although an event arrived before the deadline: the
  `select` picks either ready case (mailbox.go:148; its comment at 48 says no
  message arrived). The event stays queued. `MailboxSpec` therefore allows it.
* After 2^32 connections an id may be given away between the deletion of its
  entry and its closed event (conn.go:92, 104; spec line 428: "no mix-up
  occurs"); and that ids are given away again at all contradicts docs/usage line
  221, where `conn_id` is "never reused after disconnection". `NoMixUp` is checked where ids do not wrap.
* Two destination numbers with one ID have two connections, which two goroutines
  of the receiver read, so that a later message may arrive first (dest.go:44; spec
  line 345: messages of one sender "arrive in the order that sender sent them").
  `messaging` gives each ID one number; with `Assign <- MCAliases` and two messages
  TLC finds `SenderOrder` violated.
* A failed `conn_write` disconnects by the id it looked up, not by the socket it
  holds (conn.go:151). If 2^32 connections come between the two, the entry under
  that id is another connection's, which is then closed in its place. The run
  `conn_table_wrap` therefore has a guest that does not write.
* A log line shows the drops since the previous line, not a running total
  (ratelimit.go:28; spec line 321), and drops after the last line of a burst are
  never reported (spec line 320).
* A memory of 65536 pages has `Size()` 0 as a u32, and `recv` then always answers
  -1 (host.go:103). `ValidCallServed` leaves that one size out.
* A guest that exits with 0xefffffff is reported as a timeout, also without `-t`
  (main.go:185). `TimeoutCodeHonest` says so.
* A listener that lives but whose backlog is full is taken for left over and its
  socket file removed (listener.go:31). `ServerReachable` supposes that it does
  not happen.
* With `--stdio in` a guest that reads from a terminal or an idle pipe is in a
  call of wazero's that no deadline reaches, like the stuck `send`. With
  `--allow time` neither does it reach a guest that sleeps (`WithSysNanosleep`,
  policy.go:117): its process ends after the sleep, however long, not at the
  deadline.
* `-m` within a page of 2^63 makes the sum at policy.go:150 wrap; the option is
  accepted with 0 or 1 page, although docs/usage line 114 says that "exceeding
  4GiB ... for `-m` ... is an error that prevents startup". `LimitHonoured` leaves
  those sizes out; all other sizes beyond the maximum are refused.

## 4. Fairness

* `Mailbox`: `Recv` and a push that is past its mutex go on (weak fairness of the
  goroutine's next step). Nobody has to push or to call `recv`. A `select` with
  a case that is ready proceeds, which is what Go guarantees.
* `ConnTable`: the acceptor, once it has a connection, the readers, once they
  have data or an error, and `disconnect` go on. Clients need not connect, send
  or hang up; the guest need not receive; `conn.Write` without `-t` may block
  for ever.
* `SocketListen`: a process in `Listen` goes on (or is killed).
* `Messaging`: both sides' goroutines run. The receiving guest need not call
  `recv`: `SendReturns` holds because a full mailbox drops and never blocks. An
  acceptor that has failed is never fair again: a connection left in its backlog
  is the exception that `SendReturns` names.
* `Sandbox`: `run()` and the deferred calls go on; a call that the deadline
  cancels returns; strong fairness for the end of a guest after the deadline,
  since wazero looks for it at loops and function entries, which a guest passes
  again and again between host calls. A `send`, and a read or write of a stream,
  returns if it is among the constant `Answered`: the peer reads, the pipe's
  other end or the terminal answers. The run `sandbox_stuck_send` takes `send` out
  of it. A sleep is over by itself. A call that returns at once (`send` to a number
  without a `-d`, `conn_write` without `-l`, a stream not named, a sleep on wazero's
  fake clock) is not a call a guest can be blocked in (`Connected`).
* `RateLimit`: the writer of a line returns (weak fairness, an assumption on
  stderr), and Go's mutex starves nobody that waits (strong fairness: it is free
  again and again).
* `HostABI` states safety only.

Deadlock checking is off where the system may stop (no client comes, the guest
waits without a deadline, the process has exited); each `.cfg` says why. It is on
for `SocketListen`.

## 5. Proofs

Every invariant that a passing run checks, and the refinement
`ImplementsConnSpec`, is also a theorem, for every value of the constants. The
named assumptions on constants (`MailboxAssumption`, `ConnTableAssumption`, and
so on) say no more than the types and ranges of the code: in particular a
command line (`CommandLines`, `BuildLines`) is any finite sequence of arguments,
of any length. Some theorems have a hypothesis of their own, `NoReuse`,
`OneEnder`, `OneNumberPerID` or `NoDecoy`, defined next to them; without it TLC
finds their properties violated on an instance.

**Mailbox** (any number of producers, sizes and limits)

* `TypeCorrect`: it contains that `notify` never holds two tokens.
* `WakeupKept`: `NoLostWakeup` is inductive together with `TypeOK`. An `Enqueue`
  leaves its producer at "notify", which is what the invariant asks for; only
  `Notify` takes the producer away, and it leaves a token; only `RecvWake` takes
  the token, and it leaves the select; and the guest enters the select only from
  an empty queue, in the same critical section (`RecvEmpty`).
* `CapHolds` (`EventsWithinLimit`): `Pushed` preserves `WithinLimit`, and a tail
  of such a queue has it too.
* `OrderKept`, `PushesAccountedFor`: about the sequence of what was received and
  what is queued. An event either moves from the head of one to the end of the
  other, or joins at the end with its producer's next number (`Numbered`).
* `StepsImplementMailboxSpec`: every initial state is one of `MailboxSpec`, and
  every step one of its steps or a stutter. `FoundWaiting` is what it needs: a
  `recv` that found an event does not end in a timeout.

**ConnTable** (any number of connections, chunks, ids, any mailbox and shutdown)

* `TypeCorrect`, and `NeverGivenTwice` (`NeverRebound`): `allocID` ends and gives
  a free id, also when ids wrap any number of times, since there are fewer
  entries than ids other than 0 when `Accept` is allowed (`AllocIDIsFree`).
* `NoMixUpHolds`, under `NoReuse == MaxConn < IdMod` (fewer connections than
  ids). `Places` says at which step each goroutine may be; `Fresh` that the n-th
  connection has id n, under which every event of it is queued, and that nobody
  but its reader acts on it before its established event is out.
* `NoLeak` and `Reclaimed` (`NoConnectionLeaks`, `GuestStateReclaimable`), under
  `OneEnder == NoReuse \/ ~GuestWrites`. `Agree`: until the shutdown every entry
  belongs to an open connection whose reader will still end it, every open
  connection has its entry or somebody about to close it, and who ends a
  connection has deleted its entry. `Reclaimable`: the closure of every id that the
  guest knows, or will know from an event already queued, is in the queue behind
  it, or still to be pushed, which no cap prevents.
* `EventsInOrder` (`ImplementsConnSpec`), also under `OneEnder`: the refinement,
  step by step. `Numbered` says that chunks are queued in the order of reading,
  `EndsInOrder` that nobody acts on a connection before it has begun, ends it
  a second time, or reads from it after the end. With ids that do not wrap it
  follows from `EndsOnce` (one goroutine ends a connection, with its socket closed
  and its entry gone); with a guest that does not write from `ReaderEnds`.

**SocketListen** (any number of processes, starts and crashes)

* `TypeCorrect`; `SerialStartReachable` and `SerialStartSucceeds`
  (`ServerReachable`, `NoStartFails`). Neither is inductive. The strengthening is
  `IInv`: without overlap `Serial` holds (no two processes are starting at once,
  and the file is gone between removal and bind), and without a full backlog
  `Reached` does too (nobody serves while a start-up is past its dial, and a
  process at "listen" or serving is the one the file leads to). The history
  variables never become false again (`HistoryLasts`), so that a step that ends
  without overlap began without it.

**Messaging** (any destinations, socket buffer, number of messages and crashes)

* `TableExact` (`TableMatchesSockets`): `Sockets` ties together, for every
  connection, the table's entry, both ends of the socket and the reader.
* `FramesWhole` (`FrameIntegrity`): `Addressed` says that all that is in a stream,
  in a reader's hands or in a mailbox was sent to the ID that the connection leads
  to, which `TableExact` gives at the write. `Framing` says that what a reader has in hand,
  followed by what is in the stream, is a sequence of frames in the order of
  sending, unfinished at the end exactly while the sender is between the two
  `Write`s of a frame, or has closed its end there.
* `OrderKept` (`SenderOrder`), under `OneNumberPerID` (no two numbers with one
  ID). `OneReader`: no receiver reads two connections, and while the sender lives
  it has not closed one that is still read; `Ahead`: what has arrived was sent
  before all that is under way.

**RateLimit** (any number of callers, any interval)

* `HitsAccountedFor` and `RateKept`. `IInv` adds that the line in progress
  belongs to the holder of the mutex (`Exclusive`) and that the lines begun are
  paced by the clock readings they carry, not by the clock (`Paced`), since a
  reading may be used late.

**HostABI** (any width of words, memory size, pointers and lengths)

* `OnlyNamedBytesWritten`, `AnswersDecode`, `MaxFrameSuffices`,
  `ValidCallsServed` (every memory but the one whose `Size()` is 0),
  `WholeFramesLeave`. Each function returns in one step, so
  that the invariants (`Called`, `RecvOutcome`, `ReadOutcome`) say what a return
  was computed from; the work is in the lemmas on words that wrap and on the
  signed reading of an unsigned one (`Widths`, `I32`, `TooSmallCodeIs`).

**Stamp** (any base binaries and modules, any sequence of finished and
interrupted builds)

* `FinishedBuildsRun`: a file whose last build was finished yields the module of
  that build. The lemma `RoundTrip`: what `stamp` writes, `ExtractWASM` finds.
* `CutBuildsRefused` (`IntactOrRefused`), under `NoDecoy`: no cell of a module is
  a footer whose numbers fit its place. `Partial`: what a build that was cut short
  left is a beginning of an output that lacks at least the footer. Without the
  hypothesis it is false: a module made in this way and cut just behind that
  cell is a stamped file.
* `BuiltForTarget` (`BuiltAsAsked`), for command lines of any length.

**Sandbox** (any command line, executable, exit code, size and integer width)

* `ExitsClean` and `TimeoutReported` (`CleanExit`, `TimeoutCodeHonest`).
  `Stages` relates where `run()` is to what it holds and what the guest does;
  `Settled` relates how the guest ended to the exit code, from the moment the
  code is fixed to the exit.
* `OnlyWhatWasAsked`, `EachDestKept`, `MemoryAsAsked` (`LeastPrivilege`,
  `NothingOverwritten`, `LimitHonoured`). `Accepted`: what the guest runs with is
  what `parseArgs` returned for the command line given and `validate` accepted.
  The rest is about `parseArgs`: `OptionsParsed`, after any number of arguments
  every grant, mount and address in the options has an argument that asked for
  it, and every destination given is there. `SetKeeps` shows it of each `Set`
  method, `VolumeRead` and `AddressRead` that what is parsed loses nothing of
  what was written. `PagesEnough` is the arithmetic of `MemoryLimitPages`.
* `BuildsOnly`: a process does not touch its own file, so that every behaviour of
  `Sandbox` is one of `BuildSpec` and the theorems of `StampProofs` hold of it.

**Induction over data.** The library's induction theorems take an operator as a
parameter, which the provers here cannot instantiate. Where a proof needs
induction over a number it takes the least element of the set of counterexamples
instead (`LeastNatural`, from the well-foundedness of the naturals for sets),
and shows that its predecessor is one too (`UpTo`). In this way `ArgFoldExists`
and `BuildFoldExists` show that the recursive function behind `FoldLeft` exists,
and `ArgFoldSteps` and `BuildFoldSteps` that it takes one `Set` per argument.

**Only model-checked**: liveness (the fairness half of `ImplementsMailboxSpec`,
`HangUpAnnounced`, `NameServed`, `SendReturns`, `HitReturns`,
`TimeoutEndsProcess`), since TLAPS has no backend for fairness with ENABLED.

## 6. Not modelled

* `resolveSocketPath`: joins two environment variables and the ID to a path, once
  and without state. The models take one path per ID; processes whose
  environments differ do not meet, which nothing in the code could notice.
* `-q`, the usage and licence texts, log wording; `finalOutputPath`, which only adds
  `.exe` to the name of the output; `RegisterHostModule`'s wiring.
* Guests that write to connection ids they have not seen in an event: `WriteLookup`
  draws from the ids seen. With a guessed id a closure may be announced before
  its start.
* The other direction between two sandboxes. `Messaging` has one sender and several
  receivers; two sandboxes that send to each other are two such instances that
  share only mailboxes. They cannot wait for each other: a reader goroutine never
  calls `Send`, and a push into a full mailbox drops, so that `SendReturns` of one
  direction does not depend on the other.
* File system errors of `os.Remove`, a host directory that disappears after
  `validate` looked at it (wazero then reports it to the guest).
* Tests, examples and documents, which are not part of the program.

## 7. Plan

Done, in this order: `MailboxQueue`, `MailboxSpec`, `Mailbox` with proofs;
`ConnTable`; `SocketListen` with proofs; `Messaging`; `RateLimit` with proofs;
`HostABI`; `Stamp` with a proof, `Policy`, `Sandbox` with proofs; then `FlagSet`,
`Options` and the whole of `Policy` and of the build tool's options joined to
`Sandbox`; backlogs, acceptors that fail and waiting for the mutex; `ConnSpec`; all
functions in `HostABI`.

Then the proofs of every safety invariant of the passing runs and of both
refinements' steps (section 5).

Next, proofs:

1. `Options`: that the values not about privileges (`-e`, `-t`, `-b`, `-f`) are
   the last ones given and inside the ranges `validate` allows.
2. `Messaging`: that it is safe as seen from one destination, by an abstract
   specification of a lossy channel that keeps order.
3. `ConnTable`: which part of `NoMixUp` remains when ids wrap.
