# RS2ServerFix: TLA+ models, checks and proofs

RS2ServerFix is a DLL that a dedicated game server loads at startup. A small
bootstrap forwards a genuine system DLL and loads the companion; the companion
corrects one operand of the host's code (the recon fix), may observe and report
the server's Steam calls, and may, on one explicit request, recover a Steam
session the game has lost (the leech recovery). Everything it does runs inside
somebody else's process: on the game's own thread, inside its calls, next to
worker threads of its own. What can go wrong is therefore seldom one function
computing a wrong value; it is an order of steps of two threads, a native call
that fails or throws halfway, or a deadline that passes while an answer arrives.

This directory models those parts in TLA+, checks them with TLC and proves some
of the results with TLAPS. Paths below are relative to the repository's
`src/`.

## Inventory

| Component | State | Operations | What is hard | What makes it correct |
|---|---|---|---|---|
| Report transport (`companion/steam_reporting_{records,pipeline,worker,native_log,receipts,status_v3}.cpp`) | ring of records, ready frames, receipt ledger, sticky status, logger epoch | owner: enqueue, log a frame, pause, resume, publish; worker: dequeue, format, acknowledge, scan, publish | two threads without locks; the logger is somebody else's; a receipt is read from a file | a record is called received only when its line is in the file; the transport loses nothing by itself; counters never run ahead or back |
| Reporting runtime (`steam_reporting_runtime.cpp`, `_forward.cpp`) | capture credit, source and binding epochs, pause state | pump, builder capture, refresh, anchor | three users of one credit; stale sources | credit is conserved; no resume before the pause has drained |
| Recovery control (`leech_recovery_control.cpp`) | latch, stop, result, registration | pipe worker, console claim, owner release, stop | compare-and-swap races, blocked pipe I/O | one claim at a time; closing only for a cause; stop ends it |
| Leech recovery (`leech_recovery.cpp`, `_console.cpp`) | attempt, records on reserved credit, what was done to the game | one visit per pump; callbacks from the game | native calls that throw, repeated or nested callbacks, two deadlines, retry | native effect at most once; no leak; suspended or told to restart; clean retry |
| Recon fix (`recon_fix.cpp`, `companion_init.cpp`) | image bytes, protection, caches | patch transaction and rollback | every call may fail with or without its effect | the host never runs with an uncertain image |
| Observer (`steam_observer*.cpp`) | gate, import cells, lifecycle word, bindings, event queue | install, commit, roll back, wrapped calls, writer | calls racing the installation; foreign hooks | armed only if nothing slipped through; never a foreign hook overwritten |
| Recovery status block (`leech_recovery_wire.cpp`, `shared/leech_recovery_snapshot.cpp`) | header, sequence word and payload | publish, read | external reader without a lock, word by word | a read returns a payload that was current during the read; a healthy block is never called invalid |
| Reporting status block (`steam_reporting_status_v3.cpp`, `shared/steam_reporting_snapshot_v3.cpp`) | two regions with a sequence word each, latches, gates | owner and worker publish, any thread revokes, a reader reads | two writers against each other and a reader | a coherent snapshot is a consistent cut; "ready" was ready |
| Producer (`steam_reporting_state.cpp`, with `_runtime.cpp`) | pending request, witness, fresh counts, epochs | stage, observe, read, select | the game computes, travels, asks and resets beside it | a selected count was computed for the current source after the request, and is fresh |
| SDK lifecycle (`steam_observer_dispatch.cpp`, `steam_reporting_runtime.cpp`) | lifecycle word, the runtime's view of Init | Init and Shutdown on any thread | a foreign call that crosses the owner's Init | trusted only after exactly one successful Init |
| Callback frames (`steam_reporting_forward.cpp`, `_runtime.cpp`) | frame stack, depths, one pending interval, counters, watermark | enter, leave, unwind, publish | nesting, unwinding, a failing clock | own time counted once; the watermark never passes an open call |
| Callback timing (`leech_recovery_policy.cpp`) | segment, own time, validity | claim, native call, filter, unwind, finalize | filters in either segment, endpoints that lie | own time is exact or not reported |
| Proxied calls (`steam_observer_dispatch.cpp`) | shared counters, last answers | count, forward, complete | two threads per word, saturation | ids unique, counts exact, a change is told |
| Task binding (`steam_reporting_task.cpp`) | identity of the bound slot, phase, fault | install, validate, retire, undo | the slots are the game's; foreign hooks; reused numbers | our pointer is in no slot but the bound task's |
| Quiescence (`steam_reporting_transport.cpp`) | request mailbox, witness words, stop | request, arm, stop, ask; worker: read, qualify, publish | two mailboxes of several words without a lock | a yes means at rest; a path is qualified only as it was asked for |
| Reporting console (`steam_reporting_console.cpp`) | two channels, the last sample, counts | sample, select, supersede, attempt | blocks that change meanwhile, a console that refuses | terminal notices are told; what was skipped is counted |
| Resolver (`bootstrap/genuine_resolver.cpp`, `forwarder.cpp`) | a once, a fallback record, references | resolve, publish, lose, forward, release | concurrent callers, none of which may wait | no reference lost or leaked; the call returns although others stop |
| Bootstrap and startup (`bootstrap/*.cpp`, `companion_init.cpp`, `steam_reporting.cpp`) | the one attempt, the companion's lease, the stage of the reporting | load, judge, initialise, reject | failure at any stage, the process killed | whole or gone; the host's call comes back |
| Marker, console line (`marker.cpp`, `console_status.cpp`) | the file, the fallback, the line | create, write, flush, close, remove | partial failure, kill | no accepted marker before the correction is certain |
| Inventory tool (`tools/runtime_inventory*.cpp`) | lists, files, finding, status read | enumerate, identify, hash, read status | everything it looks at moves | what it accepts was so at one instant |
| Native readers, profiles, parsers, hashing, formatting | none of their own | pure | byte layouts | left to their tests |

The components meet in four places. The pump of the server's main thread calls
the logger service, the runtime's management, the recovery's visit and the
status anchor, in that order, and all of them draw on one credit of ring slots.
The receipt worker shares the ring, the ready queue and the status words with
that thread. The control endpoint's worker and the console command share one
latch with the recovery. And the recon fix decides at startup whether observer
and reporting are started at all. Two readers live outside: the console worker
and the inventory tool read the status blocks the others publish.

## Modules

| Module | Models | Composed of |
|---|---|---|
| `ReportTransport` | owner thread, worker thread, logger and log file of the report transport, with the capture credit of the runtime | |
| `Quiescence` | the transport's life, its request mailbox and the quiescence words | |
| `StatusBlock` | the reporting status block, its two publishers and a reader | |
| `Producer` | the player count request beside the game | |
| `TaskBinding` | the redirected builder of the game's task | |
| `SdkLifecycle` | when the runtime may trust the SDK | |
| `CallFrames` | the wrappers' frames and the measurement of their own time | |
| `LeechControl` | the control endpoint; also the abstract specification of what the recovery's owner may do to it | |
| `LeechRecovery` | the recovery's owner thread, the game's callbacks, clock and transport gate | `INSTANCE LeechControl` |
| `CallbackTiming` | own time inside the recovery's primary callback | |
| `AtomicStatus` | abstract: a block that is published and read in one step | |
| `RecoveryStatus` | the recovery status block, word by word | `INSTANCE AtomicStatus` |
| `ConsoleNotice` | the console worker between the status blocks and the console | |
| `ObserverInstall` | the installation transaction of the observer, its gate, calls that race it, foreign hooks | |
| `ObserverDispatch` | the armed observer: lifecycle word, factory, binding table, lookups | |
| `ProxyCalls` | the typed proxy methods, their counters and what they tell the log | |
| `EventLog` | the observer's event queue, the writer thread, the file with its limit and footer | |
| `ReconFix` | the patch transaction | |
| `Startup` | bootstrap, companion initialisation, marker, console line, staged start of the reporting | EXTENDS `ReconFix` |
| `GenuineResolver` | concurrent resolution of the genuine library | |
| `Inventory` | the runtime inventory tool beside the process | |
| `ReportTransportProofs`, `LeechRecoveryProofs`, `EventLogProofs` | theorems | EXTEND their component |
| `LeechControlProofs` | theorems about the control endpoint and the console worker | EXTENDS `LeechControl`, `ConsoleNotice` |
| `StatusProofs` | theorems about both status blocks | EXTENDS `RecoveryStatus`, `StatusBlock` |
| `StartupProofs` | theorems about the startup with its transaction, the resolver and the inventory | EXTENDS `Startup`, `GenuineResolver`, `Inventory` |
| `ObserverProofs` | theorems about the installation, the dispatch, the proxied calls and both measurements of time | EXTENDS `ObserverInstall`, `ObserverDispatch`, `CallFrames`, `ProxyCalls`, `CallbackTiming` |
| `ReportingProofs` | theorems about what the reporting's owner relies on: Init, task, producer, quiescence | EXTENDS `SdkLifecycle`, `TaskBinding`, `Producer`, `Quiescence` |
| `MCReportTransport`, `MCLeechRecovery` | sets of disturbances and hazards for the runs | EXTEND their component |
| `MCLeechControl`, `MCStartup`, `MCStatus`, `MCObserver`, `MCReporting` | the components of one part of the system, one at a time | EXTEND them |

The five modules of the last row put components that share no state into one
run. Their variable `part` is chosen at the start; a behaviour goes through the
component it names while the others rest in their initial states, so a run
explores each component whole and never their product. Each component keeps its
own specification, which is what the theorems are about.

### ReportTransport

Owner and worker are two processes with a program counter each (`opc`, `wpc`);
every read or write of a shared word is a step, and a region published under an
odd/even sequence is read as one value (the reader retries or gives up, as the
code does, with the disturbance "race"). A record is its sequence number and a
frame a ticket with a number; the text of a line does not matter, only whether
the file holds that line, another one or none. `disturbed` is history: the
environment mistreated a line or the file. The logger may buffer (`FlushLine`), and
with the disturbances of the run drop, double, garble, suppress or throw; the file
may be unreadable for a while, or become a shorter or another one for good (`cut`).
The sticky words are kept apart as the status block has them: `faults` are the masks,
`fatal` is the reason that the first `LatchTransportFault` swaps in, `reason` the
owner's own copy of it and `owner.reason` what the readers see. The owner (an unsafe
profile, a logger that throws) and the worker (a gap, a cut file) each report in two
steps, the swap and then the mask of their own reason, so that the other one's report
may come between. The owner's pump goes through service, refresh, manage, recovery, anchor and publish
as `AfterPump` does.

### LeechControl and LeechRecovery

`LeechControl` takes the interlocked operations as its grain: what the code
decides from one and does in a later one are two steps. The owner is abstract
there: it serves a claimed request and releases or spends it. `InitializeControl`
is one step, since nobody else knows the endpoint before it; what its stages may
answer (`AdministratorIdentity`, `ReadBounded`, `ParseControlConfig`,
`PreparePipe`) is a set each, and any of them but "Ready" leaves it refused for
good. `LeechRecovery`
holds the whole owner and has the endpoint's steps as `ControlSteps`; its
property `ImplementsControl` is `LeechControl`'s specification, under the
identity mapping of the endpoint's variables and the owner's view that the
recovery maintains. One visit (`rpc`) runs through the phase of the attempt; the
recipe's native calls are steps of their own, each with the outcomes returns,
refused, throws. `v` is the attempt as it would be published (phase, flags,
fault, queued records), `nat` what has been done to the game, `recipes` and
`forwards` are history. Time is `late`: before the Finish deadline, past it,
past the attempt's.

`StopControl` is an action of the endpoint although the running program
never calls it (tests do); the recovery has therefore no counterpart for it
beyond `ControlSteps`. A request whose deadlines the clock has no room for is
refused at once, and stays in the phase it was met in. Left out of `LeechRecovery`: a
clock that fails inside the flush of records, and a refused publication of the status
block. `PublishRecoveryStatus` refuses an invalid payload, which `PayloadValid` shows
not to arise, a block without a header, which is never handed out, and a sequence of
64 bits that is used up.

The owner's claim in `LeechControl` and the recovery's in `LeechRecovery` are
the same; so by `ImplementsControl`, which a run of the recovery checks and
`LeechRecoveryProofs` proves for all bounds, the real owner does nothing the
endpoint's proofs do not allow for.

### ReconFix and Startup

Each call of `ReconOps` may fail with or without its effect and may claim
success without it. A read tells the truth or fails, so a check that passes
proves its fact. `fetch` is what a processor may still execute: a write
adds a version, a flush leaves only what memory holds. `Startup` goes on from
there: `place` is where the host's call is, from `X3DAudioInitialize` through
the loading of the companion, the judgement of the modules and of the host's file
(`JudgeModules`, `AcquireHostHash`, either of which may disable the correction) and
the recon fix (steps of `ReconFix`), to the marker, the console line and the stages
of `StartReporting`. Beside it
run the reporter thread and the reporting's worker once armed. The process may
be killed anywhere; files stay. A marker is its verdict, whole or in part.

### ObserverInstall and ObserverDispatch

`ObserverInstall` is the startup thread (`pc`, `next` the cell it is at) against
any number of calling threads and foreign hooks. The cells lie in one page with
one protection; a system call may fail with or without its effect and a
verification may fail for causes of its own (lease, profile). A scan of
`ProtectedCells` reads one cell per step, since hooks may come between. Calls
are modelled up to the answer of `Admit`; `missed` is history.

`ObserverDispatch` is what the wrappers do once the gate is armed. The lifecycle
word is a record of its two halves, and the lock-free reads around the locked
accesses to the binding table are steps of their own. The native calls' results
are inputs. `crossed` is history: an Init or Shutdown was in flight between the
first and the last read of the word. Addresses come back in later lifecycles.
Left out: the counters and events written beside these steps (the event queue is
`EventLog`); the wrapped interface methods are `ProxyCalls`.

### EventLog

`EventLog` is `Publish` on any number of threads against `WriterThread`, for the
observer's own log (a `Writer` without `reportStatus`). `lock` is the queue's
lock, `ppc` a thread's place in `Publish` and `wpc` the writer's in `Pump`,
`AbandonQueue` and `Terminal`. The status is a word of its own that the writer
changes without the lock, so the second look at it and the insertion are two
steps under the lock. The file is a sequence of lines, each an event with its
number, a mark (startup, anchor), a footer, or a line cut short; lengths are
chosen freely up to the buffer's size. A write appends the line, or fails after
any number of bytes, or reports more than it was given. `noticed` holds the
console notices asked for, each of them once; `offered` is history. `StartObserver`
arms the writer or stops it, never both. It begins with the qualification done
(`installed`): `PrepareWriter` opens directory and file and starts the thread, or
leaves no log at all; `InstallObserver` arms the gate or declines; and only from an
armed gate does a wrapper offer an event, the writer's arming still before it or
already past. Left out: how directory and file are opened, which is one step here,
the tokens, and the reporting mode of the same file, which only tests compile.

### ProxyCalls, CallFrames and CallbackTiming

Three measurements. In `ProxyCalls` every load, compare-and-swap and exchange of
a shared counter is a step of the calling thread; a call that an exception
passes through stays uncompleted, as in the code. The reader of the counters,
`SnapshotCounters`, calls itself not atomic and is not modelled.

`CallFrames` has the owner's frames as a stack. A stretch of own code is one
step, since nothing re-enters it; which reading of the performance counter fails
is chosen. A frame keeps the counter's value it was entered at and the one its native
call began at, as the code does, and its own ticks are computed from those readings on
leaving (`NativeTicks`); `own` beside them is history, the stretches as they were
spent, and that both agree is what the invariant `ReadsOwnTime` proves. `Accounted`, `ConsumeRuntimeDuration` and `StageRuntimeDuration` are
functions of the measurement record, and `spent` is history. The performance
counter is assumed not to run backwards; what a saturated depth or counter does
is modelled.

`CallbackTiming` drives the policy's functions as `CreateSuccess` does: claim,
native call, nested callbacks, filters that accept or decline, unwinding. A
clock reading may be missing or run backwards; `own` is history, what a perfect
clock would have counted.

### SdkLifecycle, TaskBinding, Producer and Quiescence

What the reporting's owner thread relies on. In `SdkLifecycle` the observer's
word and the runtime's decision (`InitEntered`, `InitReturned`, `InitFinished`)
meet calls of other threads at every read. The gate is armed, the owner is in at
most one such call, and its clock does not fail.

`TaskBinding` has the game's task table as the environment: slots are reused,
the task numbers wrap (`life` is the one that does not, and the code does not
see it), another module may hook the builder, and any read may fail. A count that
`ReadBoundTask` accepted is kept also when the binding is then retired because its
source has gone. `stranded`
is the code's own word that its pointer may have stayed behind. Fewer tasks than
the counter has values are created between two reads the code accepts: with a
whole turn of the counter unseen it could not tell an old task from a new one.

`Producer` has the game's producer as the environment (`Tick`, `Consume`,
`Travel` and the rest) and the owner's pump and builder as the actors. What else `Observe`
asks of a sample before it believes that the request was consumed (that the game's
object is not dirty, its counts are in range and its maximum the old one) is one free
truth value, `plain`. Nobody
tells the code when the game computes; `computed` is history. The property is
about the game as the code may read it: a step after which the two words do not
belong to what the game did is recorded in `disturbed`.

`Quiescence` is what `ReportTransport` leaves out of the transport: arming and
stop, the request an owner writes word by word and the worker reads with
retries, the qualification of its path, and the witness of rest the worker
publishes and the owner judges. Any thread may publish the stop, the owner's question
being open or not. A record is only its place on the way to the
file here. The overflow that latches `quiescenceFailed` is left out.

### StatusBlock, RecoveryStatus and ConsoleNotice

`RecoveryStatus` and `StatusBlock` have each load and store of a word as a step;
the words of a region carry values enough to see a torn one. `AtomicStatus` is
the abstract block; `RecoveryStatus!ImplementsAtomic` is its specification under
the mapping in which the current value is the payload published last and the
window is every payload that was current since the read began. It also says that
a read of a healthy block never answers that it is invalid. `StatusBlock` has no
such abstraction, as its reader promises less: `SnapshotIsHonest` says what a
coherent answer is worth. The identity line of the log and the console's
sequence word are left out.

`ConsoleNotice` is the console worker over both blocks, with a clock, a console
that may refuse, clocks that fail before the sample or at the attempt itself, and a
stop. A notice is its kind; the wording of its line and
`ScheduleReportingDisabledNotice` are left out, and so is the failure of formatting a
line: it needs a reason outside its enumeration, and the reader of the snapshot has
refused the block before that.

### GenuineResolver and Inventory

`GenuineResolver` runs `AcquireGenuineX3Audio` and `PublishPrivateSuccess` on
concurrent callers, one interlocked operation or call a step; `references` is
the loader's count. A caller that finds no library ends the process.

`Inventory` is the tool's run beside a process that loads, unloads, replaces
files, publishes and exits between any two of its steps. A file is an identity
and whether it is the one wanted. Enumerating the module list is one step (the
system's call is one), a file rewritten in place keeps its identity and is not
modelled, and nothing is followed after the report is written.

## Runs

Every run but `leech_recovery_stranded` passes. `CHECK_DEADLOCK FALSE` stands
where the modelled part really may stop: an endpoint whose worker ended, an
attempt that is spent, a transaction that returned, a log whose writer ended, a
sequence that is used up. The transport's pump never stops, and its runs check
deadlock.

| Run | Shows | Bounds |
|---|---|---|
| `report_logger` | `NoSelfInflictedLoss`, `WireIsTrue`, `FirstReasonStands` with a logger that may drop, double, garble or throw or be found unsafe, a file that is unreadable for a while, a stop, and reads that give up | ring of 2 with one slot for control records, so that 3 records wrap it; 2 ready frames, 2 frames per service, 3 records (the counter's largest value, so its exhaustion happens), 1 logger epoch |
| `report_recovery` | `CreditConserved`, `ResumeIsDrained` with the recovery as a third user of the credit, a logger that is suppressed or replaced, a file that is cut short | ring of 3, so that 4 records wrap it; 2 epochs |
| `report_live` | `RecordsArrive`, `FrameHeldDuringCall` with a revocation from elsewhere, a failing clock of the worker and a stop, in any order | 2 records, bursts of 2, a single ready frame (so that the next record waits for it) |
| `control` | `ServedClaimHeld`, `EndpointClosesForCause`, `StopIsFinal` with the console, in schema 2; `TerminalIsTold` of the console worker | endpoint finite; 3 changes of the status blocks (a normal notice, one that supersedes it, and a terminal one) |
| `leech_recovery_hazards` | `NativeOnce`, `CancelledStaysSuspended`, `NothingLeaks`, `RestartTold`, `SelfSufficient` with calls that throw, foreign faults, unsupported hosts, clock faults, pauses and revocation | 9 records per recipe (the code's), 2 requests |
| `leech_recovery_console` | `RetryIsClean`, `ImplementsControl` with console and pipe | same |
| `leech_recovery_live` | `AttemptEnds`, `PipeClaimConsumed` | same |
| `leech_recovery_stranded` | a violation of `ClaimConsumed`, see Findings | same |
| `startup` | `CertainImage`, `MarkerIsTrue`, `WholeOrNothing`, `CallsReturn`, `ReferencesOwned`, `InventoryWasTrue` | 2 calls of the host (the second finds the attempt spent), 2 callers of the library (a winner and a loser at each of the three places of publication), 2 modules, 2 attempts of the inventory's 3 and 3 changes (both attempts can be spoiled) |
| `observer` | `AllOrNothing`, `RespectsTheHost`, `BoundIsCurrent`, `OneVerdict`, `TimeConserved`, `ChangesAreTold`, `ExactOrNothing`, `EventsAccounted` | 3 cells (the number without the server's pump); 2 threads, 1 object (so that each lifecycle reuses its address), 2 users, 2 bindings, word halves up to 2; 3 frames with a depth limit of 2 (so that a depth fills), counters full at 1; 2 calls per method with a counter full at 3; 2 callbacks with 3 filters; a queue of 3, batches of 2, 4 events and a file of 7 with a reserve of 3 (so that queue, batches, pump and file each run out) |
| `status` | `ImplementsAtomic`, `SnapshotIsHonest` | 2 words a region (enough to tear), 3 attempts of the recovery's reader (the code's) and 2 of the reporting's, sequences up to 12, so that each attempt can meet a publication of its own, and 4 |
| `reporting` | `OneInit`, `BindsOneTask`, `SelectsFresh`, `QuietIsQuiet` | owner and one foreign thread, word halves up to 3; 2 slots, taken up to symmetry (the properties of the run say nothing that tells them apart), 4 tasks whose numbers wrap at 3, so that the third one's is zero (which the code refuses), the fourth one has the first one's number again, and the second one can be newer than the bound task and still known; 2 time units with a freshness and a floor of 1, 2 requests, 2 epochs; 1 record, 2 requests of the mailbox, 3 worker cycles |

The bounds are small, yet each reaches its case: a ring fills, reaches its control
reserve and, in `report_logger` and `report_recovery`, wraps; two ready frames are enough for one to be
formatted while the other is logged; two requests are a retry and its
successor; two epochs are a pause with a change of logger. Records are
distinguished by their numbers only, so more of them repeat what a wrap of the
ring shows. Of a file of seven units three are the footer's, and two events fill the rest.

What the combined names stand for: `WireIsTrue` is the type invariant, that a
counted line is in the file, and that counters are published in order;
`SelfSufficient` the type invariant, the credit of a recipe and the readers'
cross-field test; `RestartTold` includes that a published recovery is not undone;
`AttemptEnds` that the capture credit comes back; `StopIsFinal` that stop ends
the worker and seals the latch; `MarkerIsTrue` that result, marker and console
line tell one story; `EventsAccounted` that every event is counted, the file is a
gapless prefix and the end is final; `RespectsTheHost` that no racing call is
missed and no foreign hook overwritten. The modules state the parts one by one.

### Fairness

- `ReportTransport`: the server keeps pumping (weak fairness of the owner), its
  service falls due every quarter second and the rate window slides, so a due
  pump and a waiting frame are not put off for ever (strong fairness of
  `BeginPump` and `SubmitFrame`); the worker polls on its own thread, and since
  each publication of the owner is short it does not meet one at every read
  (strong fairness); the logger writes out its buffer.
- `LeechControl`: the worker thread is scheduled (weak fairness).
- `LeechRecovery`: a visit that is possible again and again happens (the pump
  calls it each time), the clock runs, a console command that began ends.
- `Startup`: the startup thread runs.
- `GenuineResolver`: one caller runs; the others may stop anywhere, which is what
  `NeverWaits` is about.
- `ConsoleNotice`: the worker and the clock run. That a status is not busy at
  every sample, that the recovery's block is coherent when read again and again,
  and that the console does not refuse every line are assumptions on the
  environment (strong fairness of `Sample`, `BeginCycle`, `WriteOk`): a console
  that refuses for ever is told nothing, and the code promises no more.

### Findings

`leech_recovery_stranded`: in the retry state the owner leaves a visit when
`ReadLatchedControl` refuses the latched value (`companion/leech_recovery.cpp:837`).
A console command whose reply unwinds withdraws its registration
(`leech_recovery_console.cpp`, `InvokeReply`) while its claim stays in the
latch; from then on every visit refuses it and returns, so the claim is neither
accepted nor consumed. The comment at `companion/leech_recovery.cpp:761-763`
says of the reader: "either accepts the immutable claim or consumes an invalid
value visibly; do not strand a nonzero invalid claim in Armed forever". In the
first attempt the code does so; in the retry branch it does not. For a pipe
claim the property holds (`PipeClaimConsumed`).

## Proofs

| Theorem | States | Argument |
|---|---|---|
| `ReportTransportProofs!Invariant` | the inductive invariant | ring, ledger and ready queue are three windows of one sequence of tickets; owner, worker and published watermarks are positions in it, and the file is tied to that sequence from both ends: by what was submitted and by what was observed |
| `ReportTransportProofs!WireTruth` | `WireIsTrue` | what was observed was found in the file, and the published counters are read from positions in order |
| `ReportTransportProofs!CreditIsConserved` | `CreditConserved` | from the invariant: slots taken and slots promised add up to no more than the ring |
| `ReportTransportProofs!FrameIsHeld` | `FrameHeldDuringCall` | the head of the ready queue moves only after the call |
| `ReportTransportProofs!BlamesNobody` | `NoSelfInflictedLoss` | every place that latches a fault follows a comparison that the windows make true, unless a line was mistreated |
| `ReportTransportProofs!ResumesDrained` | `ResumeIsDrained`, an action property | from the same invariant, action by action |
| `ReportTransportProofs!FirstReasonKept` | `FirstReasonStands` | only an empty word is swapped, and the mask that goes with a swap is owed by a thread at one place of its own (`Marking`), which no stop and no requalification leaves unpaid; what the owner shows was read from the word after it was set |
| `StatusProofs!BlockInvariant` | the inductive invariant | an even sequence names one publication, so two reads under the same number saw the same words and nothing was published between them |
| `StatusProofs!HonestSnapshots` | `SnapshotIsHonest` | the two reads of the owner's region enclose the worker's, which makes the cut; the writers keep their publications in agreement, so what the reader tests holds; an open gate means that no pause is published, so a snapshot called ready was ready when the gate was first read |
| `StatusProofs!TypeCorrect` | the types and the inductive invariant | what ties each word read to the publication it came from |
| `StatusProofs!Implements` | `ImplementsAtomic`, the refinement of `AtomicStatus` | the writer's last store publishes, an answer is a payload of the window of those current since the read began, every other step stutters |
| `LeechControlProofs!TypeCorrect` | `TypeOK` for both schemas and both console settings | inductive by itself |
| `LeechControlProofs!ServedClaimIsHeld` | `ServedClaimHeld` | the latch changes only from "None" by a swap or by the owner's release; an owner that serves is between reading the latch and that release |
| `LeechControlProofs!ClosesForCause` | `EndpointClosesForCause` | strengthened by what the worker's local verdict may be at each place: a failure verdict is only formed after something was spoiled |
| `LeechControlProofs!ExclusiveClaims` | `ClaimsAreExclusive`, an action property | from the same invariant, action by action |
| `LeechControlProofs!SealedByStop` | `StopSeals`, the safety half of `StopIsFinal` | a free latch is taken by a worker before it is gone or by a console that looked before the stop |
| `LeechControlProofs!SkippedAreCounted` | `SkippedIsExact`, the safety half of `TerminalIsTold` | a line is only chosen from a channel that waits, and written only after it was marked as attempted, so that each selection leaves what is owed once: by its first attempt or by its successor |
| `LeechRecoveryProofs!RecoveryInvariant` | the inductive invariant | below |
| `LeechRecoveryProofs!OneRecipe`, `BindingStaysOff`, `NothingStaysLent`, `RestartIsAsked`, `RetryLeavesNoTrace` | `NativeOnce`, `CancelledStaysSuspended`, `NothingLeaks`, `RestartTold`, `RetryIsClean` | from it |
| `LeechRecoveryProofs!NeedsNoHelp` | `SelfSufficient` | from it: at most eight records are owed at any time, and nine are reserved |
| `LeechRecoveryProofs!Implements` | `ImplementsControl`, the refinement of `LeechControl` | the identity on the endpoint's variables; the invariant says, at each place of the visit, what the endpoint's owner is doing |
| `StartupProofs!ImageIsCertain` | `CertainImage` of the transaction | strengthened by what each place of the transaction has established of bytes, protection and caches |
| `StartupProofs!StoresInWindow` | `WriteInWindow` | from the same invariant: each store follows a check of the page |
| `StartupProofs!StartupImageIsCertain` | `CertainImage` of the whole startup | the rest of the startup touches neither code nor protection |
| `StartupProofs!MarkerTruth` | `MarkerIsTrue` | one attempt is followed from the loader to the marker: an accepted marker is written only after a transaction whose places establish the correction, and no later call enters again |
| `StartupProofs!LibraryStaysLoaded` (with `ResolverInvariance`) | `ReferencesOwned` | the loader's count is the number of holders: the once's record, the fallback's, and each caller between its own load and its release; at most one caller is writing a record, and a reader sees it only when it is whole |
| `StartupProofs!InventoryIsTrue` (with `InventoryInvariance`) | `InventoryWasTrue` | below |
| `StartupProofs!CompanionIsWhole` | `WholeOrNothing` | strengthened by what each stage of the reporting's start has done and what its failure has undone |
| `EventLogProofs!LogAccountsForEvents` (with `LogInvariant`) | `EventsAccounted` | events in the file, in the writer's hand and in the queue are consecutive as long as the log is open, and each counter takes what leaves them; no line but the footer uses its room, and each place of the writer has its status |
| `ReportingProofs!TrustsOneInit` | `OneInit` | strengthened by how the lifecycle word counts the calls in flight and those before: at the idle word there is room for one call only |
| `ReportingProofs!BindsOne` | `BindsOneTask` | below |
| `ReportingProofs!SelectionFresh` (with `ClaimsStand`) | `SelectsFresh` | below |
| `ReportingProofs!QuietMeansRest` | `QuietIsQuiet` | below |
| `ObserverProofs!TimeIsConserved` | `TimeConserved` | strengthened by: without a gap the depth counters count the frames, so that only the outermost is top-level, by what a frame's readings leave for it (`ReadsOwnTime`), and what waits began no later than any open frame; what was staged always fits, so consuming never fails |
| `ObserverProofs!WatermarkIsHonest` | `WatermarkHonest`, `StagedFits` | from the same invariant |
| `ObserverProofs!InstalledWhole` | `AllOrNothing` | strengthened by what a scan of the cells establishes for good although hooks appear behind it, and by what each place knows of the page |
| `ObserverProofs!NothingMissed` | `ArmedMissedNothing` | a missed call has left the gate where no commit can arm it |
| `ObserverProofs!ForeignHooksKept`, `HostIsRespected` | `ForeignKept`, an action property, and with `NothingMissed` `RespectsTheHost` | action by action: only compare-and-swaps with our own pointers write |
| `ObserverProofs!GivenOutIsCurrent` | `BoundIsCurrent` | strengthened by what the word says between two reads: a call in flight at the first shows in the lower half, one begun later in the upper half, one the word cannot count in the flag; the lower half is the number of threads that own a call |
| `ObserverProofs!VerdictsAreFinal` | `OneVerdict` | a decision is appended only when none is found, under the same hold of the lock |
| `ObserverProofs!CallsTold` (with `CallsInvariant`) | `ChangesAreTold` | a thread's earlier read is never newer than the word, so an exchange that finds the word as read is the next in the order of changes; a count is the number of calls past it unless the word is full |
| `ObserverProofs!CallbackExact` (with `CallbackInvariant`) | `ExactOrNothing` | while no reading was missed, what was measured so far and the open segment's start add up to the time a perfect clock has counted; once one was, the measurement is marked and never reported |

The inductive invariants are defined next to the theorems; the three facts
(initially, preserved, implies) are combined by temporal logic in the last step.
TLC confirmed each of them on a small instance first.

That of the inventory (`InventoryInv`) has one part for what cannot change behind the
tool (`DiskInv`: a number once given to a mapping or a file is not given again, so an
equal number is the same thing), one for each phase of the tool (`CaptureInv`,
`ValidateInv`) and one for the status it reads (`ReadInv`). The two lists of an
attempt are compared with one another; that they are equal, number by number, means
that nothing moved between them, so the list is the truth of an instant between.

The three of the owner's surroundings are about what can be concluded from words
that somebody else writes. The binding's (`BindingInv`) says that a slot with the
wrapper is the bound one or was given back (`OneHolder`), what each place of an
exchange and its reversal knows of the identity (`BindingPlaced`), and that a
binding which gave up with its pointer left behind has said so (`InertTold`). That
a task is newer needs `CounterHeld`: fewer tasks than the counter has values are
unseen, and a count that is no smaller than the last one, and not zero, has not wrapped
at all. So every life the binding has a history of (`HistoryHeld`) is its own number,
and a task that carries the old number in the old slot is the old task.

The producer's (`ClaimsInv`) gives each claim of its state a meaning in the history
the code does not have. A pending request that was seen set was computed since, or
it still waits: the flag stands and the timer does not show less, or one of the two
after the game has misled the code (`PendingTrue`); a
witness was computed since its lower bound (`FreshTrue`); both as long as the source
is the one they were made on. `Carried` is what all steps of the owner have in
common, so that these two are proved once and not for each of them.

Quiescence (`QInvariant`) has two halves. The worker's words are true where they are
written: a copy, and then the witness stored from it, says rest only if all that was
observed is in the file and nothing is being written (`CopyTrue`, `StoredInOrder`,
`WitnessTrue`). The owner's reading is one publication: as long as the sequence is
the even number it began with, each word read is the word stored (`ReadUnder`,
`ReadAsStored`). What joins them is `WitnessInCall`: the ring cannot move while its
owner asks, so a witness that names the ring as it is speaks of a moment of this
call, or is still true. The request mailbox is the same the other way round, with
the worker as the reader (`Mailed`, `Taken`).

The recovery's invariant (`RInv`) has these parts. `Sound` speaks of the attempt
`v` alone (which flags, phase, reason and records go together); every operator
that changes an attempt keeps it, so one lemma per operator serves all places.
`Budget` counts what is still owed: a step of the recipe owes one record, the
end one more, an exception one more, eight at most. That is why
`RecoveryAssumption` asks for a cap of nine and no less. `Places`, `Phased` and
`Lent` say what place and phase tell of the game: which calls were made, what
is lent, what can no longer be given back. A call that fails or throws is
handled once for all calls (`FaultKeeps`, `ThrowKeeps`). `OwnerThread` ties the
visit to the endpoint's owner; it is what the refinement needs.

The assumptions are those named in the modules: `ControlAssumption`, that the
schema is 1 or 2 and the console switch is on or off; `CountAssumption`, that
there is a cell; `DispatchAssumption`, that the threads are finitely many and the
bounds are natural numbers; `FrameAssumption`, that the limits are natural
numbers; `CallsAssumption`, that the threads are finitely many and the full count a
number; `CallbackAssumption`, that the counter's largest value is a positive number;
`LogAssumption`, that the threads are finitely many, the sizes positive and the file
at least twice the footer's reserve; `LifecycleAssumption`, that the owner is one of
the threads and a half of the word can count; `WidthAssumption`, that the task counter
has a value; `ProducerAssumption`, that times and request numbers are natural numbers; `ResolverAssumption`, that the callers are finitely many and none bears
the name of a record; `InventoryAssumption`, that the companion is one of the modules
and there is an attempt; `StatusAssumption`, that there are words and attempts, that
the first payload is a valid one and the largest sequence even; `ConstantsAssumption`
of `ReportTransport`, that ring, queue and service have room, a burst fits the ring,
and the control reserve is neither empty nor all of it; `RecoveryAssumption`, that
nine records fit. `Startup`,
`StatusBlock`, `Quiescence` and `ConsoleNotice` need none.

Only model-checked: liveness (`RecordsArrive`, `AttemptEnds`, `PipeClaimConsumed`,
`TerminalIsTold`, `CallsReturn`, and that stop ends the endpoint's worker), since
fairness is out of this prover's reach. Every safety property of every passing run,
of states and of steps, is a theorem.

## Not modelled

Left out of the modelled components, besides what their sections name: the
content of the records and what counters and labels go into them; how the files
and directories of the event log and of the transport are prepared; the
search for the console's native layout.

Left out for good: byte-level readers of the host's memory, profiles, JSON and
configuration parsing, PE parsing, hashing and text formatting (pure functions,
covered by their tests; their results are inputs of the models), and the offline
generators and collectors.
