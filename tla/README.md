# Verification of the launcher

The repository builds a launcher for containers under systemd. A Python
generator turns a compose file or Kubernetes manifests into unit files and a
*manifest*; a C program, the *Manager*, starts the units through D-Bus, watches
them until they have started (BASIC) or finished (MONITOR), and stops them on
a signal. This directory models that system in TLA+, checks it with TLC, and
proves most of its safety properties with TLAPS. Paths below are relative to `src/`.

1. [The system](#1-the-system) — components, state, interactions, what is hard
2. [The modules](#2-the-modules) — what models what
3. [The runs](#3-the-runs) — questions, bounds, fairness
4. [Where the code and its words differ](#4-where-the-code-and-its-words-differ)
5. [The proofs](#5-the-proofs)
6. [What is left out, and the plan](#6-what-is-left-out-and-the-plan)

## 1. The system

| Component | Code | State it keeps | Operations |
|---|---|---|---|
| Spine | `src/Manager/Manager.c` main, `manager_init`, `manager_tear_down` | the mode, `instance_list` and `instance_count`, the configuration strings, `terminating` | nine steps, each of which may fail to `cleanup` |
| Run loops | `manager_run`, `manager_run_basic`, `manager_run_monitor`, `phase_of`, `arm_start_deadline`, `on_unit_state_changed` | per instance: phase, `was_active`, `first_activating_usec`, `start_deadline_usec` | StartUnit per instance; then reassess, tally, wait, drain |
| Capture and registration | `manager_register_tracked_units`, `manager_capture_instances` | the tracker's table | reload, reset-failed, enable, reload, attach all, reset-failed, verify |
| Termination | `signal_handler`, `manager_terminate_instances` | `terminating`, the tally | StopUnit per instance, wait up to 60 s, tear down |
| Unit tracker | `lib/dbus_tracker.c`, `.h` | per unit: object path, bus slot, `attached`, nine cached properties | register, attach (LoadUnit, AddMatch, Gets), detach, UnitNew, UnitRemoved, PropertiesChanged |
| systemd, the bus | not in the repository | the units, their jobs, the signals in flight | runs jobs, restarts, announces |
| Cycle detection | `src/UnitGenerator/RelationshipMapping.py` | the path, the visited set | depth-first search |
| Mapping reconciliation | `BlueprintProcessor.py`, `Rules.py` | a Mapping per Blueprint and keyword, the unified graph | fill both sides, unify, validate |
| Unit-file emission | `BlueprintProcessor.py`, `UnitFileCreator.py` | the unit files | After, Requires, Before, RequiredBy, PartOf, Restart |
| Manifest writer and reader | `ManifestWriter.py`; `manager_read_manifest`, `manifest_resolve_pointers` | the manifest, the instance list | write blocks; count, allocate, parse, resolve |
| Blueprint builders | `Builders.py`, `Rules.py` | the Blueprints | compose services, networks; Pods, Services and other kinds |
| Validation, schemas | `Validator.py`, `Schemas.py` | none | accept or refuse the input |
| Configuration reader | `manager_read_config` | paths, the two modes, two defaults | read keys, default, override, verify |
| Input stage | `manager_read_input`, `UnitGenerator.py` | the staged unit files, the manifest | run the generator as a child; read and verify the manifest |
| Unit-file copy | `manager_copy_unit_files`, `copy_file` | the installed unit files | copy, count failures, compare sizes |
| Graph drawing, logger, paths, setup | `GraphVisualizer.py`, `setup.sh`, helpers | none of interest | pictures, text, files |

**How they interact.** `main` reads the configuration, runs the Python program
as a child (generate modes), reads the manifest it leaves, copies the unit
files, registers every unit with the tracker, attaches them, and enters the run
loop (start modes). The tracker is driven by synchronous D-Bus calls during
which signals pile up in the queue of the connection, and by `dbus_process`,
which dispatches one message per call; a PropertiesChanged becomes one callback
into the Manager *per property*, between which the cache is a mixture of two
states. systemd, the clock and signals move between any two steps of the one
thread. A Unix signal runs `signal_handler` on top of whatever `main` was
doing; it drives the same tracker and frees the same structures.

**What is hard, and what makes each part correct.**

- *Run loops.* News is late, merged and half applied. An `inactive/dead` is
  "not started" or "ran and stopped" depending on what was dispatched before.
  A job that is cancelled is never announced, so only a deadline ends the wait.
  Correct: a verdict of success only when every unit did what the mode asks, of
  failure only with a cause; no unit given up before systemd gives up; the loop
  returns.
- *Tracker.* Units are changed, unloaded and loaded again between the calls of
  an attach, and calls fail. Correct: nothing is lost. Once nothing is under
  way, the cache is the state.
- *Lifecycle.* A signal comes at any instruction, also in the tear-down.
  Correct: every started unit is stopped, the process ends, nothing is released
  twice.
- *Manifest.* A line-oriented file between two languages, written raw and read
  by a state machine with flags carried from line to line; it may be cut, by the
  writer's death or the reader's buffer. Correct: what the generator writes is
  accepted, and what is accepted was written, in whole instances whose peers are
  all there.
- *Sessions.* Four sets of files outlive a run (staged, manifest, installed,
  loaded by systemd); each is replaced file by file, in place, and a run may
  fail or be killed anywhere. Correct: a session starts what its own generation
  describes, or, in a start mode, what the last completed one did, and never a
  mixture.
- *Generator.* A dependency may be declared from either end and under several
  keywords; the names may collide or be missing. Correct: systemd enforces
  exactly what was declared, the Manager sees the same graph, an accepted graph
  can be started, and a refusal has a reason in the input.

`PROJECT.json` lists the hazards line by line.

## 2. The modules

```
UnitStates   UnitPhase                 values; phase_of, is_settled, ...
     |           |
  Systemd        |   Supervision       environment;  abstract specification
     |           |       |
     +--- ManagerRun ----+             the run loops   <- ManagerRunProofs <- WaitLoopProofs
 UnitPhase - Tracker                   the cache       <- TrackerProofs
 UnitPhase - Lifecycle                 main, handler, tear-down   <- LifecycleProofs
           CycleCheck  Blueprints      the search  <- CycleCheckProofs;  the rule sets
               |           |
           Generator ------+           declared -> reconciled -> enforced -> resolved
                                            <- GeneratorProofs (with CycleCheckProofs)
           Manifest                    the file between the two programs, line by line
                                            <- ManifestProofs
           Config
               |
           Sessions                    what one run leaves for the next   <- SessionsProofs
```

`MC...` modules only give constants their values for TLC. Definitions whose
comment starts with "Mutation" or "A mutation" are deliberately wrong versions
of the definition next to them; they are used in no specification and serve to
show that each property is sensitive to the code.

### UnitStates, UnitPhase

`UnitStates` holds systemd's ActiveStates, SubStates and Results, cut to those
`phase_of` tells apart; `ActiveOf` is the state machine's own relation of the
two. `UnitPhase` translates `phase_of`, `is_settled`, `is_disqualifying` and
the budget of `arm_start_deadline` as operators on them.

### Systemd (environment)

Start jobs wait for the units they require (`Requires=` and `After=` come in
pairs from the generator), a failed start cancels its dependents' jobs without
a message, a `Restart=on-failure` unit passes through `auto-restart` under a
start limit, and every change makes the unit *dirty* until an announcement,
possibly of several changes at once, is sent. Time advances only when systemd
has done what is due (`MayTick`): a start attempt never outlives its timeout.

### Supervision (abstract specification)

Three variables: who has *reached* what the mode asks, who is *troubled*, and
the verdict. Success only when all reached; failure only when some are
troubled; one verdict. `KeepsPromise` in ManagerRun is this specification under
the mapping `reached <- everActive` (BASIC) or `MayStop` (MONITOR),
`troubled <- everFailed \cup refused \cup overrun`, `verdict <- outcome`:
histories kept by the environment and the clock, not what the Manager believes.
They count from a unit's attachment, so that BASIC may succeed on a unit that was
up then and has died since, and a failure of an earlier session that the snapshot
still sees is a cause. `MayStop` is `everEnded` and, named openly, the units in
`revived`, of which the code may report a stop that was not one (below).

### ManagerRun

| Model | Code |
|---|---|
| `ins[u]` | `struct instance` with the cached fields of its `tracked_unit` |
| `Attached`, `Init` | `manager_capture_instances`: snapshots reported, failed units reset, and announcements in flight that nothing has dispatched yet |
| `Readings` | the Gets of one snapshot, between which a unit in `Torn` may change |
| `StartUnit` | one turn of the StartUnit loop, with the provisional deadline; `refused` are those whose call failed |
| `EntersLoop` | the check after the loop and the initial pass of the mode's loop |
| `Check` | deadline reassessment, tally and return of one iteration |
| `DispatchService`, `OnServiceChanged` | `dbus_process` of the first message of an announcement, of the Service interface: a callback for Result |
| `DispatchUnit`, `OnUnitChanged` | ... and of the second, of the Unit interface: a callback for ActiveState, then one for SubState |
| `DrainEnds` | `dbus_process` found nothing or `dbus_wait` timed out |
| `Tick` | the clock; `left` is `deadline - now`, stopped at -1 |

The BASIC and MONITOR loops are one action with `Mode` as parameter: they
differ in the wait condition and the success phases only.

*How a run begins.* `tracked_unit_attach` subscribes before it reads
(`dbus_tracker.c:883-899`), and nothing is dispatched before the wait loop
(`Manager.c:1799`). So the queue that `manager_run` finds may hold announcements
*older* than the snapshot, which take the cache back, as well as newer ones. `Init`
is any such state: each unit is in a state of `EarlySubs` and was read in one
(in up to three, if it is in `Torn`); the queue is any sequence of announcements
of such states, of which the first `older[u]` had been sent when u was read; if
no announcement is owed of u, the last one says the state it is in (`OwedNone`).
The histories are what these readings and announcements tell (`Remembered`). The
states in between are not followed one by one: `Init` admits more combinations
than systemd can bring about, so what holds of it holds of the real ones. The clock
alone is not among them: between the snapshots and the first StartUnit no tick
passes. Nor is an AddMatch answered between the two messages of one announcement,
of which only the second would be heard.

Two things go wrong for units that were not at rest, and two histories name them:

- `revived`: u was found up, and an older announcement of its death is still in
  flight. When it is dispatched, the latch `was_active` makes of it a stop
  (`SUCCEEDED_STOPPED`), and in MONITOR a success, though u runs. It is the case
  of TrackerStale. `Grounded` and `KeepsPromise` except these units, and no others.
- `triedBefore`: u was seen activating in an attempt that is over when the run
  begins. The first ACTIVATING freezes the deadline, so that the attempt StartUnit
  makes runs against an old one. `Patience` excepts these units.

An announcement is two messages, and the drain may end between them (`halfway`):
deadlines and conditions are then evaluated on the new Result with the old
ActiveState.

### Tracker

One action per D-Bus call of `tracked_unit_attach` (`Resolve`, `Subscribe`,
`GetActiveState`, `GetSubState`, `GetResult`), so that systemd moves between
any two; `AttachNext` is the loop of `tracked_units_attach_all`; `Dispatch`
handles the signal at the head of the queue. Three properties stand for nine.
LoadUnit and AddMatch may fail, which ends the attach; a Get may fail
(`GetFails`), which the code ignores: the field keeps its former value.
`unread` remembers, for the properties only, whose latest snapshot missed a
field that no announcement has brought since.
A signal sent before AddMatch was answered reaches no slot, even if it is still
queued (`Unheard`).

### Blueprints, CycleCheck, Generator

`Blueprints` is the two bundled rule sets as operators: what the services and
networks of a compose file (`PodmanCompose`) or the Namespaces, Pods and
Services of a Kubernetes list (`Kubernetes`) become, which is a name and, per
keyword, the peers it lists. A name is the sequence of the parts that are joined by
underscores (`f"{ns}_{name}"` is `ns \o name`), so that names collide in the
model when they do in the code. A document of "another" rule set brings its
Blueprints with it. Texts of commands, ports, volumes and the type of a unit are
abstracted.

`CycleCheck` is `detect_cycle`, one neighbour at a time, over any adjacency,
in any order, since Python's order of a set is arbitrary.
`Generator` drives both: `Build` makes the Blueprints with their one-sided Mappings,
`Reconcile` fills the other side for one keyword, `Unify` adds a keyword to the
graph, `Search` is CycleCheck's step, `Emit` writes a unit file, `ReadInstance`
and `Resolve` are the Manager's two passes over the manifest, with the refusals
beside them. The dictionaries keyed by name are kept as such: of two Blueprints
with one name the later replaces the earlier (`ByName`). A name in a Mapping
that is no Blueprint is a node without edges to the search, is dropped from the
unit files and kept in the manifest. The two bundled rule sets only use the
AFTER side; both sides are modelled because `make_mapping` and the fillers
implement both. All Blueprints of a rule set have its keywords, as the builders
take care of ("present-but-empty"), and a document has at least one item
(`GeneratorAssumption`); the manifest of an empty one is among Manifest's.
`Follows` says, of Kubernetes items and not of names, which order a document
asks for: `ItemsOrdered` compares it with the unit files.

### Manifest

| Model | Code |
|---|---|
| `Written`, `InstanceLines`, `MappingLines` | `write_manifest` and its two blocks |
| `Damaged` | what may happen to the file: nothing, a cut, a line dropped, doubled, exchanged with the next, misspelt |
| `count` | `instance_count`: occurrences of the text `INSTANCE\n` |
| `block`, `current`, `seen` | `state`, `cur_mapping_idx`, the `seen_` flags |
| `Reads...`, `Allowed` | one line of `manager_read_manifest`, and the tests that reject the file |
| `Resolve` | `manifest_resolve_pointers`, with the null lists of an instance that no block filled |
| `Verify` | the verification of `manager_read_input` |

A line is a keyword, or a field and the words of its value; this keeps what
tokens, empty values and blanks in names do, and leaves the characters out. A
command is the sequence of the lines it takes, because it is written raw. The
values fit: the reader cuts a name, type or unit file name that is longer than
its `LIMIT_*` (255 characters, `Manager.c:1264-1266`; a path or command at
`PATH_MAX` or 64 KB) without a word, and `Stored` does not. So `NeverRefused` and
`WholeInstances` say nothing of over-long values: an instance with such a name is
accepted with a cut one, and refused if another one names it as a peer.
`Words` are the words there may be and `Marked` those that end in `INSTANCE`.
`WellBuilt` is what the code's own data structures guarantee of a Blueprint: its
mappings are a dictionary, whose keys `_collect_mapping_names` has collected.
`Opened` is the reader with a file in its buffer, whatever the file; `Init` says
which files it gets. An instance that was allocated and that no block filled is
`Imagined`: without mappings and in a start mode, where nothing verifies it, it
is accepted, and the properties name it as their exception. Generator has the
same blocks, without lines, to compare the Manager's graph with systemd's.

### Config, Sessions

`Config` is `manager_read_config`, line by line: `Reading` is what is known after
each line, `ReadConfig` what is left when the defaults are filled in. `Texts` are
the keys and values there may be. Keys are compared on the length of the key in the file only, so
that `P=` sets `PROGRAM_MODE`: the constant `Abbreviates` says which texts begin
which names.

`Sessions` is the pipeline of `main` over the files that outlive it. A unit file
is known by the input it was made from and by whether it is whole.

| Model | Code |
|---|---|
| `Begin` | `main` up to the choice of the mode: `manager_read_config` |
| `Generate`, `Emit`, `Write` | `UnitGenerator.py`: refusal before the first write; unit files one by one; the manifest last |
| `ReadManifest` | step 4 in either mode, with Manifest's verdict on a cut file (`Readable`) |
| `Copy`, `CopiesDone` | step 5: a failed copy leaves a part and does not end the loop |
| `Register` | step 6, with `LIMIT_TRACKED_UNITS` |
| `Reload`, `Enable`, `Attach` | step 7: systemd reads the installed files, twice; the verdict on what it loaded |
| `Run`, `End` | step 8 up to the last StartUnit, and what follows it |
| `Stop`, `StopEmitting`, `StopCopying` | a step that fails, the death of the process between two steps or in the midst of a file |

`intact` is a history: the input of the last generation to have written
anything, if it got as far as the end of its copies.

### Lifecycle

`step` is where `main` is, `hand` where the handler is; while the handler runs,
`main` stands still, and the handler ends the process. Steps that touch nothing
the handler reads succeed or fail (`Plain`). The run loop is one state that
dispatches and may return at any time: what it decides is ManagerRun's subject.
`manager_tear_down` is four releases (`Releasing`), for `main` or the handler: the
eleven frees of the configuration strings (`Manager.c:479-489`) are one step, since
a signal between two of them meets what one before or after them all does, some
strings freed that are freed again. A signal inside `malloc` or the bus library is
not represented.
A second release and a read of freed memory are undefined in C; the model
records them in `exit` and stops there.

## 3. The runs

| Run | Instance | Shows |
|---|---|---|
| RunBasic | two units, a Restart unit dead or running before the run, and a group without start timeout that requires it, one announcement in flight, older or newer than the snapshot at the start | phases follow the cache, the cache follows systemd, no belief is untrue but the stop of a revived unit, the verdict is Supervision's |
| BasicReturns | two Abort units, the first dead, starting or running before the run, no announcement need ever arrive, jobs are cancelled | a BASIC run returns by its deadlines alone, which are no shorter than systemd's |
| MonitorReturns | one Restart unit, dead or running before the run, its snapshot torn or whole, news of either state in flight, every unit up ends | a MONITOR run returns, with a true verdict, revived units excepted |
| TrackerFollows | one unit, failing calls and property reads, 2 signals in flight | nothing is lost; a unit at rest is known in the end |
| Generate | compose: two services, a network; kubernetes: two Pods, a Service, namespaces declared or not; three Blueprints with a keyword of each side; names that collide, unknown peers | asked for = declared = enforced = resolved; refusals have a cause in the items |
| Terminate | two instances, a generate and a start mode, two signals | started units are stopped; the handler ends the process; what is freed is used again only by a signal in main's own tear-down |
| ReadManifest | nine generations of up to four Blueprints, every damage at every line | what is written is accepted; what is accepted was written, and is well formed; nothing is read beyond what was counted |
| Sessions | three sessions, five inputs (two that differ, one with too many units, one refused, one whose manifest is), eleven configurations | a session starts what its generation, or the last completed one, describes; the configuration is obeyed |
| CancelledGroup, TrackerStale, TornDownTwice | the smallest instance each | section 4 |
| StrataAcyclic | the documents of Generate | section 4 |

**Bounds.** `BusCapacity` bounds the announcements in flight. In ManagerRun one is
enough for news of an old state beside a newer live state, with the change
between them still to be announced (a unit is dirty meanwhile), and for news of
one unit while the other changes; two announcements of one unit are dispatched
in order, so that the second meets the same states as one that is sent later. One
in flight at the start, with `EarlySubs` a dead and a running state, is enough for
an old death after a snapshot of a running unit, and for an old start after one of
a dead unit; `Torn` mixes the two in one snapshot. The theorems are for any number
of them and any states. CancelledGroup begins with units that are dead. The
Tracker, where the kinds of signals pass each other by, has two.
`Timeout` and `RestartSec` are ticks: only the order of deadlines matters, and
one tick already puts the Manager's deadline, systemd's timeout and the
announcement in every order the code can meet. `Burst` is such that a restart
is granted and one hits the limit: 2, or 1 in RunBasic, where a unit that was up
before the run has no start counted. Two units with one edge meet the waiting
and the cancelled job. One tracked unit is enough
for an attach to be interrupted by its own signals, and what other units add is
delay, which the environment has anyway; the theorem is for any set of them.
Three nodes give two-cycles, three-cycles, self loops and cycles through
different keywords; the three Blueprints of another rule set list the first and
the third of them or a stranger under the keyword that imposes AFTER, the third
under the BEFORE keyword. The compose documents let a service depend on the
other or on the network, join a network that does not exist, and share its name
with a network. The Kubernetes documents are two Pods and a Service with and
without a declared namespace and in the implicit one, labels that match and
do not, annotations that stay in their namespace, leave it or name nothing, and
a Service with a Pod's name; two more Pods have names with underscores of their
own that are joined to the same one (`OneWord` keeps `ItemsOrdered` and
`RefusedForACause` to documents without such names, which Kubernetes forbids, in
the items and in the networks their annotations name). `Deadline = 0` makes the 60 s limit one tick: nothing
depends on its length. `MaxSignals = 2`: the first enters the handler, the
second ends it. The generations of ReadManifest are chosen one for each case of the
reader: mappings on either side and in two keywords, none, no Blueprint at all,
a name used twice, an unknown peer, a command of two lines, a name of two words
that are names themselves, a name that ends in the keyword; a second damage
would only meet a file that the first had made one of these. Three sessions are
one to leave something behind, one to disturb it and one to start; its three
unit files give a file in both of the first two inputs whose definition changed, one dropped and
one new; `MaxTracked = 2` is exceeded by
one input, whose registration fails after its files were copied.
No two units of these instances are interchangeable, so no symmetry is used.

Deadlock is checked in every run: the states in which a program has returned
have an explicit stuttering action (`Returned`, `Ended`).

**Fairness.** `BasicSpec`: the Manager's thread is scheduled, time passes, and
systemd carries out what it has begun. Nothing is said about announcements, since
the deadlines exist so that none is needed. `MonitorSpec` adds
that systemd announces, that the bus delivers whenever the loop drains (strong,
because every drain may end first), and that units that are up end: without it
a MONITOR run rightly lasts for ever. `Tracker`'s `Delivery`: announcements are
sent and dispatched and calls return. `Lifecycle`'s `FairSpec`: the handler is
scheduled and time passes; nothing is assumed of systemd.

## 4. Where the code and its words differ

Each of these is a run TLC ends with a counterexample; the statement it refutes
is quoted in `PROJECT.json`.

- **CancelledGroup.** A group unit (oneshot, no `TimeoutStartSec`) has an
  infinite start timeout and so no deadline, not even a provisional one. When a
  unit it requires fails, its job is cancelled silently and BASIC never returns:
  the very case the provisional deadline was written for.
- **StrataAcyclic.** The kind is not part of an instance name, so a Pod and a
  Service of one name and namespace, a common habit, are one node. The Service
  replaces the Pod in the dictionaries, its selector names the Pod, hence itself,
  and the input is refused as cyclic: the strata are not "acyclic by
  construction". If the selector does not match, the manifest reader refuses the
  name later.
- **TrackerStale.** An announcement sent between AddMatch and the snapshot's
  Gets is older than the snapshot and dispatched after it. The cache goes back
  from running to dead, the latch `was_active` stays, and the unit is taken to
  have stopped. ManagerRun begins with such announcements in flight too, and there
  a MONITOR run may report a success of a unit that is running (`revived`).
- **TornDownTwice.** `main` enters `manager_tear_down` without setting
  `terminating`; a signal that comes while it runs goes through the handler and
  releases the strings, and possibly the instances, again.

Other things seen on the way are kept as hazards, or as remarks here. The
provisional deadline runs from StartUnit although the job may wait for its
dependencies: in a chain of three, BASIC gives up a unit systemd is still going
to start. A unit that was up and is stopping cleanly is in an intermediate phase
when its start deadline has long passed, and MONITOR turns it into FAILED_ABORT
before it has finished. A key that begins a recognized one is taken for it
(`ProperlySaid` keeps `ConfigObeyed` to files without). The blocks of a manifest are counted as the
text `INSTANCE` at the end of any line, so a service named `DB_INSTANCE` counts
twice: with mappings, the resolution stores through the null lists of the
instance no block filled; without, the run goes on with an instance that has no
name. A name with a blank is read as two peers, and the further lines of a command are read as lines of the
manifest (`Ordinary` and `OneWordPeers` keep the properties of Manifest to files
without, where they are about acceptance; `Ordinary` also excepts a Blueprint
without a name, which the writer writes and the reader refuses). The comment at `Manager.c:625` says
both defaults are "Ignore"; the code's default for failures is "Abort". StartUnit
on a unit still running from an earlier session leaves the old process in place.
The unit files and enable links of instances an input no longer has are never
removed. Further: a unit left by an earlier session that
fails between the first reset-failed and its snapshot is cached as failed and
may fail the run at once; the budget of a Restart unit leaves RestartSec out;
the handler tallies before it dispatches, so that a unit whose activation was
not dispatched yet counts as terminated; and the handler stops every instance of
the manifest, in generate mode too.

## 5. The proofs

All theorems are checked by `tlapm` to the last leaf. None bounds the number of
units, the queue, the timeouts, the graph, the file or the sessions. Each
invariant a run checks and that is proved here is stated by a theorem
`Spec => []Invariant` (two of Manifest's under a hypothesis, see below); the inductive invariants behind them were checked with
TLC on the same runs (`GraphInv` on a part of the documents, as it is slow to
evaluate) before they were proved.

**ManagerRunProofs.** `TypeCorrect`: `Spec => []TypeOK`. `BeliefsGrounded`:
`Spec => []Grounded`. `PromiseKept`: `Spec => KeepsPromise`, that is, ManagerRun
implements Supervision. The argument is one inductive invariant. What the
verdict needs is only `JudgedRightly` (a phase that succeeded means the unit was
up, one that failed means it failed or overran). That is not inductive: a phase
is recomputed from a cache in the middle of a message. So `Grounded` says it of
every place a state passes through: of the live units (`LiveGrounded`), of each
announcement in flight (`NewsGrounded`: a dead unit announced *after* an active
one has ended), and of the cache (`CachedRightly`: a cached `dead` beside a set
latch is a unit that has ended). The proof has a step per action, and lemmas
for the callbacks of each of the two messages in turn. `InitGrounded` is the part
about what was in flight before the run: an announced death after an announced or
cached `active` is an end, unless the cached one came from a newer snapshot
(`revived`). None of the theorems assumes anything of the snapshots or of the
queue the run begins with.

**WaitLoopProofs.** `PhasesCurrent` (`PhaseCurrent`): `PhaseInv` says of every
instance, while the loop runs, that its phase is `phase_of` the cache or a noted
overrun, and of every other time that an expired deadline is noted
(`DeadlineNoted`); each message is taken with its callbacks.
`NewsReachesTheCache` (`NoNewsLost`): `NewsInv` follows the *last* announcement
in flight of each unit (`NewsHeld`), which is the live state unless the unit is
dirty. `DeadlinesPatient` (`Patience`): a deadline counts down with the age of the
attempt (`LeavesTime`), and nothing says that a unit is activating before its
first attempt (`Unstarted`), which is where the units in `triedBefore` are excepted:
their deadline may be anchored by an attempt of an earlier session and pass before
the first attempt of this one does. A unit under `Patience` is an Abort unit, whose
file asks for no restart.

**TrackerProofs.** `TrackerTypeCorrect`, and `CacheLosesNothing`:
`Spec => []NothingLost`. `NothingLost` speaks of units nothing is under way
for. The inductive `Safe` says what holds on the way there: matched units are
the attached ones (`Subscribed`), a unit whose UnitNew is owed has an
announcement coming (`AnnouncementOwed`), a known unit that is not attached has
an attach coming or failed (`AttachComing`), a UnitRemoved in flight has a
UnitNew behind it if the unit is back (`RemovalFollowed`), the *last*
PropertiesChanged of a unit carries its state (`LastNewsTrue`), and the fields
read so far by a snapshot are true unless such news is in flight or a read has
failed (`CacheTrue`, `Fields`). The theorem covers failing reads: `NothingLost`
excepts a unit only until the first announcement after them.

**LifecycleProofs.** `LifecycleTypeCorrect`; `NothingLeftRunning` (`LeftToStop`):
no unit is started before the instances are counted (`Counted`), so that the
handler's loop passes every one that was, and what it has passed is settled and
stays so (`VisitedAreSettled`). `FaultsAreLate` (`OnlyLateSignalsFault`): whatever
is freed was freed by a tear-down that has gone on from there
(`FreedByTearDown`), and the handler, which sets `terminating`, never meets its
own. TornDownTwice shows that the one exception is real.

**CycleCheckProofs.** `AcceptsOnlyAcyclic` and `RejectsOnlyCycles`, for every
graph, finite or not, and every order of the search. `SearchInv`: the path lists
the gray nodes along edges, each once (`PathIsGray`, `Walk`); what the search has
gone past at a node of the path is black or comes next on it (`Behind`); and the
black nodes have no edge to another color (`BlackClosed`) and no cycle among
them (`BlackAcyclic`), because a node turns black only when all it leads to is.

**GeneratorProofs.** For every rule set and document. The inductive `GraphInv` follows the graph from
stage to stage: the Mappings are what their Blueprints list on the side of the
keyword until it is reconciled, and `Final` from then on, for the latest
Blueprint of a name (`MapInv`); the adjacency is the union of the keywords
unified so far (`AdjacencyInv`); the search starts clean and is CycleCheck's, whose
invariant is reused by citing its lemmas (`UnifiedGraphSearched`); files and
pointers are those of the Blueprints gone past, if no name occurs twice
(`FilesInv`, `ReadInv`, `PointersInv`); a refusal has left its reason
(`RejectedInv`). From it: `GeneratorTypeCorrect`, `DeclaredIsEnforced`
(`DependenciesEnforced`), `AcceptedCanStart` (`StartOrderExists`, where units
that all wait for each other would be a set the search has shown not to be
there, `Cyclic`), `ManagerSeesTheGraph` (`ManifestAgrees`) and
`RefusedWithReason` (`RejectionJustified`). How the bundled rule sets build
Blueprints plays no part in these. `KubernetesOrdered` (`ItemsOrdered`) and
`KubernetesRefused` (`RefusedForACause`) are about any number of items of a
kubernetes document: the Blueprints are the items, each once, sorted by kind
(`KeptItems`, `OrderedItems`); the declared dependencies are what the items list
(`DeclaredByItems`), and what an item lists by a joined name is what its document
asks it to follow (`AskedIs`), because a namespace's name has one part and a
Pod's or Service's two, which can be told apart again (`TwoParts`). The proof
showed that a `launcher/networks` annotation with an underscore could name a Pod
by its joined name, which is why `OneWord` excepts it.

**ManifestProofs.** First the reader alone, on any sequence of lines
(`AnyFileReadWell`), then on what is written and damaged (`NothingReadUncounted`
for `WithinAllocated`, `AcceptedIsWellFormed` for `WellFormed`,
`ManifestTypeCorrect`). Instances are counted as a text and read as blocks, so
`CountInv` compares the list with the lines counted *so far*. `ReadingInv`
separates the instances whose END was read, which are filled in and have names of
their own (`Closed`), from the one being read, of which only what the flags in
`seen` and the mappings in `claimed` say is known (`Holds`). That the written and
the damaged file are sequences of lines needs an induction over the sequences
that are put together (`FlattenType`).

Then the reader on the file of a generation, left whole or cut at any line, is
followed line by line. `Layout` says where each block begins: a sequence `st` with
block i behind line `st[i - 1]`, and what every line of it is. `Placed` says of
the line the reader has come to which line of which block it is, and there the
reader's state, flags and claimed mappings; `Taken` says that the instance holds
what the lines before it say. `CountExact` is the count again, now exact, where no
text passes for the start of a block. `AllRead` is what is left at the end: the
instances of the first n blocks, and behind them only imagined ones. These parts
make `FollowsInv`. From it:

- `OwnManifestsAccepted` (`NeverRefused`), without restriction;
- `CutReadWhole` (`WholeInstances`) for a file left whole or cut, of commands of
  one line (`OneLine`: a further line of a command could be any line, and the
  layout would not be the writer's);
- `CutLosesTheLast` (`NoneLostUnnoticed`) for a file left whole or cut, of an
  `Ordinary` generation that is `Reconciled`: a relation is known on both of its
  sides, which `reconcile_mappings` establishes before anything is written. It is
  needed: if only the lost one of two instances knew of their relation, the loss
  would pass unnoticed.

The two damages these cover are the ones the launcher itself can cause: the
writer's death and the reader's buffer both cut the file.

**SessionsProofs.** For any number of sessions, units, inputs and configurations,
and a failure or death at every step. `OwnGenerationDriven`
(`DrivesItsGeneration`), `LastGenerationReplayed` (`ReplaysTheGeneration`),
`NothingStaleStarted` (`LoadedIsInstalled`) and `SessionsTypeCorrect` come from one
invariant: `EmitInv` and `CopyInv` say how far a loop over files has come,
`GenerationInv` that from the manifest on all of the staged files, and from the
last copy on all installed ones, are those of the generation, `IntactInv` that a
completed generation lies untouched until the next one writes, `LoadInv` what
systemd has loaded. `ConfigurationObeyed` (`ConfigObeyed`) holds of files of any
number of lines, by an induction over them.

**Assumptions on constants** are those the modules state (`...Assumption`); TLC
evaluates them in every run.

**Induction over data.** The library's induction theorems take an operator as
parameter and cannot be instantiated by the installed provers. Where a recursive
function over numbers had to be unrolled (`Reading`, `FlattenSeq`, `OfKind`, the largest
and the least of a set), the induction is made from the well-foundedness of `<`
instead (`WFMin`): the first number at which the claim failed cannot exist
(`LeastExists`, `InductionOn`).

**Only model-checked.** The liveness properties (`RunReturns`, `Follows`,
`SignalEnds`), which are out of the prover's reach. `WholeInstances` and
`NoneLostUnnoticed` of Manifest for a line that is dropped, doubled, exchanged
with the next or misspelt: each of these shifts or changes the layout at one
line, and the reader would have to be followed again from there, field by field.
That `detect_cycle` terminates is not stated as a property.

## 6. What is left out, and the plan

Left out for good: the JSON schemas (declarative, no state), the drawing of
graphs, logging, path and file helpers.

Not modelled inside modelled parts: two launchers at a time on the same files; a
generator that survives the Manager that forked it; the links that enabling
makes; the invalidated properties of a PropertiesChanged; daemon-reload's
Reloading signal and the getters; the Restart block of a unit file; the width of
the deadline's arithmetic (`anchor + budget * timeout` may wrap for a very large
`TimeoutStartUSec`).

Planned is the rest of `WholeInstances` and `NoneLostUnnoticed`: the layout of a
file with one line dropped, doubled, exchanged or misspelt, and that the reader
rejects it, or has passed a line outside of all blocks, a path or a command.

To repeat the checks: `tlc -config X.cfg M` for the runs listed in
`PROJECT.json`, `tlapm M.tla` for the eight proof modules.
