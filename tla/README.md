# A verification project for bons-ci

This directory holds TLA+ models of the stateful parts of the build service, the
TLC configurations that check them on small instances, and TLAPS proofs of what
most of these configurations check, for instances of every size. Source paths are relative to the repository's root.

Contents: [inventory](#inventory), [modules](#modules), [runs](#runs),
[bounds](#bounds), [fairness](#fairness), [refinement](#refinement),
[proofs](#proofs), [what the checks found](#what-the-checks-found),
[observations](#observations), [what is not modelled](#what-is-not-modelled),
[plan](#plan).

## Inventory

The repository is a set of Go packages of a container build service; no main
program ties all of them together. The parts that keep state, in the order in
which a build meets them:

| part | state | operations | hard because | correct when |
|---|---|---|---|---|
| **LLB client** `client/llb` | the graph a program builds, the marshal caches, an exec's mounts, directory closures, a gate's channel | constructors, `Marshal`, `Build`, loading a definition, `Wait` | marshalling sorts and remembers in place; deadlines race answers | the definition is closed and says what the program said; a gate opens for an answer |
| **Git source** `plugins/sources/git` | a bare repository per remote, locks, mounts | `Apply`, `Activate`, `Fetch`, signature checks | refs move between commands, any command fails | tree, result and verified object are one commit; nothing is left behind |
| **HTTP source** `plugins/sources/http` | temporary files, a semaphore, mirrors | `Apply` along a chain, redirects, unpacking | a mirror fails half-way through an unpack | what is unpacked was verified; credentials stay with their origin |
| **Snapshot pipeline** `core/snapshotter/orchestrator` | channels, the committer's heap, the first error, the snapshots | sends, workers' Stat/Prepare/Action, Commit | layers finish in any order, a previous run was interrupted | layers are committed in order, the result tells the truth, nobody is stuck |
| **Image converter** `core/images/converter` | conversions in flight, the diff ID map, a semaphore | `Convert` of index, manifests, layers, configuration | conversions are shared by manifests that may be cancelled | configuration follows layers, success is whole |
| **Exporter** `plugins/exporter` | the content store, image names | transformers, `Export`, push | sibling exports share a store | stored manifests are closed, named images complete, output reproducible |
| **Namespace pool** `pkg/executors/network/cniprovider` | available namespaces, the count, a timer | `get`, `put`, fill loop, eviction, `close` | creation and release outside the lock | one owner per namespace, none lost, `close` returns |
| **runc executor** `pkg/executors/runc` | the registry of containers, bundles, recorders, process handles | `Run`, `Exec`, `executeWithIO`, the watcher | failure between any two steps; everyone waits for everyone | nothing is left behind, whoever waits is woken |
| **Resource monitor** `pkg/executors/resources` | records, samplers, subscriptions, cgroup files | record, sample, close; one collection; root set-up | a record is closed by three parties; files vanish midway | close covers all records, histories are final, figures are right |
| **Registry store** `core/content/store/registry` | ingestion tracker, writers, Info cache, connection pool | `Writer`, `Commit`, `Abort`, `Info`, readers, `Delete` | trackers read before and written after remote calls; channels overflow | a push is committed once, the local copy is the blob, what the cache has is no older than its lookup |
| **B2 store** `core/content/store/b2` | a streaming upload, labels | `Write`, `Commit`, `Update`, `Delete` | the upload is a goroutine; labels are read and written back | a commit is whole, uploads end |
| **Composite stores and writers** `core/content/store/composite`, `core/content/writer` | how far each backing writer is | fanout, split, fallback; resilient writers | one of several fails half-way | writers agree, what is deleted is gone |
| **layermerkle** `pkg/layermerkle` | event channel, workers, two single-flight groups, caches, a log, trees | `Submit`, `Stop`, replay, lookups, diffs | shared calls, torn log entries, lookups without locks | a leaf is what was read, restarts keep the last entry, diffs are exact |
| **fshash** `pkg/fshash` | layer store, Bloom filter, cache, tracker, workers | register, mark, `Submit`, `Finalize`, `Close`, proofs | reads one after the other while marks come in between | a hash is reused only while current, sessions are complete, nobody is stuck |
| **fswatch** `pkg/fswatch` | descriptors, channels, worker slots, overlay caches | read loop, `Run`, `RunSync`, enrichment | panics, cancellation, unlocked cache fills | every event and descriptor is accounted for, files go to their layer |
| **dirsync, dirpruner** `internal/dirsync`, `pkg/dirpruner` | channels between stages, batches, an io_uring, sets of removals | classify, hash, handle, flush, prune | aborts and cancellation; partial flushes | nothing is removed but what may go; every entry is accounted for |

They interact by calls (the executor takes namespaces and recorders; exporters
and converters write to content stores; composite stores hand out fan-out
writers), by channels inside each package, and by callbacks (recorders call the
release of a `Run`, dirsync calls handlers that fill a batcher).

`PROJECT.json` lists every part under `components`, modelled or not, and under
`hazards` what is hard to test in each, at its line, with the properties that
watch it.

## Modules

| module | models | uses |
|---|---|---|
| `LLBGraph`, `LLBGate` | building and marshalling LLB graphs; waiting at a gate | |
| `GitSource`, `HTTPSource`, `SourcesProofs` | the two sources of snapshot content; the theorems about them | git, the remote and HTTP servers as external |
| `SnapshotPipeline` | `RunSnapshotPipeline` | the snapshotter as external |
| `Converter`, `Exporter` | conversion of an index; sibling exports | layer functions and the store as external |
| `ImagesProofs` | the theorems about pipeline and converter | |
| `NSPool` | the namespace pool | |
| `RuncExecutor`, `RuncProcess`, `RuncProofs` | `Run`, `Exec` and the registry; one `executeWithIO` and its watcher; their theorems | runc and killers as external |
| `ResourceMonitor` | the monitor, its records and their samplers | |
| `HostProofs` | the theorems about pool and monitor | |
| `CgroupStats` | one collection of statistics, the root's set-up | |
| `RegistryIngest` | writers and their tracker | remote and local writers as external |
| `RegistryReads` | Info cache and readers; the pool of connections | |
| `B2Store` | the B2 writer, its upload and labels | |
| `ContentProofs` | the theorems about registry and B2 store | |
| `FanoutWriter`, `CompositeStores` | the writer of composite stores; the stores | backing writers and stores as external |
| `CompositeProofs` | the theorems about both, and about gates | |
| `MerkleEngine`, `HashCache`, `PersistentCache`, `StatCache`, `MerkleOps` | the layermerkle engine, its LRU, log and lookup caches, and its computations on trees | engine and log extend `HashCache` |
| `FSHash`, `HashTree`, `FSHashProofs` | the fshash processor; its Merkle trees and proofs; the theorems about the processor | |
| `FSWatch`, `FSOverlay` | watcher and pipeline; overlay enrichment | the kernel as external |
| `DirTree`, `DirSync`, `DirPruner`, `DirBatch` | computations on trees; the pipeline and the set of removals; the pruner; both batchers | `DirSync` and `DirPruner` extend `DirTree` and instantiate `Pruning` |
| `FilesProofs` | the theorems that both implement `Pruning`, and about the layermerkle engine | |
| `Pruning` | abstract: what a deletion promises | |
| `MCHost`, `MCContent`, `MCComposite`, `MCExecutor`, `MCImages`, `MCSources`, `MCFiles` | the instances for TLC | |

Conventions. An action is named after the function or the step it stands for;
`map` in `PROJECT.json` gives its lines. What the code does under one lock, or in
one channel operation, is one action; a call that leaves the process is an
action of its own, so that others come in between. A goroutine is a value of a
program counter. Bytes, digests and file contents are symbolic: a hash is what
it was computed from. A "world" or "script" is an input that is chosen at the
start and never changes: a tree, a list of calls, what fails. A definition whose
comment begins with "Mutant" or "Variant" is the one after it with a plausible
mistake; no specification uses it, and for each property one of them is known to
violate it.

How state and actions correspond to the code, part by part:

* **NSPool.** `available`, `actualSize`, `closed`, `cleanupScheduled`,
  `fillDone` are the fields of `nsPool`; `held` is a goroutine's local `ns`,
  `toRelease` what it releases after the lock section. `Get`, `Register`, `Put`,
  `FillCheck`, `Cleanup`, `Close` are the lock sections; `NewNS`,
  `StampLastUsed`, `Schedule`, `Release` happen outside. A namespace is put once
  per get, as the interface asks; whether the executor does so is a question
  for `RuncExecutor`.
* **RuncExecutor.** A `Run`'s `pc` goes through its steps and then through its
  deferred calls in Go's order (`Unwind`, `DeferNS`, `Notify`, `Unregister`).
  `AfterExit` decides between the synchronous release and the recorder's
  background one. `container[i]` is runc's own state, in which created and running
  are one. **RuncProcess** is one
  call: helpers of the error group, shutdown, wait, release, and the watcher
  with `Kill`'s deadline and pause.
* **ResourceMonitor.** The callback runs without the lock; all between
  two callbacks is one step. A record is closed once, by its owner, its waiter
  or the monitor; its entry is deleted by a goroutine of its own.
  **CgroupStats** reads file after file; integers have small widths and wrap.
  A required `/proc` file that is missing is an error, as is `ENOTSUP` but of pressure.
* **RegistryIngest.** `Writer`, `Push`, `Add` are the three steps of
  `Store.Writer` around the remote call; `Write` and `Enqueue` the remote write
  and the send; `Commit` is the compare-and-swap, then `RemoteCommit`, `Drain`,
  `CommitLocal`, `Finish`. **RegistryReads** (with the connection pool) and **B2Store** split
  each call at its remote requests.
* **FanoutWriter.** `Write` and `Truncate` visit writers in turn; `Commit` and
  `Close` have one task per writer. **CompositeStores** runs several clients'
  calls store by store, some stores answering only errors.
* **SnapshotPipeline.** Workers, committer, closer and caller are processes. An
  error is `real`, or `derived` when the context interrupted a call.
* **Converter, Exporter.** A manifest's conversion is a process; layer
  conversions in flight are shared; the deferred wait of the configuration is a
  step. Sibling exports write blob after blob into one store.
* **GitSource, HTTPSource.** One action per git command or HTTP exchange that
  others can observe; the remote's refs move (`MaxPushes`), bodies may be wrong
  or too big. Whether a name is a commit hash is a question of syntax, as in the code;
  a `RemoveAll` may fail and leave `litter`. `httpDst` is a directory with files that
  have several names and symbolic links that are followed; `Written` is what each of the
  four writers does to it, `Broken` what one that fails leaves. The rules of `net/http`
  itself, which delete the Authorization header in more cases, are left out.
* **MerkleEngine.** Submit, dispatch, worker, two single-flight groups and the
  vertex builders. **PersistentCache** writes an entry in two writes and may die
  in between. **StatCache** asks the disk outside its lock. **MerkleOps** checks
  the pure computations against definitions by quantifiers.
* **FSHash.** One step per critical section of the worker (interpret, owner,
  visibility, filter, cache, compute, record) with a history of what held when a
  call began. The Bloom filter may answer yes by mistake.
* **FSWatch.** The read loop, the bounded channels, filters, middlewares and
  handlers with their panics. **FSOverlay** compares layer lookup with what
  overlayfs shows.
* **DirSync, DirPruner, DirBatch.** Stages connected by channels of size one,
  both batchers, the ring with a kernel that may refuse a chunk, take a part of it or
  interrupt the wait. Some entries cannot be looked at, read or unlinked. `Hang` and
  `DpHang` are what a cancelled flush of the goroutine batcher may come to.
* **LLBGraph.** `llbHeap` is the graph; constructor actions append to it.
  `marshalVertex` is a stack machine (`LlbDescend`, `LlbEmit`) of one of two
  goroutines; `llbOrder` is the order an exec's mounts have been sorted into,
  `llbCells` what each directory closure remembers, `cache` the marshal caches
  for that call's constraints. **LLBGate**: waits on one approver with answers
  at any time and the first deadline in force.

## Runs

Each passing run puts several parts side by side that share no state: a
behaviour picks one of them (`part`), so the state space is a sum. Every property
below is a conjunction of named parts, each stated and explained in the module
it belongs to.

| run | property | what it shows |
|---|---|---|
| `host` | `SoleOwner` | no namespace is in two places, a released one in none |
| | `PoolAccounts` | the count is what an open pool owns, nothing leaks after `close`, the pool, with what is being allocated, outgrows its target by at most one per build |
| | `RecordsSound` | `Monitor.Close` covers every registered record, a finished record's sampler has stopped, histories are bounded |
| | `StatsSound` | figures are exact wherever their type holds them, one failing controller does not lose the others, an error comes of a file that fails its reader, controllers are enabled after the processes moved |
| | `ClosedHistoryFinal` | no step adds a sample to a closed subscription's history |
| | `HostCloses` | the pool's and the monitor's close return |
| `content` | `LocalFaithful` | the local copy is in order, and the blob when it is verified |
| | `CommitOnce`, `CommittedUntracked` | a push is committed and announced once, then untracked |
| | `StoresSound` | the Info cache is a regular register (what it has is no older than its lookup or the last change announced since), a reader caches whole blobs, one dial per entry and no dead entry, B2 commits are whole, labels survive all updates they did not overlap with |
| | `NoWriteAfterLocalCommit` | nothing is written after the local commit |
| | `ContentEnds` | calls, reads and uploads end, and a cache entry that is out of date expires |
| `composite` | `WritersAgree`, `CommitsWhatWasWritten` | writers have the same bytes, and what is committed is what was written |
| | `OneStore` | composite stores read what was put, lose what was deleted, walk each digest once |
| | `HashesSound` | a hash is reused only while its file is current, visibility is decided as it stood during the call, chains nest |
| | `SessionsSound` | a file is hashed once per session, `Finalize` has all of them, `Close` drains |
| | `NobodyStuck` | a state in which nothing can happen is one in which all calls have returned |
| | `GraphsAndTreesSound` | a proof of fshash's trees verifies for no other leaf, and for its own where all groups on the way have two members; a definition is closed, says what the program said whoever marshalled before or beside, names the right mount, has every matrix cell, and agrees with a second or reloaded one |
| | `GatesDecide` | a gate opens for a reason; an accepted answer is used once |
| `executor` | `RunsSound` | a running container is registered and has its bundle |
| | `ProcessSound` | the handle is released last |
| | `ExecutorEnds` | recorders stop, `started` is signalled, `Exec` and `executeWithIO` return (unless stdin or the caller's writer blocks), the watcher ends, a cancelled request ends a process whose PID is known, unless `Kill` fails before its deadline again and again |
| `images` | `ChainOrder`, `NilMeansAll` | commits in order; success means all |
| | `LayersFaithful` | each snapshot holds its own layer; the stored error is the cause |
| | `ExportsSound` | stored manifests are closed and named images complete, but for layers the caller did not bring, output reproducible, success is told |
| | `ConversionsSound` | the configuration lists the layers' diff IDs, success is whole, labels keep layers |
| | `ImagesEnd` | pipeline, exports and conversions end |
| `sources` | `GitSound` | the tree is the reported commit's, a trusted signature covers it, one fetch per remote at a time, locks, mounts and directories are released |
| | `HttpSound` | the snapshot of a pinned descriptor is its archive, links and what a failed mirror left notwithstanding; nothing unverified is unpacked, credentials go to their origin only, temporary files are gone |
| | `SourcesReturn` | every call returns |
| `files` | `EngineSound` | a leaf is what was read in the owning layer, one reader per file, who joins has a leader, `Stop` drains; for stacks that are told apart by their top layers (`ToldApart`) |
| | `CachesSound` | restarts keep the last complete entry, hits are current |
| | `TreesExact` | roots, diffs, net files, warmed caches and stacks are exact |
| | `WatchSound` | events, middlewares and descriptors are accounted for; a file goes to the layer overlayfs takes it from; caches agree |
| | `EntriesAccounted` | every entry of a walk is handled, kept or counted; comparisons are exact, removal sets minimal; a batched operation is executed once, a flush waits, the ring executes all but what it loses in the two known ways (`BatchesSound`) |
| | `RemovesAsMeant`, `PrunesAsMeant` | dirsync and dirpruner implement `Pruning` |
| | `CallsEnd` | accepted events, watchers and batches end; pipelines and prunes end, or hang in a flush that was cancelled |

The other five runs each check one sentence of a comment that the code does not
keep; see [what the checks found](#what-the-checks-found).

## Bounds

Each bound is a constant in a `.cfg` or a set of worlds in an `MC` module.

* `NSPool`: two builds, three namespaces, target 1, grace of one tick: reuse, a
  pool above its target, an eviction of some but not all, two concurrent
  allocations. Liveness is checked with one build.
* `RuncExecutor`: two Runs of one id and an Exec; the namespace run needs three
  Runs, two ids and two namespaces. `RuncProcess`: a terminal and stdin, which
  has every helper.
* Resources: two cgroup records with one namespace between them and an
  operation; five time units, two samples, so that an interval doubles and a
  history is full. Integers wrap at 4 and 8.
* `RegistryIngest`: one writer, its owner and another goroutine, three chunks
  and a channel of two, so that it overflows and a dropped chunk is followed by
  a queued one. Two writers of one ref are in the violation runs and the proofs.
  Readers: two askers, or one beside a reader, two versions, two attempts; three
  getters and three pool entries; a B2 blob of two chunks and three writes, two
  updaters.
* `FanoutWriter`: three writers, the last resilient, two chunks (one
  beside a Close, `CloseBound`; the theorems hold without bounds). Stores: two or
  three, with one that is down, two clients of two calls each, two digests.
* `SnapshotPipeline`: two workers, two layers, one invalid event, every state an
  earlier partial run can leave. Converter and exporter: index of two manifests
  that share a layer, each kind of failure once; two sibling exports.
* Sources: two fetchers of one remote, two commits and a tag, one push between;
  two callers with an origin and a mirror, four bodies, one hop.
* `MerkleEngine`: three events, three layers, two workers, buffers of one. Log:
  three entries and a compaction after two. Trees of up to three leaves.
* `FSHash`: six scripts of four concurrent calls, two workers, a buffer and a
  cache of one; trees of up to eight leaves and branching two and three.
* `FSWatch`: three events, two workers, channels of one, batches of two; all
  stacks of up to three layers and all parents of three snapshots.
* dirsync and dirpruner: trees of five to seven entries with nesting, links and
  collapsible directories, with entries that cannot be looked at, read or unlinked,
  channels of one, rings of two; sequences of up to four bytes.
* LLB: eleven programs of three to six constructor calls, each choosing its
  arguments freely among the states made so far; two calls of `Marshal`, at the
  same time in three of the programs. Where two goroutines marshal or an
  Inspect is made, mounts come in the order of their targets, which excludes the
  data race of [the observations](#observations). Gates: two waits, three answers.

`CHECK_DEADLOCK FALSE` is set because the models stop when all calls have been
made and returned. Where that would hide a deadlock, a property speaks of it:
`NobodyStuck`, or a liveness property.

## Fairness

Weak fairness of a goroutine's steps stands for Go's scheduler, and for calls of
runc, git, registries and disks that return, with or without an error. Nobody
has to call an operation, close a stream, cancel or exit.

* `NSPool`: also, time passes, which the filler's back-off needs.
* `RuncProcess`: strong fairness for the `Done` case of a select that is ready
  again and again (Go chooses among ready cases at random). A killed process exits.
  Nothing is assumed of how `Kill` fails; `CancelKillsReady` has the behaviours in which
  it fails fast for ever as its second case. The caller's writer may block for ever,
  except in `runc_process_stdin`, where the question is whether stdin alone blocks.
* `SnapshotPipeline`: the caller goes on sending or closes the channel while not
  blocked, as the pipeline's comment asks.
* Resources, sources, exports, conversions, engine, watcher, dirsync: fairness
  of the steps of their own goroutines only; no events have to arrive.
* `composite` states no fairness: each behaviour of fshash is finite, so that
  `NobodyStuck` (an invariant) is its termination argument.

## Refinement

`Pruning` is the promise of a deletion: entries are removed, only those that may
go (`reach`); a run that ends well has removed all it was meant to (`meant`), one that
fails says so, and one that was cut short may have left entries without an error.
`DirSync` and `DirPruner` instantiate it with a refinement mapping (`Promise`,
`PrunerPromise`): `meant` and `reach` are computed by quantifiers from the trees and the
filter, `left` is what is on disk, `outcome` what the caller is told. A result without an
error of a run that was cancelled is `cut`: neither package keeps a context's error, so
`OK()` is true of it. Each step of the pipeline, worker by worker and flush by flush, maps
to a step of `Pruning` or a stutter. TLC checks it on the worlds of `MCFiles`; `FilesProofs`
proves it for all worlds of dirpruner, and for all of dirsync in which the walk is right
(`WalkIsRight`).

What may go and is not meant to is where the code removes more than its comments say;
the [observations](#observations) name each. For dirpruner it is `Blind`: what is below a
directory in which the walk sees nothing that matches, because it cannot look at it or
read it. For dirsync it is `Overreach`: what exclude patterns exclude below a directory
that goes as a whole, and, with goroutines as the batcher, a file of the upper tree where
the lower one has a directory. All else that must stay stays.

`WalkIsRight` compares what the recursive walk yields with the quantifiers of
`Meant` and `Overreach`. When TLC starts it evaluates `WalksAreRight` of `MCFiles`: the
walk is right for all trees over three paths (one below another), all filters with
patterns for these and both batchers, 107520 combinations, and for the worlds of the run.

## Proofs

All proofs hold for every value of the constants that satisfies the named
assumptions. They say that constants have the expected sorts, "none" values are
not members, sizes are natural numbers (`ProcsAssumption`, `NSAssumption`,
`SizeAssumption`, `NoneAssumption`, `LayersAssumption`, `WritersAssumption`,
`BoundsAssumption`, `BoundAssumption`, `GateAssumption`, `StoresAssumption`,
`HttpAssumption`, `GitAssumption`, `SamplerAssumption`, `ReadsAssumption`,
`PoolAssumption`, `B2Assumption`, `FhBounds`, `FhScriptsAssumption`), that an
index and its layers fit together (`CvWorldsAssumption`), that some commit is
the first and no hash a ref name (in `GitAssumption`), that directory trees are
finite, of files, links and directories, with each entry in a directory
(`DpAssumption`, `DsAssumption`), that fshash has a worker (in `FhBounds`; its
constructor starts at least one), that no stack of the engine is empty
(`EngineAssumption`; `fanwatch.go:96` and `deduplicator.go:63` turn such a one
away), that a cgroup record has a sampler of its own and the others share one
(`ResourceAssumption`), and that the sets whose members are counted are finite
(`ClientsAssumption`, `WorkersAssumption`). Some theorems have a hypothesis
besides, which says for which inputs they hold: `Distinct`, `Congruent` with
`Settled`, `ToldApart`, and `WalkIsRight` (above).

| theorem | property | of |
|---|---|---|
| `SoleOwnership`, `PoolAccountsAlways` | `SoleOwner`, `PoolAccounts` | namespace pool |
| `CommitOnceAlways`, `CommittedUntrackedAlways`, `LocalFaithfulAlways`, `NothingAfterLocalCommit` | `CommitOnce`, `CommittedUntracked`, `LocalFaithful`, `NoWriteAfterLocalCommit` | registry writers |
| `CommitOrder`, `SuccessIsComplete`, `LayersFaithfulAlways` | `ChainOrder`, `NilMeansAll`, `LayersFaithful` | snapshot pipeline |
| `ConversionsAreSound` | `ConversionsSound` | image converter |
| `ReadsAreSound`, `PoolIsSound`, `UploadIsSound`, `StoresAreSound` | `StoresSound` and its parts | registry reads, connection pool, B2 store |
| `SessionsAreSound`, `HashesAreSound` | `SessionsSound`, `HashesSound` | fshash |
| `WritersAgreeAlways`, `CommitsOnlyWhatWasWritten` | `WritersAgree`, `CommitsWhatWasWritten` | fan-out writer |
| `OneStoreAlways` | `OneStore` | composite stores |
| `HttpSoundAlways`, `GitSoundAlways` | `HttpSound`, `GitSound` | HTTP source, git source |
| `ClosedHistoryFinalAlways` | `ClosedHistoryFinal` | samplers |
| `CloseCoversRegisteredAlways`, `DoneMeansStoppedAlways`, `ResTypeOKAlways` | parts of `RecordsSound` | resource monitor |
| `ProcessSoundAlways`, `RunsSoundAlways` | `ProcessSound`, `RunsSound` | runc process and executor |
| `GatesDecideAlways` | `GatesDecide` | LLB gates |
| `RemovesAsPromised`, `PrunesAsPromised` | `RemovesAsMeant`, `PrunesAsMeant` | dirsync, dirpruner |
| `EngineSoundAlways` | `EngineSound` | layermerkle engine |

**`HostProofs`**, the pool. `TypeCorrect`: `TypeOK` holds with `HeldInv`, which ties the
program counter to the local variable `ns`: without it the type of what `Put`
appends is unknown. `SoleOwnership`: `SoleOwner` alone is not inductive, since
nothing in it prevents `NewNS` from making a namespace that exists; `OwnerInv`
adds that whatever is owned has been created, and created things are never made
again. The lemmas before it say what appending, popping and splitting a sequence
without repetitions does to its elements. `PoolAccountsAlways`: the invariant is
`BooksInv`. The size equation follows every step by itself, since a step changes
`actualSize`, the idle queue and the goroutines in use together (`BooksMove`,
which rests on `Counting`: how the number of goroutines at given labels changes
when one of them moves). The bound is not inductive over `actualSize` alone: what
is being allocated has to count, and then the two steps that start an allocation
are the interesting ones. `get` starts one only when nothing is idle, so all there
is belongs to a goroutine (`CountsBound`); the filler only below the target, where
the builds' allocations are what can be added. That nothing leaks needs `Traced`:
a namespace that was created is always idle, held, queued for release or
released; and `RoleInv`, which says where the three goroutines of the provider
can be, that a closed pool has no idle namespace, and that close has waited for the
filler.

**`ContentProofs`.** `CommitOnceAlways`: the invariant is `CommitInv`.
`Claimed` says that the goroutine past the compare-and-swap is alone and holds
the flag; `Announced`, that after success the flag stays set; `Opening`, that a
writer which is being opened is out of reach of everybody else. The retry after a
failed remote commit, which resets the flag, is the step that needs `Claimed`.
`CommittedUntrackedAlways` adds `Tracked`: an entry belongs to the ref it is
under. It holds although the entry is removed by ref and two writers can have the
same ref: removing the wrong entry errs on the side of removal.
`LocalFaithfulAlways` and `NothingAfterLocalCommit`: the invariant is `LocalInv`.
What the local writer holds and what is queued for it are one increasing sequence
(`InOrder`), and a chunk on its way to the channel is newer than both (`Sending`):
that is why no drop can break the order. `Drained` says that a local writer which
is committed or closed has no worker any more, and that when it is committed so is
the remote one, which nobody is about to commit again: then neither side of
`CacheFaithful` can change.

The theorems about reads, pool and B2 have an invariant each. `CacheInv` is about a
lookup under way: what it has found is among the versions there have been since it began
(`rrSeen`), and with what it puts into the cache goes the set of these; a change that is
announced empties the cache, so that an entry which is there afterwards began later or
was overtaken. That makes the cache a regular register: no entry is older than its lookup
or the last announced change. `TeeInv` says that the local writer has what was
taken from the stream, and that a sound stream is at its end when the local copy is
committed. `PoolInv`: who dials an entry holds its lock, and an entry that was dialled
is connected; so an entry in the map that is not connected has somebody at it who
will dial. `UploadInv`: what is uploaded is what was written except for the chunk
that is being counted, and a commit has seen a whole upload, which stays. `LabelsInv`:
a label that was set is among those that an updater has read, or it was set after the
reading, or it is lost already to an updater that had read before it was set.

**`ImagesProofs`.** `CommitOrder` and `SuccessIsComplete`: the
invariant is `PipelineInv`. `Prefix` says that everything before `next` is
committed, and `Flow` that each result on its way from worker to committer is
honest: one that says `alreadyCommitted` is about a committed layer. That is what
makes skipping safe, and it needs that nothing is ever un-committed. These two
hold for images that repeat a layer, too. `StoredErrorIsCause` (invariant
`CauseInv`) is that the error kept is a derived one only if the caller cancelled.
`Causes` says that the pipeline is cancelled by the caller, after an error was
stored, or when no work is left; the last case needs `Apart`: each layer is in one
place on its way from the caller to the committer. This, too, holds with repeated
layers. `LayersFaithfulAlways` has the hypothesis `Distinct`, no layer occurs twice:
with a repeated layer two workers share the key of an active snapshot, and what
the first one fills the second one finds. Its invariant adds `Filled`: only a
layer's own Action has filled the snapshot of its key, and a result that calls the
snapshot ready is right.

`ConversionsAreSound`: the invariant is `CvInv`. `LayersRecorded` and `LabelsExact` say
what the manifest under construction has for each layer, by that layer's task;
`MapExact`, that the shared map from old to new diff IDs has nothing wrong in it and
has what was recorded; `DiffsExact`, that the configuration still has the old diff IDs
until it is rewritten. Then the rewriting, which looks at the map and not at the
layers, gives the new layers' diff IDs. The theorem is about indexes in which layers of
one content are converted alike (`Congruent`) and a layer that was converted is left
alone (`Settled`): the map has the content as its key, and a label is corrected
from the old digest, so without the two a manifest may get its neighbour's diff ID.

**`CompositeProofs`.** For the writer the invariant is `FanoutInv`: `WritersAgree`, with
`LoopInv` (`Write` and `Truncate` run while no `Commit` does, and the cut of
`Truncate` lies in what was written) and `TaskInv` (a task of `Commit` past its test
of `failed` is on a writer that has not failed, and one that is done has committed
the writer or lost it). Without them a commit could begin between two writers of a
loop. `CommitsOnlyWhatWasWritten`, the action property, follows: a best-effort
writer that loses bytes is degraded in the same step, and `Commit` skips it.
For the stores it is `StoreInv`. `Alone` says that two calls under way on one digest
have mixed it, and `CallInv` what a call knows of the stores it has asked: where a
write was accepted the digest is, and where a delete was not refused it is not. When
the call returns, `SuccessFacts` turns the combined answer (the first error, the
errors that are not "not found", the primary's) into a statement about each store;
the split store's first error is a least element, hence `LeastOf`. `OneStore` needs no
assumption on how many stores are down: a digest that was written has been accepted
by one that is not.

**`RuncProofs`.** `ProcessSoundAlways`: `HandleInv` ties the handle to where
`executeWithIO` is and which helpers are left. `RunsSoundAlways`: the invariant is
`RunInv`. `OwnerInv`, `ContainerInv` and `BundleInv` say who is registered for an
id, whose container it is and who has made the bundle, by the Run's place; a
second Run of the id fails before it touches any of them. `HeldInv` is about the
namespace a Run holds.

**`SourcesProofs`**, HTTP. The invariant is `HttpInv`. `FilesVerified` is the part about
what is in the snapshot whenever it is looked at: each file comes from an archive that
matched, and if this archive is tidy (it names nothing twice, hard links lead to earlier
files) each file and link has names which it may have in the archive (`Fits`), also when
the applier that wrote it failed afterwards and the next one of the chain starts over.
`Unpacking` says that the entries unpacked so far are there (`UpTo`). The lemma
`WrittenKeeps`, by the four kinds of entries, is that one more entry keeps both although
a file is written through what has its name: in a snapshot that fits a tidy archive,
opening the name of a file leads to this file and no other. When all entries are there
nothing else is (`AllThere`), so the snapshot of a pinned descriptor is its archive. `SlotsHeld`
ties a slot to the applier and place of its holder, which is why the deferred
release frees it on every path; `Counted` follows the metrics by the sets of calls
that ended.

**`SourcesProofs`**, git. `GitSoundAlways`: the invariant is `GitInv`, what is known of a
call at each place of it. `RefRight`: the ref may move between `ls-remote` and the
fetch, but for what looks like a commit hash neither the ref nor the object fetched is another,
and the object is the one reported, a commit or a tag object.
`ResultRight` holds from the checksum on, `TreeRight` from the checkout on; a kept
repository is filled from the tag object, and `PullRefIsCommit` says that this is the
same commit. `HeldRight` says at which places a directory, socket or link can be there at
all, so that the deferred calls, which remove only some of them, leave nothing but what
`RemoveAll` failed to remove.
`LocksRight`: the holder of a remote's lock is a call of that remote between its lock
and its return; with "who has a bare directory holds the lock" that is
`OneFetchPerRemote`.

**`HostProofs`**, the monitor. The invariant is `ResInv`. `ClosedHistoryFinalAlways`
rests on `Registered`: what a sampler has registered is open, so the membership test
of `fanOut` is enough; and on `Subscribed`, by which a record that was closed is
never started again. `CloseCoversRegisteredAlways` needs `Covers`: until
`Monitor.Close` copies the map a live record that has not escaped is the one under
its name, afterwards it is in the copy until it is closed. A delete by another
record of the name is the step that makes one escape. `OnceRuns` shows that the
once-only close finds the subscription it was made for, which gives
`DoneMeansStoppedAlways`.

**`FSHashProofs`.** `SessionsAreSound`: the invariant is `SessionInv`. `Flight` says
that an accepted event is in one place, the channel or one worker, and nobody has told
its caller yet; `FilterHolds`, that two calls for one file which both got past the
filter did so in different sessions. The second is what the atomic test-and-add gives,
and it has to be about calls between filter and answer as well as finished ones.
`Accepted`: an accepted event is decided or in flight, and a worker leaves only an
empty channel that is shut, so `Close`, which waits for all workers, leaves nothing
undecided; this is where a worker has to exist. `Tracked` connects the tracker with
what was answered and with what `Finalize` has read.

`HashesAreSound`: the invariant is `SessionInv` with `HashInv`. `Chains` says that a
layer's chain is built once and by whom; `MarksStay`, that what a call has seen when it
began is still so, since marks only accumulate. `OwnerKnown` is about a worker between
two reads: the layer that it took for the owner is in the chain, and none of the layers
it has passed hides the file or had it modified when the call began. `Entries` says
that cache and tracker hold hashes of files as layers have them. With these, each of
the worker's later checks may be late, but never earlier than the call.

`GatesDecideAlways` (in `CompositeProofs`): the invariant is `GateInv`. `AnswerInv`
says without counting that an answer which was sent is in the channel or with one
wait, and one that was not sent is nowhere; that the two numbers of `AnswersKept`
add up to one follows. `WaitInv` says that a wait that goes on has decided nothing,
and that only the channel's approver hands out answers.

**`FilesProofs`.** That dirsync and dirpruner implement `Pruning` takes two arguments
each: what reaches the batcher is meant to go, and what is meant to go reaches it.
`RemovesAsPromised`: the invariant is `PipeInv`. `PipeShape` says that each entry in a
channel or with a worker comes from the walk, and that "same" is said only of what is
the same; hence `OpsMeant`. `NoneLost` says where an entry that is meant to go and
still there can be, as long as nothing failed and nobody cancelled: ahead of the
classifier, in one of the channels, with one of the workers, or in the batcher. The
stages drop entries only once the context is done, and then the run does not end well.
`PipePhases` is the order of the stages: without "the hash stage ends last" a flush could
pass an entry that is still being compared. What the walk is about enters by
`WalkIsRight` alone; a removal may take what `Overreach` allows, and one that fails or
is refused is an error of the run.

`PrunesAsPromised`: the invariant is `PrunerInv`. The walk is a stack of frames, one for
each directory it is in. `WalkShape` says that the frames are a path from the root and
each points at the entry the next one is in. `KeepTells` is what the `keep` of a frame
knows: it is set only when something below stays, and when it is not set nothing that
stays and that the walk can see is below what has been passed. So a directory that is
left without `keep` is removed rightly, as far as the walk can see (`ShowsNone`, `Blind`),
and one that has it holds something that stays. An unseen entry is an error of the run,
which is why a run without one has removed all the rest. When the context is
done a walk leaves directories early, with frames that know too little; `JobsMeant`
therefore speaks of what was enqueued before, and of what the workers do with the
rest: they drop it. `AllFound` is the counterpart of `NoneLost`, with the frames as
what is still ahead.

`EngineSoundAlways`: the invariant is `EngInv`. `RightEntries` is what an entry of the
cache may say: what shows through every stack with its layer on top and, when the layer
itself has the file, the hash of that file. It is needed because each hash is stored
under two keys, and either may answer for another stack later; it is kept by
`OwnerEntries`, the one place that uses `ToldApart`. `OwnerInv` and `ResultInv` follow an
event from its owner to its leaf. `FlightInv` and `HashingInv` tie each of the two tables
of coalesced calls to the one event that leads the call, which gives one reader per
file and a leader for whoever joined. `ChanInv` says that a queued event is in the
channel or with the dispatcher, and that a dispatcher which ended left a closed, empty
channel; `Stop` waits for it and for the workers, so it leaves nothing. In `TreeInv` a
builder's generation is never 0, the value for "none", so that taking a vertex's builder
out cannot lose one.

Only model-checked: liveness (fairness and `ENABLED` are out of the prover's
reach; so is `NobodyStuck`, which speaks of `ENABLED` although it is an
invariant), and the invariants of the modules that no `Proofs` module extends.
Of `RecordsSound` the part `HistoryBounded` stays with TLC: it is about a fold
over a history of any length. What recursive definitions compute on all inputs
(`GraphsAndTreesSound`, proofs of fshash's trees included, is about `RECURSIVE`
operators of `LLBGraph` and `HashTree`; in `TreesExact` trees and diffs are
folds; the walk of dirsync and the comparison of files in `DirTree` are
recursive functions) would need induction over data, which the prover cannot do;
it is checked on bounded inputs.

## What the checks found

Five runs end in a counterexample. Each checks one sentence of the repository;
`findings` in `PROJECT.json` quotes it.

* `registry_duplicate`: two `Writer` calls for one ref both succeed, because the
  tracker is not locked during the push and the result of `Add` is ignored.
* `registry_panic`: `Abort`, `Close` or a `Commit` on another goroutine closes
  the channel between a `Write`'s remote write and its send.
* `runc_shared_ns`: `Run` closes its namespace twice, so the pool contains it
  twice and later gives it to two containers. `SoleOwnership` shows that the pool
  is not at fault as long as callers put once.
* `runc_process_stdin`: closing the terminal does not end the helper that reads
  the caller's stdin, so the call waits for the caller.
* `snapshot_error`: a worker whose call was interrupted can deliver its context
  error before, or instead of, the error that caused the interruption.

## Observations

Met while modelling, without a run of their own. Those marked (M) were seen in a
counterexample of a model; the worlds or inputs that lead to them are then left
out of the passing runs, or the property is stated for the rest. The others were
read in the code.

**Executors.** A request that is cancelled before the PID is known is not acted
on until it is (M). A `Kill` that fails before its deadline is retried with a
new deadline, without end: while it does, a cancelled request waits, and
`runcCtx` is not cancelled, though it is to be "after the 7 s window"
(`process.go:27-33`, 62-64) (M). `pool.go:191` stamps `lastUsed` before taking
the lock, and a put during the grace period can lose its cleanup request
(`pool.go:208`). `container.go:64` has room for one error on `done`.
`kill.go:126` signals the PID it read from the pidfile, which may be stale.
`Record` after `Close` of a sampler starts a runner that ends at once
(`sampler.go:84`); `RecordNamespace` may start a record that the closing monitor
does not see, although "no new records will be started" (`monitor.go:138`) (M);
operation records are never deleted; a collection with one failing controller
delivers no sample. `ENOTSUP` makes the reader of any file but one of pressure
fail, and a required `/proc` file that is missing the whole sample, though
`parse.go:10-14`, `controller.go:31-32` and `sys_linux.go:38-40` have both count
as absent (M). Sums over devices, microseconds as nanoseconds and 64-bit counts
in 32 bits wrap without an error (M).

**Snapshots, conversion, export.** In an image that repeats a layer two workers
fill one active snapshot, since its key is the diffID (M). The deferred wait of
`convertConfig` replaces its error (`converter/default.go:362`), so that new
layers are stored under the old configuration (M); the comment at line 352 says
otherwise. "Identical layers are never converted twice" (line 147) holds only for
concurrent requests. `PushByDigest` still pushes names; `ExportRequest.Store` is
never read; an attestation manifest is referenced by nothing; an epoch of 0 counts as unset.
`commitLayers` "persists each layer blob" (`writer.go:89`; `instance.go:34`: "Commits all
layer blobs") but neither writes nor looks for them, so that an image can be named and
pushed whose layers are not in the store (M). Without an image store an export that is
to store its names succeeds and stores none (`instance.go:87`), though "nil dependencies
cause Export to fail gracefully" (`exporter.go:218-219`) (M).

**Content stores.** A goroutine that finds a pool entry whose dial is in
progress gets a nil registry (`backend_oci.go:106`) (M). A lookup of `Info` that
a change has overtaken puts the old version back into the cache, where it stays
until it expires (M); a commit without an expected digest invalidates nothing
(`writer.go:148`) (M). Updates of a B2 object's labels that overlap lose one
another's labels (`b2/store.go:253-283`) (M). The slow path of `ReadAt` ignores
its offset (`reader.go:60`). A failed write to the local cache fails the remote
read. A B2 object is published at the end of its upload even if `Commit` fails
or is never called, and `Write` blocks after a failed upload. The fan-out
store's `Info` says not-found when its stores failed otherwise. The event bus
promises an order (`bus.go:11`) and iterates over a map.

**Sources.** A body of exactly `MaxBytes` is rejected unless the end arrives with
its last chunk (`interfaces.go:240`). `KeepGitDir` ignores the subdirectory, and
fetches of a subdirectory get no submodules. `buildFetchRequest` never sets the
signature. A chain leaves the files of a failed mirror to the next one; without a
pinned digest, or with archives that name something twice, they stay in the snapshot, and
files are written through them: `writeRegular` follows a symbolic link that is there and
truncates what a hard link shares (`unpack.go:199`), and no link's target is looked at,
though "symlink targets are validated" (line 17) (M). The client stops one redirect
before the limit it names (`fetcher.go:167`). A spec that names the hash of a tag object
has this object reported as the commit, though that is "never a tag object"
(`spec.go:206-207`; `IsCommitSHA` looks at the syntax only, `fetch.go:395`) (M).
`RequireSignedTag` "has no effect when the ref resolves directly to a commit"
(`verify.go:29-33`), yet then `verifySignature` can end in `ErrNoSignedTag`. A failed
`RemoveAll` of a bare or staging directory is ignored (M).

**layermerkle.** `Resolve` looks a file up under the top layer and the path alone
(`deduplicator.go:70`), and the hash of the owner's file is stored under them too
(line 141): of two stacks with one top layer over different bases the second gets
the hash of the first one's file, though `Resolve` is to return that "in the given
stack" (line 56) and a `LayerID` is the digest of a single layer (`event.go:14`) (M).
`ToldApart` excludes such stacks; `EngineSoundAlways` shows that for all others
leaves are right. `Submit` can panic beside `Stop` (`engine.go:210`) (M).
A leaf can be added after a vertex was finalized (`merkle.go:156`) (M). An
encoded layer stack is never decoded, since the colon that joins digests is also
within them (`fanwatch.go:115`) (M). `DeleteLayer` writes no deletion to the log
(`persistent.go:130`), and entries after a torn one are lost. The root hash does
not depend on names.

**fshash.** `Submit` beside `Close` sends on a closed channel
(`processor.go:146`); the model keeps it as a crash. Whiteout events that are
drained after `Close` are dropped, since marking returns `ErrClosed`
(`processor.go:253`). A child registered between its parent's registration and
the insertion of the chain gets a chain that lacks ancestors (`processor.go:90`).
`Finalize` of one layer resets the filter of all. An inclusion proof verifies
only where each group on the way up has two members: in a group of one or of three,
which every tree with another number of leaves or another branching has, the generated
proof fails, though `merkle/proof.go:3-5` and 22-24 describe one for every leaf (M).

**fswatch.** The watcher's channel need not be closed on cancellation while the
reader is blocked (`watcher.go:27`) (M). Filters on enrichment run before the
transformers that enrich, and always reject (`filter.go:190`). A cancellation in
the middle of a batch leaks descriptors. The first middleware registered is the
outermost, not the last as `pipeline.go:75-76`, 275-276 and `options.go:52-53` say (M).
`SnapshotAncestors` returns the key first, not "parent-first" (`snapshot/overlay.go:299`)
(M). When the context of `Run` is done, an error may be dropped although its channel has
room (`pipeline.go:226`) (M).

**dirsync, dirpruner.** A cancellation while `executeBatch` waits for a slot
leaves only the select: a goroutine without a slot takes another's token, and the
batch never returns (`batcher.go:233-242`), nor do `Flush`, `Run` and `Prune`, though "if
the caller cancels ctx, the pipeline stops" (`pipeline.go:111-112`) (M). A cancelled `Run`
or `Prune` that returns can leave entries and be `OK()`, "completed without errors"
(`pipeline.go:26-30`, 131-134, `batcher.go:212`, 244; `pruner.go:103-104`, 172) (M).
Of the ring "Flush executes all queued ops" (`batcher.go:81`) does not hold: after a
chunk that the kernel took in part, operations of later chunks stay in the queue, and an
interrupted wait loses the errors of completions that are not there yet
(`batcher_io_uring.go:423`, 437) (M). Directories that go as a whole go with what exclude
patterns exclude below them, though these "always take precedence"
(`internal/dirsync/options.go:42`) (M). Where the lower tree has a directory and the upper
one a file, goroutines remove the file, though paths that differ "are left untouched"
(`engine.go:50-51`), and the ring reports an error (M). dirpruner removes a directory
whose matching entries it could not read or look at: the error is counted, and nothing
tells the parent to stay (`pruner.go:260-283`; "Matching entries are left untouched",
line 132) (M). It calls `dirsync.NewPatternFilter` with four arguments for
one result (`pruner.go:361`), where that function has three and two (`filter.go:86`), so that
the package does not compile as committed; the model is of what it does with this call
mended. A `Submit` between the flush of `Close` and its flag is
accepted and never executed (`batcher_goroutine.go:139`). Same size and time
count as equal contents.

**LLB client.** "States are immutable" (`state.go:24`), but: `Marshal` sorts an
exec's mounts in place without a lock while `Inputs` and `getIndex` read them, a
data race that can lose an input; an output's index is read before its vertex is
marshalled, so that an Inspect, which marshals in another order, keeps the
unsorted index (M); a relative directory without an absolute one before it grows
each time it is evaluated (`meta.go:94`) (M). All mounts are emitted with output
0, so the index distinguishes nothing on the wire (`execop.go:264`). A definition
from `GraphBuilder` has no terminal operation, which `Head` and `NewDefinitionOp`
expect. A matrix of scratch states only dereferences nil (modelled as a panic).
`TimeoutApprover` takes anyone's deadline for its own; an answer that comes late
decides the next wait.

## What is not modelled

Contents of blobs and files beyond what tells them apart, labels other than B2's,
events, metrics, tracing and memory. In the modelled parts: the fast path of the
snapshot pipeline for an image without layers; the CNI provider's construction
and traffic counters; the building of a runtime specification and mounts of a
`Run`, which are one step that succeeds or fails; exit codes; the TTL and
instrumented wrappers of layermerkle's caches and its reports; the text of
mountinfo; observers of dirsync; the registry of exporters and its progress;
fshash's `Invalidate` and `Clear` and the second visibility checker; of the LLB
client source-map locations, attributes of sources and solves, the merging of
metadata, `WithMaxDepth`, and asynchronous functions that build vertices.

Parts that stay out: the OCI specification builder and the layer format
converters compute a value or call an external builder and share no state
between calls; the content event bus and middleware carry nothing back into the
stores; the host and none network providers do nothing; the S3 proxy forwards
requests; the snapshotter differ is one function among stubs; the website, the
boot images and generated code are not part of the service's logic.

## Plan

Done: the parts of the inventory, their runs, the refinement of `Pruning`, and
the theorems above.

Next, theorems worth proving: `EachOpOnce` of the batchers and `ExportsSound`.
`SoleOwner` of the pool as an implementation of an abstract
allocator, and an in-order committer implemented by `SnapshotPipeline`, are refinements
worth stating.

Next, models: asynchronous LLB functions that build vertices, the TTL cache of
layermerkle, and a composition of `RuncExecutor` with `ResourceMonitor` in place
of the recorder it has now.
