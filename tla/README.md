# A verification development for zfs-mon

zfs-mon publishes the state of a machine's ZFS pools to the Ganglia monitoring
system.  This directory holds TLA+ models of its core, TLC configurations that
check them on small instances, and TLAPS proofs about all instances.

Paths of source files are written as in `PROJECT.json` without the leading
`src/`: `src/zfsmon.c` there is `src/src/zfsmon.c`.

## 1. The system

### Parts, state, operations

| part | source | state it keeps | operations |
|---|---|---|---|
| SQLite store | `src/zfsmon_sqlite.c` | in-memory tables `zpool_t`, `zpool_props_t`, `zpool_iostat_t` (and the unused `zpool_devices_t`) | register a pool, invalidate all pools, set and get a property, save and get I/O samples, list the valid pools |
| update | `src/zfsmon.c`, `zpool.c`, `zpool_prop.c`, `zpool_util.c`, `zpool_iostat.c` | the libzfs handle, an AVL list of pool handles, both for the time of one update | `zfsmon_init`, `zfsmon_update`, `zfsmon_fini` |
| bandwidth | `src/zpool_iostat.c:135-177` | none | `zfsmon_zpool_iostat_bw_rd`, `_wr` |
| Ganglia module | `src/ganglia/zfspool_gmon.c`, `zfspool_metrics.c` | `initial_pools`, `pools_cnt`, `curr_pools_time`, the mutex `pools_l`, one `zfsmon_t` | `zfsmon_metric_init`, `_handler`, `_cleanup` |
| gmetric script | `src/ganglia/zfs_gmetric.py` | a shelve file with each pool's last counters | one run per cron tick |
| debug programs, printing | `src/ganglia/ganglia.c`, `src/zpool_print.c` (empty) | none | output only |
| vendored and build files | `contrib/`, `configure.ac`, `Makefile.am`, `debian/`, `conf/` | none | none at run time |

### How they interact

gmond calls the Ganglia module; the module calls the library (`zfsmon.h`); an
update calls libzfs, whose `zpool_iter` calls back with a handle of each pool;
the callbacks write to the store; queries read the store.  All the module and
the library share is one static `zfsmon_t`.  libzfs, the kernel, the wall clock
and SQLite are external.  The gmetric script is independent: it reads `/proc`
and the output of `zpool get`, and calls `gmetric`.

### What is hard, and what makes each part correct

The repository has no tests.  `PROJECT.json` lists each hazard at its line.

* **Store.**  Rows are joined by a surrogate id under `INSERT OR IGNORE`,
  `INSERT OR REPLACE`, `ON DELETE CASCADE`, `UNIQUE` and `FOREIGN KEY`, and no
  result of `sqlite3_step` is looked at: a rejected or cascading statement loses
  data silently.  Samples are ordered and trimmed by the second of the wall
  clock.  Correct means: the tables behave as maps from pool names, a property
  changes only when it is set, at most two samples of a pool are kept, and the
  sample saved last is the one read as current.
* **Update.**  Four iterations over the kernel's pools, each reading the list of
  pools anew, while pools are imported and exported and any call can fail; most
  results are dropped.  Correct means: nothing that was there throughout is left
  out, nothing that was not there is listed, old data never replace newer, no
  handle stays open, and later updates make good what an earlier one missed.
* **Ganglia module.**  Metric indices refer for ever to the pools of the start;
  data are updated when their age by the wall clock passes `ZFS_STALE_DATA`;
  initialisation is outside the mutex.  Correct means: a handler answers for the
  pool and metric its index was registered for or not at all, never from stale
  data, always returns, and all that was opened is closed at cleanup.
* **Bandwidth.**  Differences of unsigned counters that restart when a pool is
  imported again, divided by the difference of a time stamp that restarts with
  them.  Correct means: what the pool really moved between the two samples, and
  no absurd value when counters go back.
* **gmetric script.**  State in a file between runs that may be killed at any
  point.  Correct means: no reported rate is more than the pool can do, later
  runs make good what a killed one left undone, and the values of two runs do
  not overtake each other.

## 2. Modules

| module | what it is |
|---|---|
| `ZfsmonView` | abstract specification of the store: everything keyed by pool name |
| `ZfsmonStore` | the store with its tables; claims to implement `ZfsmonView` |
| `ZfsmonStoreProofs` | the inductive invariant of `ZfsmonStore`, proved |
| `ZfsmonStoreRefinement` | its action properties and the refinement of `ZfsmonView`, proved |
| `ZfsmonListing` | abstract specification of an update: what it promises of the list of pools |
| `ZfsmonUpdate` | `zfsmon_update` on top of `ZfsmonView`, with kernel and libzfs as environment; implements `ZfsmonListing` |
| `ZfsmonUpdateProofs` | its inductive invariant, its safety properties and the refinement of `ZfsmonListing`, proved |
| `ZfspoolMetrics` | the table of metrics: what each is registered as and what it reads |
| `ZfsmonGmond` | the Ganglia module, on top of `ZfsmonListing` and `ZfspoolMetrics` |
| `ZfsmonGmondProofs` | its inductive invariant, the table of metrics and its safety properties, proved |
| `ZfsmonBandwidth` | the bandwidth functions on top of `ZfsmonView` |
| `ZfsmonBandwidthProofs` | its inductive invariant and `BandwidthIsReal`, proved |
| `ZfsGmetric` | the gmetric script, on its own |
| `ZfsGmetricProofs` | its inductive invariant and its safety properties, proved |
| `MC*` | constants and symmetry sets for TLC |

The modules are stacked, through two abstract specifications.  `ZfsmonStore`
implements `ZfsmonView`; `ZfsmonUpdate` and `ZfsmonBandwidth` INSTANCE it and
perform its actions as effects of the callbacks.  Since `ZfsmonStore` implements
the view only while the wall clock is not set back, these two have that
hypothesis in all they say of samples.  `ZfsmonUpdate` implements
`ZfsmonListing`; `ZfsmonGmond` INSTANCEs it, so that an update there has a begin,
an end and a duration, and no more is assumed of it than is checked of
`ZfsmonUpdate`.
Definitions such as `*_replacing`, `*_kept`, `Trim...`, `StaleNever`, marked
"mutant" are plausible bugs of the code; no specification uses them.  Each
property is falsified by at least one of them (`PROJECT.json`, "mutants").

### ZfsmonView

`valid`, `props`, `curr`, `prev` are what the queries `zfsmon_db_zpool_get`,
`_prop_get` and `_iostat_get` return.  The actions are `See`, `Invalidate`,
`SetProp`, `SaveIostat` and the clock.  The one subtle point is that two samples
of one second count as one.

### ZfsmonStore

A table is a set of rows, a row a record of columns, an action one
`zfsmon_db_*` call with all its SQL statements.  `InsertOrIgnore`,
`UpsertIostat`, `Trim` are the statements; `zfsmon_db_zpool_add` is called from
three others, reads of a property included, as in the code.  Abstractions: ids
are consecutive (SQLite skips some; they are only compared for equality),
`zpool_t.timestamp` (never read) and `zpool_devices_t` (never used) are left out,
ORDER BY name and the cap of 512 pools belong to the callers.  `commit` runs
outside a transaction and has no effect.  One process owns the in-memory
database, so calls do not interleave.

### ZfsmonUpdate

The kernel is the set `imported` and a counter `gen`: every change of pools or
their data raises it, and what is read of a pool is the `gen` it was read at.
This one number is enough to ask which of two readings is older, which is all
the properties need.  `pc` is the stage of the update; `namespace_reload`,
`zpool_open_silent`, `IterDone` and `IterFails` are `zpool_iter` (external, from
its use); `zfsmon_add_pool`, `add_pool`, `prop_get_all`, `refresh_iostat`,
`save_iostat` are the callbacks.  `open` holds every `zpool_handle_t` not closed.
Each step of libzfs may fail up to `MaxFaults` times.  The order in which pools
are visited is free.  Between any two steps the environment may act.

### ZfsmonListing

`valid` is what `zfsmon_zpool_all` lists, and nobody's business (empty) while an
update runs.  `stayed` and `seen` are the pools that were there all the time, and
at some time, of the update that began last.  An update that does not fail ends
with a list between the two, one that fails with a list below the second; and
when `libzfs_init` fails nothing changes.  `ZfsmonUpdate` implements it under the
mapping `updating <- pc # "idle"` (property `ImplementsListing`).

### ZfspoolMetrics

For each metric a record of what its reg function tells gmond (name, and the
field of `g_val_t`) and one of what its get function reads and fills.  `Meant`
is the reading of a name that `ReplyIsRight` holds the table against.

### ZfsmonGmond

`pc` is where gmond's collector thread is: `metric_init` (inside
`zfsmon_metric_init`), `idle` (outside the module), and in
`zfsmon_metric_handler` `called` (entry), `init` (in `zfsmon_init`), `ready` (before
the mutex), `updating` (in `zfsmon_update`), `locked` (after the check of the age),
`found` (before the get function), `got` (after it).  An update is in progress in
`metric_init`, `init` and `updating` until `update_returns`; then the clock is read.
`metric_info` is the sequence of registered metrics, `connections` the open
databases, `v` the handler's local variable: the pool and get function that
filled it, or `None` for the zeroed `g_val_t`.  Time is relative: `since` is
`time(NULL) - curr_pools_time`, capped at `ZFS_STALE_DATA` (beyond it nothing
distinguishes values), negative after the clock is set back.  `age` is history:
while a database is open, the time since the *begin* of its last successful
update, the moment the data may be from, or since it was opened; it starts anew
when `zfsmon_fini` throws the data away.  `took` is how long the last update took
up to the reading of the clock.

### ZfsmonBandwidth

A pool has three counters: `vs_timestamp`, bytes read, bytes written.  They start
at zero at every import; `total` is history, the same counters over all imports,
and says what really happened between two samples.  `zpool_open_silent` is
`zpool_iter` opening a handle, which caches the counters of that moment;
`save_iostat` saves what the handle has cached, whatever became of the pool in
between, by `ZfsmonView`'s `SaveIostat`, so that a second sample in a second
replaces the first.  The wall clock `now` that gives these seconds goes forward on
its own, faster or slower than the pools' time `time`; it is never set back.
`outdated` and `seconds` are history: the pools imported since a handle was
opened last (no sample out of an earlier handle counts from their import), and
in how many seconds a pool was sampled with counters of its last import.  A
`double` is an exact quotient; rounding is left out.  `Minus` is modulo `Word`.

### ZfsGmetric

`pc` follows the script: `iostat` (the loop over the pools), `read` and `saved`
(within one round), `props`, `wait`, and `idle` between two runs.  `iodb` is the
shelve file, `gmetric_pids` the gmetric processes that run, those of earlier runs
included.  `Kill` ends a run anywhere; what `save_iostat` wrote has been synced,
and of the deletions of `clean_iostat` any part may have been.  `read_io_fails` is
the bare `except`: the pool is gone, or it is there and its counters cannot be
read or parsed, up to `MaxErrors` times; `unread` is history, the pools a run has
skipped that way.  `setback` and
`prompt` in an entry are history: how often the clock had been set back when it
was stamped, and whether the counter was read at that same time.

## 3. The runs

| run | instance | shows |
|---|---|---|
| `store` | 2 pools, 1 property, 2 values, 2 statistics, seconds 0..3, clock advances | `IInv`, `SavedSampleIsCurrent`, `ImplementsView` |
| `store_clock_back` | the same, clock may be set back | `TypeOK`, `IostatBounded`, `PropsChangeOnlyWhenSet` still hold |
| `store_clock_back_sample` | the same | **violation** of `SavedSampleIsCurrent` |
| `update` | 2 pools, 1 property, 2 changes, seconds 0..1, 1 failure, fair | `TypeOK`, `ListedWereSeen`, `SamplesOrdered`, `OnlyRefreshLeaks`, `UpdateIsComplete`, `DataNeverOlder`, `ImplementsListing`, `Converges` |
| `update_leak` | the same | **violation** of `NoHandleLeak` |
| `update_rc` | the same | **violation** of `ZeroMeansSuccess` |
| `gmond` | 2 pools, all metrics registered, 5 indices, 1 failure, 1 clock setback, updates of up to 1 s, fair | `TypeOK`, `FreedOnCleanup`, `ReplyIsRight`, `AnswersForPoolsThere`, `FreshUnlessMishap`, `HandlerReturns`, `PoolComesBack` |
| `gmond_fault` | the same, no setback, updates that take no time | **violation** of `FreshWhenServed` |
| `bandwidth` | 1 pool, 3-bit counters, 4 units of time, seconds 0..2 | `TypeOK`, `BandwidthIsReal` |
| `bandwidth_possible` | the same | **violation** of `BandwidthIsPossible` |
| `gmetric` | 2 pools that move no data, 2 killed runs, 1 read error, fair | `TypeOK`, `ReportsInOrder`, `FileIsCurrent`, `FileConverges` |
| `gmetric_rate` | 1 pool, up to 1 byte in a unit of time, times 1..4, 1 killed run, 1 read error, 1 setback | `RateIsPossible` |

### Why the bounds are enough

* *Two pools*: one the property is about and one that could interfere (hand over
  its id, its handle, its index, end the iteration).  No action relates three.
* *Seconds 0..3* in the store: the trim keeps two samples, so four distinct
  seconds give a third and a fourth sample that must displace the right one.
  With a clock that goes back every order of four stamps occurs.
* *`MaxGen = 2`*: a pool leaves and comes back, or a pool changes between two
  stages and once more later.  With `MaxGen = 3` (4.97 million states up to symmetry) the
  properties hold too.
* *`MaxTime = 1`* in `ZfsmonUpdate`: samples of one second and of two.
* *`MaxFaults = 1`*: one failure at any point, with updates before and after it.
  With `MaxFaults = 2` (4.7 million states) `ZfsmonUpdate` has no error either.
* *`ZFS_STALE_DATA = 2`* is the value in the code, *`MaxBack = 1`* one negative age.
* *`MaxSlow = 1`*: an update can end in another second than it began in.
* *Indices* in `ZfsmonGmond`: a property sent as a string, both bandwidths, the
  first metric of the second pool, and one past the registered ones, gmond's
  terminator.  When only one pool is registered the last two are out of range.
  What `ReplyIsRight` says of these metrics the assumption `TableIsRight` of
  `MCZfsmonGmond` says of all of them, and the lemma of that name proves it.
* *Four units of time, seconds 0..2*, in `ZfsmonBandwidth`: samples of three
  seconds, several in one, an import between any two or between a handle's
  opening and its sample, and seconds in which no time passes for the pools.  Pools
  do not interact there, so one is enough; that a pool's samples are its own is
  `ImplementsView`.
* *Two runs for `ZfsGmetric`*: what the file holds and which processes run does not
  depend on the numbers in it, and the rates of one pool do not depend on
  another.  Two kills include a run killed right after one that was killed, and a
  read error can hit the next run, or a pool that was just imported again;
  four times and a setback give entries of before and after it in any order.

### Deadlock

It is checked in every run: even a module that was cleaned up leaves the kernel
and the clock to act.

### Fairness

* `ZfsmonUpdate`: `WF(UpdateStep)`.  The caller updates periodically
  (`src/zfsmon.c:63`) and a call into libzfs returns.  Nothing is assumed about
  the kernel or about failures; `Converges` is about what holds once they rest,
  which the bounds on their number make them do.
* `ZfsmonGmond`: `WF(HandlerStep)`, a called handler runs on and its update ends;
  `WF(Tick)`, time passes; `SF(CollectAgain)`, gmond asks for its metrics every
  `collect_every` seconds (`conf/mod_zfsmon.conf`), although "no handler is running"
  is true only now and then.
* `ZfsGmetric`: `WF(ScriptStep)`, a run goes on and another is started after it,
  which is what its file is for; weak fairness of `GmetricExits`, a process that
  sends one value ends.

## 4. What is proved

Every safety property of the passing runs, invariant or action property, and both
refinements are theorems, for every value of the constants: any pools,
properties and values (the store's may be infinite sets), any number of
failures, kills, setbacks and seconds, since the bounds of the runs are constants
too.

### From which assumptions

Nothing is assumed but the named `ASSUME`s of the modules, which TLC evaluates in
each run.

* `StoreConstants`, `UpdateConstants`: bounds are natural numbers, `None` is
  none of the values it stands beside.
* `GmondConstants`: the same; pool names are distinct; the handler is called
  with indices of metrics all pools together could have, or of the terminator; and
  there are fewer than `ZFSMON_MAX_POOLS` pools, section 6.
* `BandwidthConstants`: no counter wraps by itself, in `MaxTime` units of time and
  at full speed (`2^64` ns are 584 years).  That it wraps by a *difference* is
  not excluded: that is the property.
* `GmetricConstants`: the same as the first.

`SavedIsCurrent` and `StoreImplementsView` have the hypothesis that the clock is
never set back; without it they are false (section 5).  `ZfsmonUpdate` and
`ZfsmonBandwidth` inherit it from `ZfsmonView`: `SamplesInOrder`, `Complete`,
`NeverOlder` and `BandwidthCorrect` hold as long as the clock is not set back.  If
it is, the older of the two stored samples can be the newer one, and the unsigned
differences wrap without any import.

### Along which argument

In each module `IInv` is an inductive invariant: `InitIInv`, one lemma for each
action or group of actions, `NextIInv`, and `Invariance`: `Spec => []IInv`.  TLC
found no violation of any of them on the instances of the runs before it was
proved (the store's is checked in run `store`; for the others add
`INVARIANT IInv` to the run's configuration and let its MC module extend the
proofs).

**Store** (`ZfsmonStoreProofs`, `ZfsmonStoreRefinement`).

* `TypeOK`: in particular `valid` is never NULL after a call;
* `IdsUnique`: ids and names determine each other, and no id is above
  `seq`.  The second half is what makes the id of an INSERT new;
* `RowsOwned`: every property and sample belongs to a pool that is there; with
  `IdsUnique` it gives that a *new* id owns no rows, without which registering a
  pool could give it another's data;
* `KeysUnique`: one value of a property, one sample of a second;
* `IostatBounded`: no three samples of a pool with different stamps;
* `NotFromTheFuture`: unless the clock is set back no sample is stamped later
  than now.

Since `zfsmon_db_zpool_add` is a part of four actions, the proof starts with
lemmas on what it does to rows, ids and the result of `zfsmon_db_zpool_get_id`
(`AddRows`, `AddIds`, `AddedId`, `AddKeepsOwners`).  `PropsStable`
(`PropsChangeOnlyWhenSet`, with any clock) is carried by `AddKeepsView`
(registering leaves the rows of every pool in place) and `PropAddValue`.
`SavedIsCurrent` (`SavedSampleIsCurrent`) is carried by `SaveRows`: what the upsert
and the trim leave of a pool is the new sample and the newest one of an earlier
second; it needs `IostatBounded`, `KeysUnique` and `NotFromTheFuture` together.
`StoreImplementsView`: every call of the store is one action of `ZfsmonView` under
the mapping by queries, or a stutter.  It is what allows `ZfsmonUpdate` to be
built on the view.

**Update** (`ZfsmonUpdateProofs`).

* `IterInv`: `zpool_iter` leaves nothing behind for the next stage and visits
  no pool twice.  It is why a handle in the list is the only one of its pool;
* `OpenInv`: an open handle is in the list, or the current one, or was left by
  `refresh_iostat`.  At the end of an update the first two are none:
  `OnlyRefreshLeaks`;
* `SeenInv`: everything an update may yet visit or holds a handle of was seen;
  `ListedWereSeen` alone is not inductive;
* `AgeInv`: a handle is of this update, not from the future, and not older than
  what the store has of its pool *as long as that is still to be replaced by what
  it reads* (`todo`).  It gives `DataNeverOlder`;
* `SamplesInv`: `SamplesOrdered`, and no sample is stamped later than now;
* `CompleteInv`: what an update without a failure has done so far for a pool
  that stayed, stage by stage (`DoneFor`).  At the last step it gives
  `UpdateIsComplete`.

`UpdateImplementsListing`: the begin, the end, imports and exports are those of
`ZfsmonListing` and all other steps stutter; the end needs `SeenInv` and
`CompleteInv`.

**Ganglia module** (`ZfsmonGmondProofs`).

* `LibraryInv`: `pc` and `curr_pools_time` tell whether the database is open,
  and only where an update is called can one be in progress.  It gives
  `FreedOnCleanup`;
* `ListedInv`: outside an update the list is what the last one left, although
  queries can register pools: `get_metric` does so only for a pool that is listed;
* `RegisteredInv`: the registered metrics are those of `initial_pools`;
* `CallInv`: what the handler has found out so far is about its index's pool;
* `AgeInv`: data are no older than `since + took`.

The lemma `IndexFinds` says that the two loops of `zfsmon_metric_init` and the
division and remainder of the handler are inverse to each other for any number of
pools, and `TableIsRight` that each row of the table reads what its name says.
`ReplyIsRight` follows from these two, `RegisteredInv` and `CallInv`,
`AnswersForPoolsThere` from `ListedInv` in addition, `FreshUnlessMishap` from
`AgeInv`.  `InBounds` shows on the way that the handler reads `initial_pools` and
the table within their bounds.

**Bandwidth** (`ZfsmonBandwidthProofs`).

* `InOrder`: both samples and the kernel's counters (over all imports) are in
  order, and counters do not move while their pool's time stands still: a
  distance of zero means that nothing was moved;
* `Possible`: no counter is beyond what fits in a word;
* `HandleInv`: what a handle has cached is not older than the newest sample of its
  pool, not newer than the kernel's counters, and counts from the pool's last
  import unless the pool is `outdated`;
* `OutdatedInv`: of an outdated pool no sample counts from its last import;
* `NeverAgain`, `Sampled`: a pool that was never imported again, and samples saved
  out of handles opened since the last import, count from a common start, so that the difference
  of two samples is the real one (`DifferencesAreReal`), neither negative nor too
  large for a word (`MinusIsExact`).

**gmetric script** (`ZfsGmetricProofs`).

* `EntriesInv`, `RoundInv`: an entry of the file, an absent one, and the entries
  a rate is computed of are *before* what follows them: if the clock was not set
  back in between, the counter has grown by no more than `Peak` times the distance.
  `BeforeTransitive` carries it over time, `Stamped` over the late time stamp,
  `RateOfEntries` to `RateIsPossible`;
* `FileInv`: what the loop has visited, skipped and stored.  It gives
  `FileIsCurrent`;
* `ReportsInv`: without a kill no process is left behind by its run.  It gives
  `ReportsInOrder`.

### What is only model-checked

* The liveness properties `Converges`, `HandlerReturns`, `PoolComesBack` and
  `FileConverges`: they hold under fairness, and ENABLED is out of the prover's
  reach.
* That the set of pools has exactly one sequence in order (assumption `OneOrder` of
  `MCZfsmonGmond`; `InOrder` is what `ORDER BY name` promises, and the theorems hold
  for whichever element of it is returned).  It would take an induction over
  the number of pools.
* The five violations of section 5: TLC's counterexamples are their evidence.

## 5. Where the code departs from what it says

1. *Samples follow the wall clock, not arrival* (`zfsmon_sqlite.c:219`).  After
   the clock is set back the sample just saved reads as the previous one, or is
   deleted in the call that saved it, until the clock has caught up.
2. *`refresh_iostat` leaks a pool handle* (`zpool_iostat.c:28`) whenever the
   refresh fails or the pool is gone.  `OnlyRefreshLeaks` shows that it is
   the only place.
3. *`zfsmon_update` returns 0 after failures* (`zpool_util.c:126`): only the first
   iteration's result reaches the caller.
4. *A failed update counts as an update* (`zfspool_gmon.c:163`): if `libzfs_init`
   fails in it the pools of the last successful update stay listed, and their old
   data are served as fresh for another `ZFS_STALE_DATA` seconds.  `FreshUnlessMishap`
   shows that this and a clock set back are the only ways to serve data older
   than `ZFS_STALE_DATA` seconds plus the duration of their own update.
5. *The bandwidth wraps when a pool is imported again* (`zpool_iostat.c:148`): the
   older sample is from before the import, its counters are larger, and the
   unsigned differences are close to `2^64`.  `BandwidthIsReal` shows that, with
   a clock that is not set back, it is right again once the pool has been sampled in
   two seconds through handles opened after the import, and that neither the zeros
   for a missing sample nor two updates in a second do harm.  A sample saved after
   the import, but out of a handle opened before it, still has the old counters.

Two things that are no departure from any text, and that the models show: a pool
without an entry in the script's file reports a mean since the epoch, not a spike
(`RateIsPossible`); and a clock that is set back harms one report of each pool,
or two if it is set back between the reading of a counter and its time stamp.

## 6. What is not modelled

* `ZFSMON_MAX_POOLS` pools or more: `zfsmon_db_zpool_get` then returns an array
  without its NULL and its readers run past it.  `GmondConstants` assumes fewer.
* Units, titles, number formats, `sscanf`; the name of a metric is told apart
  but not spelled out.
* More than one thread in the Ganglia module.  gmond has one collector thread.
  `zfsmon_metric_handler` initialises before it takes `pools_l`, so a second thread
  could open a second database; the mutex alone does not make the module safe
  for that.
* The checks for tools and permissions at the start of the gmetric script, which
  skip whole parts of it; runs of it that overlap, for the repository does not
  say how it is started; the parsing of `zpool get`.
* Memory exhaustion, SQLite errors: the code does not handle them.
* The two `verify()`s of `save_iostat` (`zpool_iostat.c:116-117`), which abort the
  process when libzfs returns a configuration without counters.
* `zfsmon_db_dump*`, the debug programs.  The vendored SQLite headers
  (`contrib/`, four fifths of all lines) declare a library that is modelled by
  the meaning of the statements the store executes; build files do nothing at
  run time.

With these the code's own behaviour is covered.

## 7. Plan

Done, in this order: `ZfsmonView` and `ZfsmonStore` with their proofs, because
everything else reads and writes the store; `ZfsmonUpdate`, the system's main
operation; `ZfsmonListing` and `ZfsmonGmond`, its caller; `ZfspoolMetrics`;
`ZfsmonBandwidth`; `ZfsGmetric`.

Then the proofs, in the order of the modules: the inductive invariants of
`ZfsmonUpdate`, `ZfsmonGmond`, `ZfsmonBandwidth` and `ZfsGmetric`, the safety
properties, and the refinement of `ZfsmonListing`.

Next, what the theorems leave open:

1. How far the claims of section 5 that the code breaks do hold: `NoHandleLeak` as
   long as `refresh_iostat` does not fail, `FreshWhenServed` without failures and
   with updates that take no time, `BandwidthIsPossible` of pools that were never
   imported again.
2. The converse of `ZeroMeansSuccess`: a result other than 0 means that libzfs
   failed.
3. The safety half of the liveness properties: what is done is not undone while
   the pools and failures rest.
