# A TLA+ verification project for LingNet Agent OS

LingNet Agent OS is an agent daemon in Zig with a Python model-routing layer
and eBPF audit programs.  This directory models the parts of it whose
correctness depends on the order of events: modules, the configurations that
TLC checks, and proofs that TLAPS checks.  `PROJECT.json` lists the components,
runs, mutants, findings, hazards and theorems in machine-readable form and maps
every definition to the source lines it stands for.

    tlc -workers 2 -config PoolsConcurrent.cfg MCGqapPools.tla
    tlapm GqapLifecycle_proofs.tla
    tlapm ModelRouter_proofs.tla
    tlapm RouterCore_proofs.tla
    tlapm RouterCounts_proofs.tla
    tlapm ModelClients_proofs.tla
    tlapm Condenser_proofs.tla
    tlapm GqapPools_proofs.tla

## 1. Inventory

| Component | Source | State | Operations |
|---|---|---|---|
| GQAP arena pools | `sdk_arena_gqap.zig` | three lock-free stacks of blocks with counts, block flags and retirement generation, the global generation | `Arena.init/alloc/deinit/deinitAndZero`, `popSafe`, `sanitizeOne`, `incrementGeneration`, `getStats` |
| Boot, sanitizer thread | `src/boot.zig`, `src/main.zig`, `src_boot.zig` | boot result flags, pools | checks, `initPools`, `startSanitizerThread` |
| Orchestrator | `src/orchestrator.zig` | VRF list and lock, next id, sanitizer flag, active skills | `createVrf`, `destroyVrf`, `startSanitizer`, `registerSkill`, `unregisterSkill`, `getStats` |
| Skill loaders | `src/skill_loader.zig`, `src/l2_loader.zig`, `skills/dynamic/generator.zig`, `src_skill_loader.zig` | lists of skills with state, handle and arena | register, load (L1, stub, L2, file, memory), `execute`, `pause`, `unload`, `generate`, `remove` |
| Skill scheduler | `src/skill_scheduler.zig` | priority queue, completed list, next id | `submit`, `tick`, `cancel` |
| Model router | `python_router_core.py` | cost tracker, statistics, provider statistics, asyncio tasks | `route` by race, smart or uniform strategy, `_call_provider` with retries, `charge` |
| Router core | `python/router_core.py` | provider status and counters, round-robin index, totals | `route`, `route_race`, `health_check_all` |
| Model clients | `python/model_clients.py` | per call: attempt, last error, an open `AsyncClient`; the event loop | `create_provider`, `complete`, `acomplete` of eighteen providers over `_post`, `_apost` with retries |
| Condenser | `python/condenser.py` | the conversation it is given back, two totals | `condense`: dedup, sliding window, summarize |
| Switch engine, switch table | `src_switch.zig`, `src/switch.zig` | L0/L1/L2 tables, generation, two locks | `lookup`, `hotReplaceL1`, `addL2Entry`, `registerL0/1/2` |
| MRC data plane | `nullclaw-mrc.zig` | CAM table, flow buckets with locks, counts | `add`, `remove`, `lookup`, `insert`, `classify` |
| VFS adapter | `sdk/vfs.zig` | tree, file count, total size | `createFile`, `createDir`, `deleteFile`, `resolve`, `checkPermission` |
| Arena audit | `ebpf_arena_audit.bpf.c` | per block: recorded state, generation | hooks on alloc, deinit, reuse |
| Kernel and network bindings, sandbox, metrics, CLI, V1 compatibility, eBPF filters, built-in skills | see `PROJECT.json` | none that outlives a call | I/O, encodings, stubs |

How they interact.  Everything that runs skills takes its memory from the GQAP
pools: VRFs from the trusted tier, loaded and generated skills from the
untrusted one; the sanitizer thread that boot starts moves retired blocks from
the quarantine to the L2 pool; the audit hooks watch these moves.  The switch
engine drops packets older than the generation counter that the pools also use.
A skill's entry point runs inside `execute` and may call the loader again.  The
Python routers are called from the daemon and call the providers; their
statistics decide the next choice.

What is hard, and what makes each part correct:

- *Pools.* Threads interleave at every load, store and compare-and-swap.
  Correct means: a block is in one place at a time; untrusted data never reaches
  the trusted side; a retired block waits for two generations; the flags say
  where a block is; what the L2 pool holds is zeroed; retired blocks come back.
- *Boot and orchestrator.* Threads start before the flags that describe them
  are set; statistics are read without the lock; error paths take a block and
  fail.  Correct means: one sanitizer, a flag that agrees with it, no block lost.
- *Skill loaders.* Re-entrancy: an entry point loads, pauses or unloads skills
  while `execute` holds a pointer into the list.  Correct means: the state a call
  writes is that of its own skill, and every failure path gives back what it took.
- *Routers.* Every `await` and every released lock is a scheduling point;
  answers race timeouts and cancellation.  Correct means: a request gets an
  answer by its timeout, spending stays within the budget, a provider's status
  follows its failures and recovers.
- *Model clients.* A post that timed out may have been answered; a coroutine
  may be cancelled inside a post or a sleep; one client blocks the event loop.
  Correct means: the response tells what happened, an answer that was heard is
  not asked for again, whatever way a call ends its client is closed and the
  loop is free, and every layout of the payload sends what was said last.
- *Condenser.* Three algorithms work on each other's results, again and again
  on the same conversation.  Correct means: they only select, keep the budget
  and the prompt, drop the less important first, and a second pass finds
  nothing to do.
- *Switch, MRC, VFS, audit.* Replacement during lookup, counters under the
  wrong lock, quotas over long sequences of calls, and an audit that must not
  accuse legal sequences.

## 2. Plan

Order of work; a module depends on those above it.

Done:

1. `BlockCustody` (abstract promise), `GqapLifecycle` (call level), `GqapPools`
   (memory-access level), with the refinements `GqapPools` => `GqapLifecycle` =>
   `BlockCustody`, and the proofs `GqapLifecycle_proofs` and `GqapPools_proofs`.
2. `ModelRouter`: racing tasks, charge, retries, timeouts, cancellation and
   fallback at each `await`; one passing run, one for the fallback, and the
   proofs `ModelRouter_proofs`.
3. `RouterCore`: threads in `route`, health checks and races; one passing run,
   one for the status that is written unlocked, and the proofs
   `RouterCore_proofs` and `RouterCounts_proofs`.
4. `ModelClients`: the eighteen clients, their retries and their event loop; one
   passing run and the proofs `ModelClients_proofs`.
5. `Condenser`: the pipeline over growing conversations; one passing run and the
   proofs `Condenser_proofs`.

Left:

6. `MrcDataPlane`: flow buckets with a lock each and one count for all.
7. `Vfs`: the tree and its quotas over sequences of calls.
8. `ArenaAudit`: the recorded state of each block beside `GqapLifecycle`, to
   find which legal sequences it reports.
9. `SwitchEngine`: the replacement of the table and the generation it
   publishes, once `lookup` has a generation to compare (section 6).
10. Proofs about these modules, as sections 3 and 5 have them for the others.

## 3. Modules

`BlockCustody` says who has a block and along which edges it changes hands.  It
has one variable and no mechanism.

`GqapLifecycle` has one action per call.  `pool[p]` is the stack that the head
and `pool_next` pointers of a pool spell, `transit[p]` the blocks that a thread
has given to that pool's push and not linked yet, `washing` those between
`popSafe` and the L2 push of `sanitizeOne`.  `arena`, `flags`, `retired_gen` and
`generation` are the code's.  `residue[b]` abstracts a block's memory to the
tiers whose data it holds: `alloc` gives the memory out, so its user may or may
not write; zeroing empties it.  `InitUntrusted` has the three sources of
`Arena.init` without requiring that the earlier ones be empty now, because they
were found empty at an earlier moment.

`GqapPools` splits each call at its shared-memory accesses: `PopHead`,
`PopNext`, `PopSwap` for the two `pop` functions, `SafeHead` to `SafeStore` for
`popSafe`, `PushHead`, `PushLink`, `PushSwap` for the three `push` functions,
`CountUp` and `CountDown` for the counters, which wrap at `CountMod`.  `th[t]`
holds a thread's program counter and locals.  Accesses to a block that only
this thread owns are folded into the next shared one.  The memory is
sequentially consistent: the code uses acquire and release on every shared
pointer, and the properties do not relate two locations written without them.
`Chain` reads the stacks off the pointers; under the mapping `pool <- Stack`,
`transit <- Pushing`, `washing <- Washing` the module implements
`GqapLifecycle`.

`ModelRouter` has one action for each stretch of a coroutine between two
awaits; asyncio runs nothing else in between.  `request[r]` is where `route` is
with a request, `call[r][s]` the `_call_provider` coroutine of candidate `s`, or
in slot `Own` the one that `route` awaits itself, here or in the fallback
router.  `fallback_strategy` may be any strategy: a fallback that races has slots
of its own (`Seconds`), and its racers are charged to the one fresh tracker of
the fallback router (`OnFallbackAccount`); as its own fallback is none, it races
once.  `charge[r][s]` is the job that `charge` gives to the executor: the one
thing that runs in another thread, survives the cancellation of its caller when
it has started, and may be dropped before.  A task that was created has always
reached its first await before any racer can end, so creation and first stretch
are one action (`Begin`).  A wait of `_race` sees every task that has ended when
it resumes, takes any success among them, and cancels the others (`RaceWon`).
An HTTP exchange ends in success, a status that is not retried, or one of the
three kinds of error that `retry_on_errors` names.  The configuration is a
variable that never changes, so that one run covers several.  A router is
started before it routes, as `init_router` does.  A router that `init_router`
builds from JSON has its strategy as a string, which equals no member of
`RoutingStrategy`, and so always takes the uniform branch.

`RouterCore` splits the calls of the threaded router where another thread may
come between.  A recording is three steps under the lock: `Record` takes it and
reads what the `+=` read, `Count` writes the totals and the provider's requests,
`CountFailed` the provider's failures, so that a reader without the lock (the
failover's `ReadRate`, the health check's `Visit`) sees them half done.  Nothing
locks the registry: `_select_provider`, `route_race` and `health_check_all` walk
it in steps (`Loop`, `Gather`, `Visit`), each of which looks at one provider, and
end with the "dictionary changed size during iteration" of Python when
`register_provider` or `unregister_provider` came between (`Resized`); named
racers are looked up twice, with a KeyError when the provider has gone in between
(`Name`, `Lookup`).  A walk goes on undisturbed when one provider has gone and
another one come since, as the size then is the same.  A job
of a race belongs to the call that submitted it and keeps its worker when the
caller has returned.  Of the strategies only round robin has state; the others
compare providers, and the model lets them choose any available one, as a
preferred provider is under every strategy.
`_execute` may raise, as its import of the clients can.

`ModelClients` is one module for the eighteen clients, which differ in five
fields: price, assumed usage, layout of the payload, whether they take a key,
and whether their `acomplete` is the blocking `complete`.  `Create` is
`create_provider`, `Begin` what runs up to the first post, `Post` one post and
how it ends, with eight outcomes, `Wake` what follows a sleep, `Closed` the end of
the `__aexit__` in which a coroutine waits for its client to close, `Cancel` and
`CancelClosing` a cancellation of the coroutine at the await where it is.  A
cancellation in `__aenter__` has the effect of one at the first post which the
provider does not serve; that httpx calls its client closed before it waits, so
that a cancellation then leaves nothing open, is assumed of the library.  `served` is what only
the provider knows, how many posts it has answered: a post that timed out, broke
off or met a server error, 504 among them, adds nothing or one (`Billed`,
external).  `loop` says
which call blocks the event loop; a coroutine runs only while none does
(`Runs`).  `outcomes` is history for the properties, no action reads it.

`Condenser` has two actions: `Say`, by which its user adds a message, and
`Condense`, by which the conversation becomes the output of `condense`, so that
condensed conversations are condensed again.  The pipeline is a chain of
functions on sequences, one for each method; each loop over messages is a
recursive function, and the two list comprehensions of `_sliding_window` are
`Kept` (module `Lists`), as those of `router_core.py` and `model_clients.py` are.
A message has a kind, the fields that a caller gives, the timestamp among them,
and the number of its saying, which only tells it from its equals: timestamps may
repeat and step back, as `time.time()` and a caller's own may.  A score is a
double, 0.6 times the importance plus 0.4 times the timestamp divided by 1e12.
`Weight` is what a unit of importance adds to it in units of what a timestamp
adds, so that distant timestamps outweigh importance; a double near 0.6 cannot
hold the sum exactly, and `Granule` is the number of consecutive timestamps that
round to the same score.

`MCGqapLifecycle` and `MCGqapPools` add the arena symmetry for TLC;
`MCModelRouter` adds the configurations of the router, `MCCondenser` the kinds
of messages and the settings, `MCModelClients` what the callers ask.

Definitions marked "Fault:" are variants of an operation with a plausible
mistake in it (a missing comparison, an off-by-one, a wrong pool).  No
specification uses them; each property is known to fail when one replaces the
real operation.

## 4. Runs

| Run | Instance | Result |
|---|---|---|
| `lifecycle` | 2 blocks, 2 arenas, strict mode, 5 generations | all six properties hold |
| `pools_concurrent` | 2 blocks, 3 arenas, 1 thread that opens and closes, 1 that closes, strict mode | implements `GqapLifecycle`, counters balance, lock-free |
| `pools_serial` | 2 blocks, 2 arenas, one thread as client and sanitizer, 4 generations | implements `GqapLifecycle`, L2 pool clean |
| `popsafe_races_push` | 1 client, 1 sanitizer, 3 generations | a pushed block is lost |
| `pop_aba` | 2 blocks, 3 arenas, 2 threads that open and close | a block is both free and owned |
| `quarantine_drains` | 1 block, generation not advanced | a retired block stays |
| `model_router` | 2 requests, 2 candidates, 8 configurations, 2 hours | all six properties hold |
| `router_core` | 2 threads, 2 providers, 1 worker, 2 calls, round robin | all five properties hold |
| `router_revival` | 2 threads, 1 provider, 3 calls | a failure makes an unhealthy provider available |
| `router_fallback` | 1 request, 2 candidates | a fallback cannot call a provider |
| `condenser` | 5 messages of 7 kinds, 3 condensings, 14 settings | all six properties hold |
| `model_clients` | 18 providers with and without a key, conversations of up to 3 messages, 2 calls on one loop | all six properties hold |

Bounds.  Two blocks let one be on top of another, in another pool, or with
another thread, and `NoRepeat` and `OneSite` are about pairs.  A block retired
in generation 1 is free in generation 3; five generations let it be retired a
second time and be freed again.  Two threads are enough for the races between
two accesses and their retries.  `pools_concurrent` and `pop_aba` have the same
two blocks and three arenas, and differ in how many threads pop.  The ABA case
takes a thread that is suspended in its pop, with one arena reserved, and another
that holds two blocks at a time, with two arenas more: it pops the head and its
successor and gives the head back, whose successor is then none.  With fewer
arenas it could not come up whatever the code does; with three it comes up as soon
as two threads pop, and with one it does not, however many give blocks back.
`CountMod = 4` lets the counters wrap.  The number
`MaxGen` bounds only `IncrementGeneration`.

For the router, two candidates let one racer win while the other is being
charged, posts, pauses or has ended; two requests share the account, which a
budget of two charges of one lets them exhaust, and one turn of the hour
clears.  The eight configurations reach every strategy, every fallback, an unknown
model, an unregistered provider, and a fallback's race that is won by no one
because its charges are refused, or its posts fail.  One retry is enough for the
count to matter; the fallback router has the default of two.  Where two racers
retry, the budget has one charge in the hour, so that the second is granted when
the hour has turned; where it has two, they do not retry.

For the threaded router, two threads are enough for a lost update, for a reader
in the middle of a recording, and for two races that compete for one worker.
`MaxNames = 2` lets the second of the names go while the first is looked up.  The
run has round robin alone: `Select` lets the caller take any available provider
under every strategy, and round robin adds the step with the index.

For the clients, one call alone meets every order of eight outcomes in its three
posts, under every provider and, for the layouts that change the messages, every
conversation of up to three; calls meet only on the event loop, so a second call
matters for the blocking client and one other.  For the condenser, five messages
of one to three tokens against a limit of four, or of six, overflow the budget,
the minimum and the four messages that `_summarize_trigger` keeps; the seven
kinds let the clock stand still, ascend and step back, and one of low importance
is late enough to outweigh one of high; three
condensings with messages between them let the output of one be the input of the
next.  Fourteen settings cover every strategy with and without preserved system
messages; the condenser has no other choice to make.

What the failing runs show of the code:

- `popSafe` (line 141) stores the head without a comparison.  A concurrent
  `deinit`, or the second consumer in `Arena.init` (line 203), makes it lose or
  duplicate a block.
- `CommonPool.pop` and `L2Pool.pop` (lines 94, 159) compare an untagged
  pointer: the ABA case needs two threads that pop, one of which holds two blocks
  at a time.
- The fallback router of `_race` (line 260 of `python_router_core.py`) is never
  started, so it has no session and every fallback ends in an error.
- `route` (line 184 of `python/router_core.py`) writes `DEGRADED` over whatever
  a health check has written since, so a failure can make a provider available.
- Nothing in the daemon calls `incrementGeneration`, so the sanitizer never
  finds a ripe block (line 138).

What modelling showed without a run of its own:

- `deinitAndZero` (line 255 of `sdk_arena_gqap.zig`) does not zero the untrusted
  tier, and marks the block as zeroed all the same; `Arena.init` (line 204) marks
  a quarantined block as zeroed without zeroing it.  `L2Clean` (section 5) is
  stated for runs without the first.
- `python/condenser.py`: "Never compress system messages" (line 63) does not hold
  of `_summarize_trigger`, which keeps the first message and the last three
  whatever their role, nor "Always keep at least N messages" (line 64) of a
  budget that has no room for them; `inp.strategy` (line 62) is read nowhere;
  messages whose scores round to the same stay with the older first, and a late
  message outweighs a more important one that is old enough, contrary to the
  comment at line 173; and `kept.sort` (line 187) restores the order of the
  timestamps, which is the order of the conversation (line 186) only while the
  clock ascends: messages of the same time stay in the order of their scores, and
  after a clock that stepped back they change places.  `OnlySelects`, `WithinBudget`, `Stable`,
  `ImportanceFirst` and `PromptStaysFirst` are what does hold.
- `python/model_clients.py`: a 429 sets no `last_err`, so that after three of them
  the error is a generic one, and after an earlier timeout it is that timeout's;
  both methods sleep after the last attempt too; a post that timed out or met a
  server error is repeated although it may have been billed; the local clients
  refuse an `api_key`, and the others refuse to be made without one; a missing
  `usage` costs nothing with OpenAI, Anthropic and Cohere; Cohere's `acomplete`
  blocks the event loop and cannot be cancelled; Cohere sends the last of the
  user's and tools' messages only, Anthropic the last of the system's.
  `LastTurnsReach` is what all layouts keep.
- `src/l2_loader.zig` (lines 57-61): `L2Skill.deinit` never gives its block back.

Fairness.  `GqapLifecycle!FairSpec`: the sanitizer thread is an endless loop and
a push is a loop that ends, so both keep being scheduled; clients need never
call, and no fairness is given to the generation, which the daemon does not
advance (`MaxGen = 1` in that run is the daemon's situation).
`GqapPools!FairSpec`: the kernel keeps scheduling a thread inside a call.
`ClientsProgress` then says that a call returns unless other clients' pops and
pushes keep taking effect: a failed compare-and-swap is always someone's
success.  `ModelRouter!FairSpec`: the event loop resumes what is ready, the
executor runs its jobs, and the session's total timeout ends every exchange, of
which it is enough that a request goes on somewhere while it can; a
new request, the closing of the session and the hour are not fair.
`RouterCore!FairSpec`: threads are scheduled, and as_completed's timeout is one
of their steps; jobs may hang.  The `_execute` that `route` itself calls is taken
to end: as the repository has it, it returns an answer that it makes up; with the
call of a client that its comment shows (lines 320-323) it would take as long as
that client, and `route` sets it no limit of its own.  The number of calls is
bounded, so nothing is said of a thread that starves at the lock.  `ModelClients!FairSpec`: threads and
the event loop are scheduled, and a post and the closing of a client end.  That a post ends is assumed of
the provider: httpx limits the wait for each piece of an answer, not the whole.
`Condenser` needs no fairness.  Deadlock is not checked where the bounds let the
model stop.

## 5. Proofs

`GqapLifecycle_proofs` proves for every number of blocks, arenas and
generations, from `LifecycleAssumption` alone:

- `TypeCorrect`, `Conservation`, `NeverMix`, `GracePeriod`, `FlagExact`: the
  invariants of the `lifecycle` run;
- `L2Clean`: without `deinitAndZero` the L2 pool is clean (with it, line 255 puts
  blocks with data into it);
- `CustodyKept`: the refinement `Spec => Promise!Spec`.

The inductive invariant is `IInv == TypeOK /\ BlockConservation /\ Tiering`.
None of the three parts of `Tiering` is inductive alone: that a block which
leaves the common pool is clean needs that it was in no other place as well,
which is conservation.  Conservation itself is proved from one lemma about
moves: each action takes one block from one site to another (`Moves`), all
other blocks keep their sites (`MoveKeepsOneSite`).  The refinement uses the
same moves: under `OneSite` the `CHOOSE` in `Custody` has one candidate, so a
move changes the custody of one block along one edge, and every other action
leaves it.

`GqapPools_proofs` proves for every number of blocks, arenas, threads and
generations, from `PoolsAssumption`:

- `TypesHold`: the types, in every use of the pools;
- `PoolsKeepLifecycle`: the refinement `Spec => Lifecycle!Spec`;
- `NoBlockIsLost`, `L2StaysClean`, `PoolsKeepTiers`: the invariants of the life
  cycle, of the stacks that the pointers spell;
- `CountersBalance`: a counter differs from the length of its stack by the
  updates that are due.

All but the first have the hypothesis `SafeUse`: at most one thread takes blocks
and `MaxGen <= 2`, or a single thread does everything.  The first case is any
number of threads that close arenas beside one that opens them, with a
generation that is advanced at most once: `bench_gqap.zig` advances it once, the
daemon never, so that no block ripens and `popSafe` stores nothing.  The second
is the sequential use of the tests, in any number of generations.  Outside of
`SafeUse` the refinement fails: `pop_aba` has two threads that take blocks,
`popsafe_races_push` a sanitizer that finds a ripe block.  `L2StaysClean` has
`~ StrictMode` as well, as `L2Clean` has.  `pools_serial` and
`pools_concurrent` are within `SafeUse`.

The types are inductive with the locals of each thread: which pool, block and
arena a thread has at each step of its call (`Local`).  The refinement needs
`CInv == TInv /\ Life!IInv /\ Neat`: the types, the invariant of the life cycle
under the mapping, and what pointers and locals have to do with each other.  In
`Neat`, `Spelled` says that from the head of each pool the `pool_next` pointers
lead through exactly the blocks of its stack; `Fresh`, that what a thread has
loaded is still so when it is used: the successor that a pop is about to store
is the successor of the block that it compares with, and the block that a push
is about to link points to the head that it compares with; `Apart`, that two
threads own no block and no arena together; `Stamped`, that what went to the
quarantine has a generation.  A comparison that succeeds then is a whole pop or
push of the stack, and every other access leaves all stacks as they are.  The
single place where `SafeUse` is needed is `Fresh`: a second opener could take
the block and give it back between the load of its successor and the swap.

`Stack` is what a recursive function, `Chain`, computes from the pointers.
The facts about it rest on induction over a set of natural numbers (`Least`,
`OneByOne` in `CommonLemmas`): `ChainLayers` turns the recursion into equations
layer by layer, `ChainSpells` says that `Chain` finds the one list that the
pointers spell, `SpellsTail`, `SpellsPush` and `SpellsOther` what a pop, a push and
a store elsewhere make of it.

The counters agree modulo `CountMod` (`Agree`, `AgreeSteps`, from `SameRemainder`
in `CommonLemmas`): `CountedMove` is one lemma for the four steps that disturb
one side of the equation, a pop or a push that takes effect and the two updates.

`ModelRouter_proofs` proves for every number of requests, candidates, retries
and hours, and for every configuration that `RouterAssumption` admits:

- `TypeCorrect`: the types, and that a call makes at most `retry_count + 1`
  attempts;
- `PaidBeforePost`: no exchange with a provider before its charge was granted;
- `NoneDropped`: a failure is reported only when no call succeeded, a success
  only from a call that did;
- `LosersStopped`: the calls of an answered request never move again.

The inductive invariant `IInv` adds to these what they lack.  That a retry stays
within the bound needs the counter at every point of the loop (`Attempts`).
That a failure drops no success needs to know which calls a request can have in
each of its states (`CallsInOrder`): the calls that a request waits for
(`Working`) are the racers', then those of the fallback, which may race too and
starts only after every racer has failed, and otherwise the one call of its own;
a call that it does not wait for is unused, or failed before the fallback, or is
over with the request.  That the losers stop follows from the same part, since an
answered request waits for no call.  The steps that change one call go through
one lemma (`CallGoesOn`), those that start calls through another (`BeginKeeps`),
on which the start of either race rests (`StartRaceKeeps`, with `SlotFacts` for
the slots of the two).

The same module proves `AccountAddsUp`: what the account says was
spent this hour is what the charges of this hour were granted.  The sum over the
calls is stated as the size of a set that has one element for each unit spent
(`UnitsSpent`), so that a grant adds a set of its cost, the turn of the hour
empties the set, and every other step leaves it.  The account is the router's
own: the racers of a fallback share the fallback's tracker, which has its own
ledger.

`RouterCore_proofs` proves for every number of threads, providers, workers and
calls, from `RouterCoreAssumption` alone:

- `RateBounded`: nobody who reads a provider's counts, with the lock or without
  it, sees more failures than requests;
- `RaceVerdictHolds`: a race is reported lost only when each of its jobs ran,
  raised and was recorded.

The inductive invariant is `IInv == Types /\ Recording /\ Races /\ RateAtMostOne`.
That the rate stays bounded while a recording is half done needs the lock: who
writes counts has it, and so what it has read of its provider's counts is what
they still are (`Recording`).  That a verdict is right needs that a race belongs
to one call, that a call which begins takes a number no other has, and that no
job of a race has won or was cancelled before its call found a winner (`Races`),
where a call that still walks the registry has submitted none (`Walks`);
a winner cancels the jobs of its own race only (`CancelsOwn`, `OtherRace`).
`Types` says nothing of lists of providers: it keeps their sets abstract
(`Shaped`), because the two theorems do not depend on what is in a list.  Steps
that neither count nor decide go through one lemma (`QuietStep`).

`RouterCounts_proofs` proves the other two invariants of that run:

- `TypesHold`: the types, lists of providers included.  `Kept`, which registration
  and selection use, is a recursive function over the positions of a list
  (module `Lists`); `CommonLemmas` says that it keeps the entries that are in the
  set and no others (`KeptSelects`) and repeats none (`KeptUnrepeated`);
- `TotalsAddUp`: whenever nobody has the lock, the router's totals are the sums of
  the providers' requests and failures, stated as sizes of sets with one element
  for each request (`Units`); under the lock they differ by the one recording that
  is half done.

`ModelClients_proofs` proves for every set of calls and every workload, from
`ClientsAssumption` alone:

- `TypeCorrect`: the types, and never more than three posts in a call;
- `VerdictFollows`: the response is the one that the order of the outcomes asks for;
- `BillsHeard`: no call is billed more often than it heard an answer or was in
  doubt, and it hears at most one answer;
- `LeavesNothing`: no call that is over has an open client or holds the loop;
- `LastTurnsAreSent`: while a call posts, its payload says what the user and the
  system said last, for conversations of any length without tools.

The inductive invariant `IInv` joins for each call the place in the loop of
`_post` with what it has heard so far: while the call goes on, the number of
outcomes is the attempt's, all of them are ones that are retried, and `last_err`
is the last error among them (`LoopInv`).  The response (`Verdict`) and the bills
(`Bill`) follow from the outcomes; neither is inductive without `LoopInv`.  A call
whose response is made (`Decided`) may still be waiting for its client to close,
and one that was cancelled (`Abandoned`) may have been billed for what
it never heard: the parts say which of them they speak of.  `LeavesNothing` is
part of `IInv`; a step ends a call (`EndLeavesNothing`), closes the client of one
that has ended (`CloseLeavesNothing`) or touches neither (`StaysLeavesNothing`).  The lemmas `CountAppend`,
`TracksAppend` and `LastErrorIs` say what one more outcome does to a count, to
the last error and to the `CHOOSE` that names it.

`LastTurnsAreSent` needs no history but that a call under way has a client.  It
is one lemma for each layout (`ChatReaches`, `AnthropicReaches`,
`GoogleReaches`, `CohereReaches`), all from `OfKeeps`, which is `KeptSelects` for
messages selected by role.  Without tools is needed for Cohere alone: what it
sends as the message is the last that is neither the system's nor the
assistant's, a tool's result if that came last.

`Condenser_proofs` proves for every set of kinds of messages, all settings and
conversations of any length, from `CondenserAssumption` alone:

- `NothingGrows`: the types, and that no condensing costs tokens;
- `Selecting`: `condense` selects and repeats nothing, and two messages change
  places only if their timestamps, or their importance at the same time, ask for
  it, however the clock went;
- `WindowFits`: the window keeps within the limit whenever the system messages
  leave room;
- `CondensedOnce`: a second pass changes nothing;
- `BudgetDecides`: a message is dropped for the budget only if it took more than
  every message kept that is below it in importance and age, by what a score can
  tell;
- `PromptKept`: a preserved prompt that opens the conversation still does.

The state's part of the inductive invariant is small: no two messages have the
same number of their saying (`Apart`), none has a number that is still to be
given, and what is protected and what competes are each in an order that the
timestamps allow (`InOrder`).  Nothing is supposed of the timestamps.  The work is in the functions.  What each
computes is an induction over the conversation, stated over sets
(`EntryByEntry`, `Recursion` and `SameEnd` in `CommonLemmas`): `TokensSteps`,
`SortSteps` and `AdmitIs` say that the recursive function is what its steps make
of it.  The loop over the scores has a loop invariant (`Considered`): what was
looked at ranks before what is left (`PrecedesIsAnOrder`, `FirstExists`), what was
dropped did not fit beside what was kept, and so it took more than anything kept
after it.  `Turn` shows that each turn keeps it (`Dropping`, `Admitting`).
`kept.sort` is stable (`SortIs`), so that messages of one time stay as the scores
left them, which is by importance and then as they were before (`RankedTied`,
from `Weighed`, the arithmetic of a score); `AboveOutranks` is the same arithmetic
for `BudgetDecides`.  Every
step of the pipeline does what condensing may do (`Condenses`), which is
transitive.  That a second pass changes nothing needs what each step leaves
behind, and that the later steps do not undo it: messages without twins
(`NoTwins`), which a selection inherits; messages that fit or are all protected
(`Settled`); messages that fit or are at most four (`Short`).

Only model-checked:

- `ClientsProgress`, `EveryRequestAnswered`, `EveryCallReturns`, `EveryCallEnds` and
  `QuarantineDrains`, which are liveness;
- what `pop_aba` and `popsafe_races_push` show of `GqapPools` outside of `SafeUse`.

## 6. Not modelled

Of modelled parts: a provider named twice in `provider_names`; what another thread
may do between two lookups of one registry entry in one statement, such as the two
readings of `failure_rate` of one grade; `Arena.alloc`'s offset and the total of sanitized blocks; the
layout, alignment and huge pages of the blocks; core pinning and sleep intervals;
memory orders weaker than sequential consistency; in the Python layer, latencies,
URLs, headers and texts.

Parts without a module, and why:

- *Orchestrator.* A locked list of VRFs over the pools that only its tests use.
  What is hard in it, the unlocked walk of `getStats`, reads freed memory.
- *Skill loaders, generator.* Sequential as the repository uses them: the entries
  are stubs that never call the loader.  With an entry that does, `execute`
  writes through a stale pointer, and `remove` of the generator frees memory that
  was never allocated: past such a step no state of a model means anything.
- *Skill scheduler.* A sequential queue whose `cancel` is a stub.
- *Switch engine.* `lookup` compares `packet.generation` and `packet.intent_id`,
  which `MrcPacket` does not have, and calls methods that its mutex lacks; the
  engine has not been compiled as it stands.  `src/switch.zig`, the table that the
  daemon uses, is an array and two maps without concurrency.
- *MRC data plane, VFS adapter, arena audit.* In the plan.  Nothing in the daemon
  inserts a flow or makes a VFS adapter, and the audit's hooks name functions that
  the daemon does not export.
- *Kernel and network bindings, sandbox, huge pages, metrics, CLI, V1
  compatibility, ed25519, perfect hash, eBPF filters, built-in skills.* System
  calls, encodings and stubs, without a state of which a property of several
  steps could be stated.

The hazards of these parts are listed in `PROJECT.json` with a note each.
