------------------------------ MODULE GqapPools ------------------------------
(***************************************************************************)
(* The free lists of sdk_arena_gqap.zig, one action per shared-memory      *)
(* access: the load of a head, the load or store of a pool_next, the       *)
(* compare-and-swap, the update of the counter that follows it.  Any       *)
(* number of threads open and close arenas while sanitizers drain the      *)
(* quarantine.  Accesses to a block that its thread owns alone are folded  *)
(* into the shared access next to them.                                    *)
(***************************************************************************)
EXTENDS Naturals, Sequences, FiniteSets

CONSTANTS
  BlockCount,  \* initPools' block_count
  Arenas,      \* the Arena(tier) values the threads can hold
  StrictMode,  \* whether any caller uses deinitAndZero
  MaxGen,      \* bound of the generation counter
  Openers,     \* threads that call Arena.init
  Closers,     \* threads that call deinit or deinitAndZero
  Sanitizers,  \* threads that run the sanitizer loop
  CountMod     \* the counters wrap around at this number (usize)

NoArena == "no arena"

ASSUME PoolsAssumption ==
  /\ BlockCount \in Nat \ {0}   \* initPools takes &blocks[0]
  /\ StrictMode \in BOOLEAN
  /\ MaxGen \in Nat \ {0} /\ CountMod \in Nat \ {0}
  /\ NoArena \notin Arenas

VARIABLES
  head,         \* the head pointer of each pool
  next,         \* ArenaBlock.pool_next
  count,        \* the count field of each pool
  arena,        \* what each arena holds
  flags,        \* ArenaBlock.flags
  retired_gen,  \* ArenaBlock.retired_gen
  residue,      \* the tiers whose data the block's memory holds
  generation,   \* g_current_generation
  th            \* what each thread is about to do, and its local variables

memory == <<arena, flags, retired_gen, residue, generation>>
vars   == <<head, next, count, memory, th>>

Threads == Openers \cup Closers \cup Sanitizers

Blocks  == 1 .. BlockCount
NoBlock == 0
Tiers   == {"trusted", "untrusted"}
Pools   == {"common", "quarantine", "l2"}

NoFlags     == [dirty |-> FALSE, zeroed |-> FALSE, quarantined |-> FALSE]
DirtyFlags  == [NoFlags EXCEPT !.dirty = TRUE]
ZeroedFlags == [NoFlags EXCEPT !.zeroed = TRUE]

Idle       == [tier |-> "none", block |-> NoBlock]
Held(t, b) == [tier |-> t, block |-> b]

PopSteps  == {"pop head", "pop next", "pop swap"}
SafeSteps == {"safe head", "safe check", "safe next", "safe store"}
PushSteps == {"push head", "push link", "push swap"}
Steps     == PopSteps \cup SafeSteps \cup PushSteps
               \cup {"idle", "count up", "count down", "wash"}

\* pc: the next step; pool, h, n, blk: the pop or push under way; gen: the
\* generation it loaded; arena and tier: the arena that init is filling.
Resting == [pc |-> "idle", pool |-> "common", h |-> NoBlock, n |-> NoBlock,
            blk |-> NoBlock, gen |-> 0, arena |-> NoArena, tier |-> "none"]

Init ==
  /\ head        = [p \in Pools |-> IF p = "common" THEN 1 ELSE NoBlock]
  /\ next        = [b \in Blocks |-> IF b < BlockCount THEN b + 1 ELSE NoBlock]
  /\ count       = [p \in Pools |-> IF p = "common" THEN BlockCount % CountMod ELSE 0]
  /\ arena       = [a \in Arenas |-> Idle]
  /\ flags       = [b \in Blocks |-> NoFlags]
  /\ retired_gen = [b \in Blocks |-> 0]
  /\ residue     = [b \in Blocks |-> {}]
  /\ generation  = 1
  /\ th          = [t \in Threads |-> Resting]

\* Thread t is at step pc; it goes on to another step.
At(t, pc)      == th[t].pc = pc
GoTo(t, r)     == th' = [th EXCEPT ![t] = r]
Locals(t, pc)  == [th[t] EXCEPT !.pc = pc]

-----------------------------------------------------------------------------
(* Arena.init: CommonPool.pop and L2Pool.pop                               *)

OpenArena(t, a, tier) ==
  /\ At(t, "idle") /\ t \in Openers
  /\ arena[a] = Idle
  /\ \A u \in Threads : th[u].arena # a
  /\ GoTo(t, [Resting EXCEPT !.pc    = "pop head",
                             !.pool  = IF tier = "trusted" THEN "common" ELSE "l2",
                             !.gen   = generation,
                             !.arena = a,
                             !.tier  = tier])
  /\ UNCHANGED <<head, next, count, memory>>

PopHead(t) ==
  LET h == head[th[t].pool] IN
  /\ At(t, "pop head")
  /\ \/ /\ h # NoBlock
        /\ GoTo(t, [Locals(t, "pop next") EXCEPT !.h = h])
     \/ /\ h = NoBlock /\ th[t].tier = "trusted"
        /\ GoTo(t, Resting)
     \/ /\ h = NoBlock /\ th[t].tier = "untrusted" /\ th[t].pool = "l2"
        /\ GoTo(t, [th[t] EXCEPT !.pool = "common"])
     \/ /\ h = NoBlock /\ th[t].tier = "untrusted" /\ th[t].pool = "common"
        /\ GoTo(t, [Locals(t, "safe head") EXCEPT !.pool = "quarantine"])
  /\ UNCHANGED <<head, next, count, memory>>

PopNext(t) ==
  /\ At(t, "pop next")
  /\ GoTo(t, [Locals(t, "pop swap") EXCEPT !.n = next[th[t].h]])
  /\ UNCHANGED <<head, next, count, memory>>

\* The flags a block gets on its way into an arena.
FlagsFrom(p, tier) ==
  IF tier = "trusted" THEN NoFlags ELSE IF p = "common" THEN DirtyFlags ELSE ZeroedFlags

\* The arena that thread t is filling becomes the owner of block th[t].h.
FillArena(t) ==
  /\ arena' = [arena EXCEPT ![th[t].arena] = Held(th[t].tier, th[t].h)]
  /\ flags' = [flags EXCEPT ![th[t].h] = FlagsFrom(th[t].pool, th[t].tier)]

Forget(r) == [r EXCEPT !.h = NoBlock, !.n = NoBlock]

\* Fault: the head is stored without a comparison.
PopSwapUnchecked(t) ==
  /\ At(t, "pop swap")
  /\ head' = [head EXCEPT ![th[t].pool] = th[t].n]
  /\ FillArena(t)
  /\ GoTo(t, Forget(Locals(t, "count down")))
  /\ UNCHANGED <<next, count, retired_gen, residue, generation>>

PopSwap(t) ==
  /\ At(t, "pop swap")
  /\ \/ /\ head[th[t].pool] = th[t].h
        /\ head' = [head EXCEPT ![th[t].pool] = th[t].n]
        /\ FillArena(t)
        /\ GoTo(t, Forget(Locals(t, "count down")))
     \/ /\ head[th[t].pool] # th[t].h
        /\ GoTo(t, Forget(Locals(t, "pop head")))
        /\ UNCHANGED <<head, arena, flags>>
  /\ UNCHANGED <<next, count, retired_gen, residue, generation>>

-----------------------------------------------------------------------------
(* QuarantinePool.popSafe, for a sanitizer and for an untrusted init       *)

StartSanitize(t) ==
  /\ At(t, "idle") /\ t \in Sanitizers
  /\ GoTo(t, [Resting EXCEPT !.pc = "safe head", !.pool = "quarantine", !.gen = generation])
  /\ UNCHANGED <<head, next, count, memory>>

SafeHead(t) ==
  LET h == head["quarantine"] IN
  /\ At(t, "safe head")
  /\ GoTo(t, IF h = NoBlock THEN Resting ELSE [Locals(t, "safe check") EXCEPT !.h = h])
  /\ UNCHANGED <<head, next, count, memory>>

\* Fault: off by one in the grace period.
SafeCheckTooEarly(t) ==
  /\ At(t, "safe check")
  /\ GoTo(t, IF retired_gen[th[t].h] + 1 > th[t].gen
             THEN Resting ELSE Locals(t, "safe next"))
  /\ UNCHANGED <<head, next, count, memory>>

SafeCheck(t) ==
  /\ At(t, "safe check")
  /\ GoTo(t, IF retired_gen[th[t].h] + 1 >= th[t].gen
             THEN Resting ELSE Locals(t, "safe next"))
  /\ UNCHANGED <<head, next, count, memory>>

SafeNext(t) ==
  /\ At(t, "safe next")
  /\ GoTo(t, [Locals(t, "safe store") EXCEPT !.n = next[th[t].h]])
  /\ UNCHANGED <<head, next, count, memory>>

\* A plain store: whatever the head is by now, it is overwritten.
SafeStore(t) ==
  /\ At(t, "safe store")
  /\ head' = [head EXCEPT !["quarantine"] = th[t].n]
  /\ \/ /\ th[t].arena # NoArena
        /\ FillArena(t)
        /\ GoTo(t, Forget(Locals(t, "count down")))
     \/ /\ th[t].arena = NoArena
        /\ GoTo(t, Forget([Locals(t, "count down") EXCEPT !.blk = th[t].h]))
        /\ UNCHANGED <<arena, flags>>
  /\ UNCHANGED <<next, count, retired_gen, residue, generation>>

\* Fault: a counter that does not wrap around.
CountDownUnwrapped(t) ==
  /\ At(t, "count down")
  /\ count' = [count EXCEPT ![th[t].pool] = @ - 1]
  /\ GoTo(t, IF th[t].arena = NoArena THEN Locals(t, "wash") ELSE Resting)
  /\ UNCHANGED <<head, next, memory>>

\* Fault: only the pops of the common pool are counted.
CountDownCommon(t) ==
  /\ At(t, "count down")
  /\ count' = IF th[t].pool = "common"
              THEN [count EXCEPT !["common"] = (@ + CountMod - 1) % CountMod] ELSE count
  /\ GoTo(t, IF th[t].arena = NoArena THEN Locals(t, "wash") ELSE Resting)
  /\ UNCHANGED <<head, next, memory>>

CountDown(t) ==
  /\ At(t, "count down")
  /\ count' = [count EXCEPT ![th[t].pool] = (@ + CountMod - 1) % CountMod]
  /\ GoTo(t, IF th[t].arena = NoArena THEN Locals(t, "wash") ELSE Resting)
  /\ UNCHANGED <<head, next, memory>>

\* Fault: the flag is set and the memory is not zeroed.
WashFlagOnly(t) ==
  /\ At(t, "wash")
  /\ flags' = [flags EXCEPT ![th[t].blk] = ZeroedFlags]
  /\ GoTo(t, [Locals(t, "push head") EXCEPT !.pool = "l2"])
  /\ UNCHANGED <<head, next, count, arena, retired_gen, residue, generation>>

Wash(t) ==
  /\ At(t, "wash")
  /\ residue' = [residue EXCEPT ![th[t].blk] = {}]
  /\ flags'   = [flags EXCEPT ![th[t].blk] = ZeroedFlags]
  /\ GoTo(t, [Locals(t, "push head") EXCEPT !.pool = "l2"])
  /\ UNCHANGED <<head, next, count, arena, retired_gen, generation>>

-----------------------------------------------------------------------------
(* deinit and deinitAndZero, and the push that each pool has               *)

\* The block of arena a goes to the push of pool p.
StartPush(t, a, p) ==
  /\ At(t, "idle") /\ t \in Closers
  /\ \A u \in Threads : th[u].arena # a
  /\ arena' = [arena EXCEPT ![a] = Idle]
  /\ GoTo(t, [Resting EXCEPT !.pc = "push head", !.pool = p, !.blk = arena[a].block])
  /\ UNCHANGED <<head, next, count, generation>>

CloseTrusted(t, a) ==
  /\ arena[a].tier = "trusted"
  /\ StartPush(t, a, "common")
  /\ \/ UNCHANGED residue
     \/ StrictMode /\ residue' = [residue EXCEPT ![arena[a].block] = {}]
  /\ UNCHANGED <<flags, retired_gen>>

CloseUntrusted(t, a) ==
  LET b == arena[a].block IN
  /\ arena[a].tier = "untrusted"
  /\ StartPush(t, a, "quarantine")
  /\ flags'       = [flags EXCEPT ![b].quarantined = TRUE]
  /\ retired_gen' = [retired_gen EXCEPT ![b] = generation]
  /\ UNCHANGED residue

CloseAndZeroUntrusted(t, a) ==
  /\ StrictMode
  /\ arena[a].tier = "untrusted"
  /\ StartPush(t, a, "l2")
  /\ flags' = [flags EXCEPT ![arena[a].block] = ZeroedFlags]
  /\ UNCHANGED <<retired_gen, residue>>

PushHead(t) ==
  /\ At(t, "push head")
  /\ GoTo(t, [Locals(t, "push link") EXCEPT !.h = head[th[t].pool]])
  /\ UNCHANGED <<head, next, count, memory>>

PushLink(t) ==
  /\ At(t, "push link")
  /\ next' = [next EXCEPT ![th[t].blk] = th[t].h]
  /\ GoTo(t, Locals(t, "push swap"))
  /\ UNCHANGED <<head, count, memory>>

\* Fault: after a lost race the swap is tried again with the same old head.
PushSwapStale(t) ==
  /\ At(t, "push swap")
  /\ \/ /\ head[th[t].pool] = th[t].h
        /\ head' = [head EXCEPT ![th[t].pool] = th[t].blk]
        /\ GoTo(t, Forget(Locals(t, "count up")))
     \/ /\ head[th[t].pool] # th[t].h
        /\ UNCHANGED <<head, th>>
  /\ UNCHANGED <<next, count, memory>>

PushSwap(t) ==
  /\ At(t, "push swap")
  /\ \/ /\ head[th[t].pool] = th[t].h
        /\ head' = [head EXCEPT ![th[t].pool] = th[t].blk]
        /\ GoTo(t, Forget(Locals(t, "count up")))
     \/ /\ head[th[t].pool] # th[t].h
        /\ GoTo(t, Forget(Locals(t, "push head")))
        /\ UNCHANGED head
  /\ UNCHANGED <<next, count, memory>>

\* A sanitizer (the others have no gen here) goes on with its batch and the
\* generation it loaded, or starts over.
CountUp(t) ==
  /\ At(t, "count up")
  /\ count' = [count EXCEPT ![th[t].pool] = (@ + 1) % CountMod]
  /\ \/ GoTo(t, Resting)
     \/ /\ th[t].gen # 0
        /\ GoTo(t, [Resting EXCEPT !.pc = "safe head", !.pool = "quarantine",
                                   !.gen = th[t].gen])
  /\ UNCHANGED <<head, next, memory>>

-----------------------------------------------------------------------------
(* Arena.alloc and incrementGeneration                                     *)

Alloc(a) ==
  LET b == arena[a].block IN
  /\ arena[a] # Idle
  /\ \A u \in Threads : th[u].arena # a
  /\ flags' = IF arena[a].tier = "untrusted"
              THEN [flags EXCEPT ![b].dirty = TRUE] ELSE flags
  /\ residue' \in {residue, [residue EXCEPT ![b] = @ \cup {arena[a].tier}]}
  /\ UNCHANGED <<head, next, count, arena, retired_gen, generation, th>>

IncrementGeneration ==
  /\ generation < MaxGen
  /\ generation' = generation + 1
  /\ UNCHANGED <<head, next, count, arena, flags, retired_gen, residue, th>>

-----------------------------------------------------------------------------
(* What thread t does until the call it is in returns. *)
Work(t) ==
  \/ PopHead(t)
  \/ PopNext(t)
  \/ PopSwap(t)
  \/ SafeHead(t)
  \/ SafeCheck(t)
  \/ SafeNext(t)
  \/ SafeStore(t)
  \/ CountDown(t)
  \/ Wash(t)
  \/ PushHead(t)
  \/ PushLink(t)
  \/ PushSwap(t)
  \/ CountUp(t)

Next ==
  \/ \E t \in Threads :
       \/ Work(t)
       \/ StartSanitize(t)
       \/ \E a \in Arenas :
            \/ \E tier \in Tiers : OpenArena(t, a, tier)
            \/ CloseTrusted(t, a)
            \/ CloseUntrusted(t, a)
            \/ CloseAndZeroUntrusted(t, a)
  \/ \E a \in Arenas : Alloc(a)
  \/ IncrementGeneration

Spec == Init /\ [][Next]_vars

\* The kernel keeps scheduling a thread that is inside a call.
FairSpec == Spec /\ \A t \in Threads : WF_vars(Work(t))

-----------------------------------------------------------------------------
(* The stacks that the pointers spell                                      *)

\* The blocks from b on, at most n of them, when each is followed by follower.
Chain(follower) ==
  LET chain[n \in 0 .. BlockCount] ==
        [b \in Blocks \cup {NoBlock} |->
           IF n = 0 \/ b = NoBlock THEN << >> ELSE <<b>> \o chain[n - 1][follower[b]]]
  IN chain

Stack(p) == Chain(next)[BlockCount][head[p]]

Pushing(p) == {th[t].blk : t \in {u \in Threads : th[u].pc \in PushSteps /\ th[u].pool = p}}

Washing ==
  {th[t].blk : t \in {u \in Threads : /\ th[u].pc \in {"count down", "wash"}
                                      /\ th[u].blk # NoBlock}}

CountDue(p, pc) == {t \in Threads : th[t].pc = pc /\ th[t].pool = p}

-----------------------------------------------------------------------------
(* Properties                                                              *)

\* Every variable has the type of its declaration in sdk_arena_gqap.zig, and
\* a thread has the locals of the function it is in.
TypeOK ==
  /\ head        \in [Pools -> Blocks \cup {NoBlock}]
  /\ next        \in [Blocks -> Blocks \cup {NoBlock}]
  /\ count       \in [Pools -> 0 .. CountMod - 1]
  /\ arena       \in [Arenas -> {Idle} \cup [tier : Tiers, block : Blocks]]
  /\ flags       \in [Blocks -> [dirty : BOOLEAN, zeroed : BOOLEAN, quarantined : BOOLEAN]]
  /\ retired_gen \in [Blocks -> 0 .. MaxGen]
  /\ residue     \in [Blocks -> SUBSET Tiers]
  /\ generation  \in 1 .. MaxGen
  /\ th \in [Threads -> [pc : Steps, pool : Pools, h : Blocks \cup {NoBlock},
                         n : Blocks \cup {NoBlock}, blk : Blocks \cup {NoBlock},
                         gen : 0 .. MaxGen, arena : Arenas \cup {NoArena},
                         tier : Tiers \cup {"none"}]]

Lifecycle == INSTANCE GqapLifecycle WITH
  pool    <- [p \in Pools |-> Stack(p)],
  transit <- [p \in Pools |-> Pushing(p)],
  washing <- Washing

\* The pointer operations of the pools amount to whole pops and pushes: a
\* compare-and-swap takes effect as one step of GqapLifecycle and every other
\* access as none.
KeepsLifecycle == Lifecycle!Spec

\* Each block is in one stack, in one push, with one arena or with one
\* sanitizer, whatever the other threads do between two accesses.
NoBlockLost == Lifecycle!BlockConservation

\* What the L2 pool holds was zeroed; without deinitAndZero.
L2PoolClean == Lifecycle!L2PoolClean

\* A counter is off by the updates that are still due, and by nothing else;
\* getStats may read it in between.
CountsBalance ==
  \A p \in Pools :
    (count[p] + Cardinality(CountDue(p, "count up"))) % CountMod =
      (Len(Stack(p)) + Cardinality(CountDue(p, "count down"))) % CountMod

\* Lock-free: a call returns, unless the other clients' pops and pushes keep
\* taking effect; a retry is always paid for by the success of another.
ClientsProgress ==
  \A t \in Openers \cup Closers :
    \/ []<>At(t, "idle")
    \/ []<>(\E u \in Threads \ {t} : At(u, "count up") \/ At(u, "count down"))

=============================================================================
