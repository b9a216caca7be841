---------------------------- MODULE GqapLifecycle ----------------------------
(***************************************************************************)
(* The life of an arena block in sdk_arena_gqap.zig, one action per call   *)
(* of the pool and arena operations.  A pop, and the link of a pushed      *)
(* block, are atomic here; GqapPools has their loads, stores and           *)
(* compare-and-swaps and is shown to implement this module.                *)
(*                                                                         *)
(* A pool is a stack, top first.  A block that has been given to a push    *)
(* but not linked yet is in transit: between the two, other threads run.   *)
(* The contents of a block are abstracted to the tiers whose data it       *)
(* holds; zeroing empties that set.                                        *)
(***************************************************************************)
EXTENDS Naturals, Sequences

CONSTANTS
  BlockCount,  \* initPools' block_count
  Arenas,      \* the Arena(tier) values the program's code can hold
  StrictMode,  \* whether any caller uses deinitAndZero (the daemon has none)
  MaxGen       \* bound of the generation counter

ASSUME LifecycleAssumption ==
  /\ BlockCount \in Nat \ {0}   \* initPools takes &blocks[0]
  /\ StrictMode \in BOOLEAN
  /\ MaxGen \in Nat \ {0}

VARIABLES
  pool,         \* the three stacks of free blocks, top first
  transit,      \* blocks given to a pool's push and not linked yet
  washing,      \* blocks the sanitizer has popped and not zeroed yet
  arena,        \* what each arena holds
  flags,        \* ArenaBlock.flags
  retired_gen,  \* ArenaBlock.retired_gen
  residue,      \* the tiers whose data the block's memory holds
  generation    \* g_current_generation

vars == <<pool, transit, washing, arena, flags, retired_gen, residue, generation>>

Blocks  == 1 .. BlockCount    \* block i is blocks[i - 1] of initPools
NoBlock == 0                  \* the null pointer
Tiers   == {"trusted", "untrusted"}
Pools   == {"common", "quarantine", "l2"}

BlockFlags  == [dirty : BOOLEAN, zeroed : BOOLEAN, quarantined : BOOLEAN]
NoFlags     == [dirty |-> FALSE, zeroed |-> FALSE, quarantined |-> FALSE]
DirtyFlags  == [NoFlags EXCEPT !.dirty = TRUE]
ZeroedFlags == [NoFlags EXCEPT !.zeroed = TRUE]

Idle        == [tier |-> "none", block |-> NoBlock]
Held(t, b)  == [tier |-> t, block |-> b]
ArenaStates == {Idle} \cup [tier : Tiers, block : Blocks]

Init ==
  /\ pool        = [p \in Pools |-> IF p = "common"
                                    THEN [i \in Blocks |-> i] ELSE << >>]
  /\ transit     = [p \in Pools |-> {}]
  /\ washing     = {}
  /\ arena       = [a \in Arenas |-> Idle]
  /\ flags       = [b \in Blocks |-> NoFlags]
  /\ retired_gen = [b \in Blocks |-> 0]
  /\ residue     = [b \in Blocks |-> {}]
  /\ generation  = 1

-----------------------------------------------------------------------------
(* Arena(tier).init                                                        *)

\* The arena a, not in use, becomes the owner of the block on top of pool p.
TakeFrom(p, a, t, newflags) ==
  /\ arena[a] = Idle
  /\ pool[p] # << >>
  /\ arena' = [arena EXCEPT ![a] = Held(t, Head(pool[p]))]
  /\ flags' = [flags EXCEPT ![Head(pool[p])] = newflags]
  /\ pool'  = [pool EXCEPT ![p] = Tail(@)]
  /\ UNCHANGED <<transit, washing, retired_gen, residue, generation>>

\* Fault: a block is taken as soon as one generation has passed.
TopIsSafeTooEarly ==
  /\ pool["quarantine"] # << >>
  /\ retired_gen[Head(pool["quarantine"])] < generation

\* QuarantinePool.popSafe looks at the top of the stack and nowhere else.
TopIsSafe ==
  /\ pool["quarantine"] # << >>
  /\ retired_gen[Head(pool["quarantine"])] + 1 < generation

InitTrusted(a) == TakeFrom("common", a, "trusted", NoFlags)

\* Fault: the fallback leaves the quarantined flag as it is.
InitUntrustedKeepingFlag(a) ==
  \/ TakeFrom("l2", a, "untrusted", ZeroedFlags)
  \/ TakeFrom("common", a, "untrusted", DirtyFlags)
  \/ /\ TopIsSafe
     /\ TakeFrom("quarantine", a, "untrusted", [ZeroedFlags EXCEPT !.quarantined = TRUE])

\* The L2 pool, then the common pool, then a block still in quarantine.  Each
\* is tried when the one before it was found empty, which other threads may
\* have changed since; when none has a block the call changes nothing.
InitUntrusted(a) ==
  \/ TakeFrom("l2", a, "untrusted", ZeroedFlags)
  \/ TakeFrom("common", a, "untrusted", DirtyFlags)
  \/ TopIsSafe /\ TakeFrom("quarantine", a, "untrusted", ZeroedFlags)

-----------------------------------------------------------------------------
(* Arena.alloc, deinit and deinitAndZero                                   *)

\* The memory is given out and its user may write to it.
Alloc(a) ==
  LET b == arena[a].block IN
  /\ arena[a] # Idle
  /\ flags' = IF arena[a].tier = "untrusted"
              THEN [flags EXCEPT ![b].dirty = TRUE] ELSE flags
  /\ residue' \in {residue, [residue EXCEPT ![b] = @ \cup {arena[a].tier}]}
  /\ UNCHANGED <<pool, transit, washing, arena, retired_gen, generation>>

\* Fault: the arena is closed but keeps the pointer to its block.
HandInKeepingPointer(a, p) ==
  /\ arena'   = [arena EXCEPT ![a].tier = "none"]
  /\ transit' = [transit EXCEPT ![p] = @ \cup {arena[a].block}]
  /\ UNCHANGED <<pool, washing, generation>>

\* Fault: the arena stays open, so that its block can be returned twice.
HandInStayingOpen(a, p) ==
  /\ transit' = [transit EXCEPT ![p] = @ \cup {arena[a].block}]
  /\ UNCHANGED <<arena, pool, washing, generation>>

\* The block of arena a is given to the push of pool p.
HandIn(a, p) ==
  /\ arena'   = [arena EXCEPT ![a] = Idle]
  /\ transit' = [transit EXCEPT ![p] = @ \cup {arena[a].block}]
  /\ UNCHANGED <<pool, washing, generation>>

DeinitTrusted(a) ==
  /\ arena[a].tier = "trusted"
  /\ HandIn(a, "common")
  /\ UNCHANGED <<flags, retired_gen, residue>>

\* Fault: an untrusted arena returns its block to the common pool.
DeinitUntrustedToCommon(a) ==
  /\ arena[a].tier = "untrusted"
  /\ HandIn(a, "common")
  /\ UNCHANGED <<flags, retired_gen, residue>>

DeinitUntrusted(a) ==
  LET b == arena[a].block IN
  /\ arena[a].tier = "untrusted"
  /\ HandIn(a, "quarantine")
  /\ flags'       = [flags EXCEPT ![b].quarantined = TRUE]
  /\ retired_gen' = [retired_gen EXCEPT ![b] = generation]
  /\ UNCHANGED residue

DeinitAndZeroTrusted(a) ==
  /\ StrictMode
  /\ arena[a].tier = "trusted"
  /\ HandIn(a, "common")
  /\ residue' = [residue EXCEPT ![arena[a].block] = {}]
  /\ UNCHANGED <<flags, retired_gen>>

\* Only the trusted tier calls avx2ZeroBlock.
DeinitAndZeroUntrusted(a) ==
  /\ StrictMode
  /\ arena[a].tier = "untrusted"
  /\ HandIn(a, "l2")
  /\ flags' = [flags EXCEPT ![arena[a].block] = ZeroedFlags]
  /\ UNCHANGED <<retired_gen, residue>>

\* The compare-and-swap with which a push ends.
Link(p) ==
  \E b \in transit[p] :
    /\ pool'    = [pool EXCEPT ![p] = <<b>> \o @]
    /\ transit' = [transit EXCEPT ![p] = @ \ {b}]
    /\ UNCHANGED <<washing, arena, flags, retired_gen, residue, generation>>

-----------------------------------------------------------------------------
(* sanitizeOne, and the generation counter                                 *)

SanitizerTake ==
  /\ TopIsSafe
  /\ washing' = washing \cup {Head(pool["quarantine"])}
  /\ pool'    = [pool EXCEPT !["quarantine"] = Tail(@)]
  /\ UNCHANGED <<transit, arena, flags, retired_gen, residue, generation>>

\* Fault: the sanitizer returns the block to the common pool.
WashToCommon(b) ==
  /\ b \in washing
  /\ washing' = washing \ {b}
  /\ residue' = [residue EXCEPT ![b] = {}]
  /\ flags'   = [flags EXCEPT ![b] = ZeroedFlags]
  /\ transit' = [transit EXCEPT !["common"] = @ \cup {b}]
  /\ UNCHANGED <<pool, arena, retired_gen, generation>>

\* avx2ZeroBlock, the flags, and the hand-over to the L2 pool's push.
Wash(b) ==
  /\ b \in washing
  /\ washing' = washing \ {b}
  /\ residue' = [residue EXCEPT ![b] = {}]
  /\ flags'   = [flags EXCEPT ![b] = ZeroedFlags]
  /\ transit' = [transit EXCEPT !["l2"] = @ \cup {b}]
  /\ UNCHANGED <<pool, arena, retired_gen, generation>>

IncrementGeneration ==
  /\ generation < MaxGen
  /\ generation' = generation + 1
  /\ UNCHANGED <<pool, transit, washing, arena, flags, retired_gen, residue>>

Next ==
  \/ \E a \in Arenas :
       \/ InitTrusted(a)
       \/ InitUntrusted(a)
       \/ Alloc(a)
       \/ DeinitTrusted(a)
       \/ DeinitUntrusted(a)
       \/ DeinitAndZeroTrusted(a)
       \/ DeinitAndZeroUntrusted(a)
  \/ \E p \in Pools : Link(p)
  \/ SanitizerTake
  \/ \E b \in Blocks : Wash(b)
  \/ IncrementGeneration

Spec == Init /\ [][Next]_vars

\* The sanitizer loop and a thread inside a push keep being scheduled.
\* Clients owe nothing, and nothing in the daemon advances the generation.
FairSpec ==
  /\ Spec
  /\ \A p \in Pools : WF_vars(Link(p))
  /\ WF_vars(SanitizerTake)
  /\ \A b \in Blocks : WF_vars(Wash(b))

-----------------------------------------------------------------------------
(* Where a block is                                                        *)

Lists(s, x) == \E i \in DOMAIN s : s[i] = x
NoRepeat(s) == \A i, j \in DOMAIN s : s[i] = s[j] => i = j

Sites ==
  ({"free", "transit"} \X Pools) \cup ({"arena"} \X Arenas) \cup {<<"washing", "l2">>}

Found(s, b) ==
  \/ s[1] = "free"    /\ Lists(pool[s[2]], b)
  \/ s[1] = "transit" /\ b \in transit[s[2]]
  \/ s[1] = "arena"   /\ arena[s[2]].block = b
  \/ s[1] = "washing" /\ b \in washing

OneSite(b) == \E s \in Sites : Found(s, b) /\ \A r \in Sites : Found(r, b) => r = s

GivenTo(p, b) == Found(<<"free", p>>, b) \/ Found(<<"transit", p>>, b)
InUse(t, b)   == \E a \in Arenas : arena[a] = Held(t, b)

-----------------------------------------------------------------------------
(* Properties                                                              *)

\* Every variable has the type of its declaration in sdk_arena_gqap.zig.
TypeOK ==
  /\ pool        \in [Pools -> Seq(Blocks)]
  /\ transit     \in [Pools -> SUBSET Blocks]
  /\ washing     \in SUBSET Blocks
  /\ arena       \in [Arenas -> ArenaStates]
  /\ flags       \in [Blocks -> BlockFlags]
  /\ retired_gen \in [Blocks -> Nat]
  /\ residue     \in [Blocks -> SUBSET Tiers]
  /\ generation  \in Nat

\* A block is in one place at a time: no pool lists it twice, no two arenas
\* own it, and none is dropped between a pop and the push that returns it.
BlockConservation ==
  /\ \A p \in Pools : NoRepeat(pool[p])
  /\ \A b \in Blocks : OneSite(b)

\* "never mix with common": a block that held untrusted data, or was ever
\* retired by an untrusted arena, is not in the common pool, on its way
\* there, or in a trusted arena.
NeverMixWithCommon ==
  \A b \in Blocks :
    "untrusted" \in residue[b] \/ retired_gen[b] # 0
      => ~GivenTo("common", b) /\ ~InUse("trusted", b)

\* "RCU safe": a block that was retired is out of the quarantine only if two
\* generations have passed since, whichever of the two consumers took it.
GracePeriodElapsed ==
  \A b \in Blocks :
    retired_gen[b] # 0 /\ ~GivenTo("quarantine", b) => retired_gen[b] + 1 < generation

\* "Currently in quarantine": the flag is up from the deinit that retires the
\* block until it is zeroed or reused, and at no other time.
QuarantinedFlagExact ==
  \A b \in Blocks :
    flags[b].quarantined <=> GivenTo("quarantine", b) \/ b \in washing

\* "Sanitized blocks": a block in the L2 pool holds nobody's data.  It needs
\* deinitAndZero to have no untrusted caller.
L2PoolClean ==
  \A b \in Blocks : GivenTo("l2", b) => residue[b] = {}

\* A retired block goes from the quarantine to the L2 pool in the end.
QuarantineDrains ==
  \A b \in Blocks : GivenTo("quarantine", b) ~> GivenTo("l2", b)

\* The block's party in the sense of BlockCustody.
WithParty(b, p) ==
  \/ p \in Pools /\ GivenTo(p, b)
  \/ p \in Tiers /\ InUse(p, b)
  \/ p = "sanitizer" /\ b \in washing

Custody(b) == CHOOSE p \in Pools \cup Tiers \cup {"sanitizer"} : WithParty(b, p)

CustodyMap == [b \in Blocks |-> Custody(b)]

Promise == INSTANCE BlockCustody WITH custody <- CustodyMap

\* Every step of the pools is a hand-over that BlockCustody allows.
KeepsCustody == Promise!Spec

=============================================================================
