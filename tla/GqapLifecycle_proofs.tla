------------------------ MODULE GqapLifecycle_proofs ------------------------
(***************************************************************************)
(* Proofs about the block life cycle, for any number of blocks and arenas. *)
(***************************************************************************)
EXTENDS GqapLifecycle, TLAPS, SequenceTheorems

-----------------------------------------------------------------------------
(* Stacks                                                                  *)

\* Pushing adds the block to what the stack lists, and a block that was not
\* there makes no repetition.
LEMMA PushFacts ==
  ASSUME NEW S, NEW s \in Seq(S), NEW b \in S
  PROVE  /\ <<b>> \o s \in Seq(S)
         /\ \A x : Lists(<<b>> \o s, x) <=> x = b \/ Lists(s, x)
         /\ NoRepeat(s) /\ ~Lists(s, b) => NoRepeat(<<b>> \o s)
<1> DEFINE t == <<b>> \o s
<1>1. /\ t \in Seq(S)
      /\ Len(t) = Len(s) + 1
      /\ DOMAIN s = 1 .. Len(s)
      /\ DOMAIN t = 1 .. Len(s) + 1
      /\ Len(s) \in Nat
  OBVIOUS
<1>2. t[1] = b /\ \A i \in 1 .. Len(s) : t[i + 1] = s[i]
  OBVIOUS
<1>3. \A i \in DOMAIN t : i = 1 \/ (i - 1 \in DOMAIN s /\ t[i] = s[i - 1])
  BY <1>1, <1>2
<1> HIDE DEF t
<1>4. \A x : Lists(t, x) <=> x = b \/ Lists(s, x)
  <2> TAKE x
  <2>1. Lists(t, x) => x = b \/ Lists(s, x)
    BY <1>2, <1>3 DEF Lists
  <2>2. x = b => Lists(t, x)
    BY <1>1, <1>2 DEF Lists
  <2>3. Lists(s, x) => Lists(t, x)
    BY <1>1, <1>2 DEF Lists
  <2> QED BY <2>1, <2>2, <2>3
<1>5. NoRepeat(s) /\ ~Lists(s, b) => NoRepeat(t)
  BY <1>1, <1>2, <1>3 DEF NoRepeat, Lists
<1> QED BY <1>1, <1>4, <1>5 DEF t

\* Popping removes the top from what a stack without repetitions lists.
LEMMA PopFacts ==
  ASSUME NEW S, NEW s \in Seq(S), s # << >>
  PROVE  /\ Head(s) \in S
         /\ Lists(s, Head(s))
         /\ Tail(s) \in Seq(S)
         /\ \A x : Lists(Tail(s), x) => Lists(s, x)
         /\ NoRepeat(s) => /\ NoRepeat(Tail(s))
                           /\ \A x : Lists(Tail(s), x) <=> Lists(s, x) /\ x # Head(s)
<1> DEFINE t == Tail(s)
<1>1. /\ t \in Seq(S)
      /\ Len(s) \in Nat \ {0}
      /\ DOMAIN s = 1 .. Len(s)
      /\ DOMAIN t = 1 .. Len(s) - 1
      /\ Head(s) = s[1]
      /\ s[1] \in S
  OBVIOUS
<1>2. \A i \in DOMAIN t : t[i] = s[i + 1]
  OBVIOUS
<1>3. \A i \in DOMAIN s : i = 1 \/ (i - 1 \in DOMAIN t /\ s[i] = t[i - 1])
  BY <1>1, <1>2
<1> HIDE DEF t
<1>4. Lists(s, Head(s))
  BY <1>1 DEF Lists
<1>5. \A x : Lists(t, x) => Lists(s, x)
  BY <1>1, <1>2 DEF Lists
<1>6. ASSUME NoRepeat(s) PROVE NoRepeat(t)
  BY <1>1, <1>2, <1>6 DEF NoRepeat
<1>7. ASSUME NoRepeat(s), NEW x
      PROVE  Lists(t, x) <=> Lists(s, x) /\ x # Head(s)
  <2>1. Lists(t, x) => x # Head(s)
    BY <1>1, <1>2, <1>7 DEF NoRepeat, Lists
  <2>2. Lists(s, x) /\ x # Head(s) => Lists(t, x)
    BY <1>1, <1>3 DEF Lists
  <2> QED BY <1>5, <2>1, <2>2
<1> QED BY <1>1, <1>4, <1>5, <1>6, <1>7 DEF t

-----------------------------------------------------------------------------
(* Sites                                                                   *)

\* A site is one of four kinds.
LEMMA SiteForms ==
  ASSUME NEW s \in Sites
  PROVE  \/ \E p \in Pools : s = <<"free", p>>
         \/ \E p \in Pools : s = <<"transit", p>>
         \/ \E a \in Arenas : s = <<"arena", a>>
         \/ s = <<"washing", "l2">>
BY DEF Sites

\* What Found says at each kind of site, before and after a step.
LEMMA FoundForms ==
  /\ \A p, x : Found(<<"free", p>>, x) <=> Lists(pool[p], x)
  /\ \A p, x : Found(<<"transit", p>>, x) <=> x \in transit[p]
  /\ \A a, x : Found(<<"arena", a>>, x) <=> arena[a].block = x
  /\ \A x : Found(<<"washing", "l2">>, x) <=> x \in washing
BY DEF Found

\* The same, after a step.
LEMMA FoundFormsNext ==
  /\ \A p, x : Found(<<"free", p>>, x)' <=> Lists(pool'[p], x)
  /\ \A p, x : Found(<<"transit", p>>, x)' <=> x \in transit'[p]
  /\ \A a, x : Found(<<"arena", a>>, x)' <=> arena'[a].block = x
  /\ \A x : Found(<<"washing", "l2">>, x)' <=> x \in washing'
BY DEF Found, Lists

\* Block b leaves site s for site r and no other block moves.
Moves(b, s, r) ==
  /\ Found(s, b)
  /\ \A t \in Sites, x \in Blocks : Found(t, x)' <=> IF x = b THEN t = r ELSE Found(t, x)

\* A move keeps every block at one site.
LEMMA MoveKeepsOneSite ==
  ASSUME NEW b \in Blocks, NEW s \in Sites, NEW r \in Sites, Moves(b, s, r),
         \A x \in Blocks : OneSite(x)
  PROVE  \A x \in Blocks : OneSite(x)'
BY DEF Moves, OneSite

-----------------------------------------------------------------------------
(* Types                                                                   *)

\* The quarantined flag and the generation stamp have their types.
LEMMA FlagTypes ==
  /\ NoFlags \in BlockFlags
  /\ DirtyFlags \in BlockFlags
  /\ ZeroedFlags \in BlockFlags
BY DEF BlockFlags, NoFlags, DirtyFlags, ZeroedFlags

\* An arena that is not idle has a tier and a block.
LEMMA ArenaForms ==
  ASSUME TypeOK, NEW a \in Arenas
  PROVE  /\ arena[a] = Idle => arena[a].block = NoBlock /\ arena[a].tier = "none"
         /\ arena[a].tier = "none" => arena[a] = Idle
         /\ arena[a] # Idle => /\ arena[a].block \in Blocks
                               /\ arena[a].tier \in Tiers
                               /\ arena[a] = Held(arena[a].tier, arena[a].block)
BY DEF TypeOK, ArenaStates, Idle, Held, Tiers

\* The absent block is no block.
LEMMA BlockZero == NoBlock \notin Blocks
BY LifecycleAssumption DEF NoBlock, Blocks

\* The pools start well typed.
LEMMA TypeInit == Init => TypeOK
<1> SUFFICES ASSUME Init PROVE TypeOK
  OBVIOUS
<1>1. [i \in Blocks |-> i] \in Seq(Blocks)
  BY LifecycleAssumption DEF Blocks
<1>2. pool \in [Pools -> Seq(Blocks)]
  BY <1>1 DEF Init, Pools
<1> QED
  BY <1>2, FlagTypes DEF Init, TypeOK, ArenaStates

\* Taking a block from a pool keeps the types.
LEMMA TakeType ==
  ASSUME TypeOK, NEW p \in Pools, NEW a \in Arenas, NEW t \in Tiers,
         NEW f \in BlockFlags, TakeFrom(p, a, t, f)
  PROVE  TypeOK'
<1>1. /\ Head(pool[p]) \in Blocks
      /\ Tail(pool[p]) \in Seq(Blocks)
  BY PopFacts DEF TypeOK, TakeFrom
<1>2. Held(t, Head(pool[p])) \in ArenaStates
  BY <1>1 DEF Held, ArenaStates
<1> QED
  BY <1>1, <1>2 DEF TypeOK, TakeFrom

\* Handing a block to a pool keeps the types.
LEMMA HandInType ==
  ASSUME TypeOK, NEW p \in Pools, NEW a \in Arenas, arena[a] # Idle, HandIn(a, p)
  PROVE  /\ pool' \in [Pools -> Seq(Blocks)]
         /\ transit' \in [Pools -> SUBSET Blocks]
         /\ washing' \in SUBSET Blocks
         /\ arena' \in [Arenas -> ArenaStates]
         /\ generation' \in Nat
BY ArenaForms DEF TypeOK, HandIn, ArenaStates

\* Every step keeps the types.
LEMMA TypeStep == TypeOK /\ [Next]_vars => TypeOK'
<1> SUFFICES ASSUME TypeOK, [Next]_vars PROVE TypeOK'
  OBVIOUS
<1> USE FlagTypes
<1>1. ASSUME NEW a \in Arenas, InitTrusted(a) PROVE TypeOK'
  BY <1>1, TakeType DEF InitTrusted, Pools, Tiers
<1>2. ASSUME NEW a \in Arenas, InitUntrusted(a) PROVE TypeOK'
  BY <1>2, TakeType DEF InitUntrusted, Pools, Tiers
<1>3. ASSUME NEW a \in Arenas, Alloc(a) PROVE TypeOK'
  <2>1. flags' \in [Blocks -> BlockFlags]
    BY <1>3, ArenaForms DEF Alloc, TypeOK, BlockFlags
  <2>2. residue' \in [Blocks -> SUBSET Tiers]
    BY <1>3, ArenaForms DEF Alloc, TypeOK
  <2> QED BY <1>3, <2>1, <2>2 DEF Alloc, TypeOK
<1>4. ASSUME NEW a \in Arenas, DeinitTrusted(a) PROVE TypeOK'
  BY <1>4, HandInType, ArenaForms DEF DeinitTrusted, TypeOK, Pools
<1>5. ASSUME NEW a \in Arenas, DeinitUntrusted(a) PROVE TypeOK'
  <2>1. flags' \in [Blocks -> BlockFlags]
    BY <1>5, ArenaForms DEF DeinitUntrusted, TypeOK, BlockFlags
  <2> QED BY <1>5, <2>1, HandInType, ArenaForms DEF DeinitUntrusted, TypeOK, Pools
<1>6. ASSUME NEW a \in Arenas, DeinitAndZeroTrusted(a) PROVE TypeOK'
  BY <1>6, HandInType, ArenaForms DEF DeinitAndZeroTrusted, TypeOK, Pools
<1>7. ASSUME NEW a \in Arenas, DeinitAndZeroUntrusted(a) PROVE TypeOK'
  BY <1>7, HandInType, ArenaForms DEF DeinitAndZeroUntrusted, TypeOK, Pools
<1>8. ASSUME NEW p \in Pools, Link(p) PROVE TypeOK'
  BY <1>8, PushFacts DEF Link, TypeOK
<1>9. ASSUME SanitizerTake PROVE TypeOK'
  <2>1. /\ Head(pool["quarantine"]) \in Blocks
        /\ Tail(pool["quarantine"]) \in Seq(Blocks)
    BY <1>9, PopFacts DEF SanitizerTake, TopIsSafe, TypeOK, Pools
  <2> QED BY <1>9, <2>1 DEF SanitizerTake, TypeOK
<1>10. ASSUME NEW b \in Blocks, Wash(b) PROVE TypeOK'
  BY <1>10 DEF Wash, TypeOK
<1>11. ASSUME IncrementGeneration PROVE TypeOK'
  BY <1>11 DEF IncrementGeneration, TypeOK
<1>12. ASSUME UNCHANGED vars PROVE TypeOK'
  BY <1>12 DEF vars, TypeOK
<1> QED
  BY <1>1, <1>2, <1>3, <1>4, <1>5, <1>6, <1>7, <1>8, <1>9, <1>10, <1>11, <1>12 DEF Next

\* Every variable keeps its type.
THEOREM TypeCorrect == Spec => []TypeOK
BY TypeInit, TypeStep, PTL DEF Spec

-----------------------------------------------------------------------------
(* Every step moves at most one block                                      *)

\* The places of arenas, pools and the sanitizer are sites.
LEMMA SiteMembers ==
  /\ \A p \in Pools : <<"free", p>> \in Sites /\ <<"transit", p>> \in Sites
  /\ \A a \in Arenas : <<"arena", a>> \in Sites
  /\ <<"washing", "l2">> \in Sites
BY DEF Sites

\* Found at every kind of site is enough to know a move.
LEMMA MoveByKind ==
  ASSUME NEW b \in Blocks, NEW s \in Sites, NEW r \in Sites, Found(s, b),
         \A p \in Pools, x \in Blocks :
           /\ Lists(pool'[p], x) <=>
                IF x = b THEN r = <<"free", p>> ELSE Lists(pool[p], x)
           /\ x \in transit'[p] <=>
                IF x = b THEN r = <<"transit", p>> ELSE x \in transit[p],
         \A a \in Arenas, x \in Blocks :
           arena'[a].block = x <=>
             IF x = b THEN r = <<"arena", a>> ELSE arena[a].block = x,
         \A x \in Blocks :
           x \in washing' <=> IF x = b THEN r = <<"washing", "l2">> ELSE x \in washing
  PROVE  Moves(b, s, r)
<1> SUFFICES ASSUME NEW t \in Sites, NEW x \in Blocks
             PROVE  Found(t, x)' <=> IF x = b THEN t = r ELSE Found(t, x)
  BY DEF Moves
<1>1. CASE \E p \in Pools : t = <<"free", p>>
  BY <1>1, FoundForms, FoundFormsNext
<1>2. CASE \E p \in Pools : t = <<"transit", p>>
  BY <1>2, FoundForms, FoundFormsNext
<1>3. CASE \E a \in Arenas : t = <<"arena", a>>
  BY <1>3, FoundForms, FoundFormsNext
<1>4. CASE t = <<"washing", "l2">>
  BY <1>4, FoundForms, FoundFormsNext
<1> QED BY <1>1, <1>2, <1>3, <1>4, SiteForms

\* A block that is at site s is at no other.
LEMMA OnlySite ==
  ASSUME BlockConservation, NEW b \in Blocks, NEW s \in Sites, Found(s, b)
  PROVE  /\ \A p \in Pools : Lists(pool[p], b) => s = <<"free", p>>
         /\ \A p \in Pools : b \in transit[p] => s = <<"transit", p>>
         /\ \A a \in Arenas : arena[a].block = b => s = <<"arena", a>>
         /\ b \in washing => s = <<"washing", "l2">>
BY FoundForms, SiteMembers DEF BlockConservation, OneSite

\* Sites of two kinds, or of two owners, are two sites.
LEMMA SitesDiffer ==
  ASSUME NEW x, NEW y
  PROVE  /\ <<"free", x>> # <<"transit", y>>
         /\ <<"free", x>> # <<"arena", y>>
         /\ <<"free", x>> # <<"washing", y>>
         /\ <<"transit", x>> # <<"arena", y>>
         /\ <<"transit", x>> # <<"washing", y>>
         /\ <<"arena", x>> # <<"washing", y>>
         /\ <<"free", x>> = <<"free", y>> <=> x = y
         /\ <<"transit", x>> = <<"transit", y>> <=> x = y
         /\ <<"arena", x>> = <<"arena", y>> <=> x = y
OBVIOUS

\* A free block is listed by no other pool, and is nowhere else.
LEMMA OnlyFree ==
  ASSUME BlockConservation, NEW b \in Blocks, NEW p \in Pools, Lists(pool[p], b)
  PROVE  /\ \A q \in Pools : Lists(pool[q], b) => q = p
         /\ \A q \in Pools : b \notin transit[q]
         /\ \A a \in Arenas : arena[a].block # b
         /\ b \notin washing
<1> DEFINE s == <<"free", p>>
<1>1. s \in Sites /\ Found(s, b)
  BY SiteMembers, FoundForms
<1>2. /\ \A q \in Pools : Lists(pool[q], b) => s = <<"free", q>>
      /\ \A q \in Pools : b \in transit[q] => s = <<"transit", q>>
      /\ \A a \in Arenas : arena[a].block = b => s = <<"arena", a>>
      /\ b \in washing => s = <<"washing", "l2">>
  <2> HIDE DEF s
  <2> QED BY <1>1, OnlySite
<1> QED BY <1>2, SitesDiffer

\* A block in transit to a pool is nowhere else.
LEMMA OnlyTransit ==
  ASSUME BlockConservation, NEW b \in Blocks, NEW p \in Pools, b \in transit[p]
  PROVE  /\ \A q \in Pools : ~Lists(pool[q], b)
         /\ \A q \in Pools : b \in transit[q] => q = p
         /\ \A a \in Arenas : arena[a].block # b
         /\ b \notin washing
<1> DEFINE s == <<"transit", p>>
<1>1. s \in Sites /\ Found(s, b)
  BY SiteMembers, FoundForms
<1>2. /\ \A q \in Pools : Lists(pool[q], b) => s = <<"free", q>>
      /\ \A q \in Pools : b \in transit[q] => s = <<"transit", q>>
      /\ \A a \in Arenas : arena[a].block = b => s = <<"arena", a>>
      /\ b \in washing => s = <<"washing", "l2">>
  <2> HIDE DEF s
  <2> QED BY <1>1, OnlySite
<1> QED BY <1>2, SitesDiffer

\* A block that an arena holds is nowhere else.
LEMMA OnlyArena ==
  ASSUME BlockConservation, NEW b \in Blocks, NEW c \in Arenas, arena[c].block = b
  PROVE  /\ \A q \in Pools : ~Lists(pool[q], b) /\ b \notin transit[q]
         /\ \A a \in Arenas : arena[a].block = b => a = c
         /\ b \notin washing
<1> DEFINE s == <<"arena", c>>
<1>1. s \in Sites /\ Found(s, b)
  BY SiteMembers, FoundForms
<1>2. /\ \A q \in Pools : Lists(pool[q], b) => s = <<"free", q>>
      /\ \A q \in Pools : b \in transit[q] => s = <<"transit", q>>
      /\ \A a \in Arenas : arena[a].block = b => s = <<"arena", a>>
      /\ b \in washing => s = <<"washing", "l2">>
  <2> HIDE DEF s
  <2> QED BY <1>1, OnlySite
<1> QED BY <1>2, SitesDiffer

\* A block that the sanitizer holds is nowhere else.
LEMMA OnlyWashing ==
  ASSUME BlockConservation, NEW b \in Blocks, b \in washing
  PROVE  /\ \A q \in Pools : ~Lists(pool[q], b) /\ b \notin transit[q]
         /\ \A a \in Arenas : arena[a].block # b
<1> DEFINE s == <<"washing", "l2">>
<1>1. s \in Sites /\ Found(s, b)
  BY SiteMembers, FoundForms
<1>2. /\ \A q \in Pools : Lists(pool[q], b) => s = <<"free", q>>
      /\ \A q \in Pools : b \in transit[q] => s = <<"transit", q>>
      /\ \A a \in Arenas : arena[a].block = b => s = <<"arena", a>>
      /\ b \in washing => s = <<"washing", "l2">>
  <2> HIDE DEF s
  <2> QED BY <1>1, OnlySite
<1> QED BY <1>2, SitesDiffer

\* Taking moves the top of one stack to the arena, and nothing else.
LEMMA TakeMoves ==
  ASSUME TypeOK, BlockConservation, NEW p \in Pools, NEW a \in Arenas,
         NEW t \in Tiers, NEW f, TakeFrom(p, a, t, f)
  PROVE  /\ Head(pool[p]) \in Blocks
         /\ Moves(Head(pool[p]), <<"free", p>>, <<"arena", a>>)
         /\ \A q \in Pools : NoRepeat(pool'[q])
<1> DEFINE b == Head(pool[p])
           s == <<"free", p>>
           r == <<"arena", a>>
<1>1. /\ b \in Blocks
      /\ Lists(pool[p], b)
      /\ NoRepeat(Tail(pool[p]))
      /\ \A x : Lists(Tail(pool[p]), x) <=> Lists(pool[p], x) /\ x # b
  BY PopFacts DEF TypeOK, TakeFrom, BlockConservation
<1>2. /\ pool' = [pool EXCEPT ![p] = Tail(pool[p])]
      /\ arena' = [arena EXCEPT ![a] = Held(t, b)]
      /\ transit' = transit /\ washing' = washing
      /\ arena[a].block = NoBlock
  BY ArenaForms DEF TakeFrom
<1>3. /\ \A q : r # <<"free", q>> /\ r # <<"transit", q>>
      /\ \A c : r = <<"arena", c>> <=> c = a
      /\ r # <<"washing", "l2">>
  BY SitesDiffer
<1>4. s \in Sites /\ r \in Sites /\ Found(s, b)
  BY <1>1, FoundForms, SiteMembers
<1> HIDE DEF b, s, r
<1>5. /\ \A q \in Pools : Lists(pool[q], b) => q = p
      /\ \A q \in Pools : b \notin transit[q]
      /\ \A c \in Arenas : arena[c].block # b
      /\ b \notin washing
  BY <1>1, OnlyFree
<1>6. \A q \in Pools, x \in Blocks :
        /\ Lists(pool'[q], x) <=>
             IF x = b THEN r = <<"free", q>> ELSE Lists(pool[q], x)
        /\ x \in transit'[q] <=>
             IF x = b THEN r = <<"transit", q>> ELSE x \in transit[q]
  BY <1>1, <1>2, <1>3, <1>5 DEF TypeOK
<1>7. \A c \in Arenas, x \in Blocks :
        arena'[c].block = x <=> IF x = b THEN r = <<"arena", c>> ELSE arena[c].block = x
  <2> TAKE c \in Arenas, x \in Blocks
  <2>1. c = a => arena'[c].block = b
    BY <1>2 DEF TypeOK, Held
  <2>2. c # a => arena'[c].block = arena[c].block
    BY <1>2 DEF TypeOK
  <2> QED BY <1>1, <1>2, <1>3, <1>5, <2>1, <2>2, BlockZero
<1>8. \A x \in Blocks :
        x \in washing' <=> IF x = b THEN r = <<"washing", "l2">> ELSE x \in washing
  BY <1>2, <1>3, <1>5
<1>9. Moves(b, s, r)
  BY <1>1, <1>4, <1>6, <1>7, <1>8, MoveByKind
<1>10. \A q \in Pools : NoRepeat(pool'[q])
  BY <1>1, <1>2 DEF TypeOK, BlockConservation
<1> QED BY <1>1, <1>9, <1>10 DEF b, s, r

\* Handing in moves the arena's block to the pool's door, and nothing else.
LEMMA HandInMoves ==
  ASSUME TypeOK, BlockConservation, NEW p \in Pools, NEW a \in Arenas,
         arena[a] # Idle, HandIn(a, p)
  PROVE  /\ arena[a].block \in Blocks
         /\ Moves(arena[a].block, <<"arena", a>>, <<"transit", p>>)
         /\ \A q \in Pools : NoRepeat(pool'[q])
<1> DEFINE b == arena[a].block
           s == <<"arena", a>>
           r == <<"transit", p>>
<1>1. b \in Blocks /\ arena[a].block = b
  BY ArenaForms
<1>2. /\ transit' = [transit EXCEPT ![p] = @ \cup {b}]
      /\ arena' = [arena EXCEPT ![a] = Idle]
      /\ pool' = pool /\ washing' = washing
  BY DEF HandIn
<1>3. /\ \A q : r # <<"free", q>> /\ r # <<"arena", q>>
      /\ \A q : r = <<"transit", q>> <=> q = p
      /\ r # <<"washing", "l2">>
  BY SitesDiffer
<1>4. s \in Sites /\ r \in Sites /\ Found(s, b)
  BY FoundForms, SiteMembers
<1> HIDE DEF b, s, r
<1>5. /\ \A q \in Pools : ~Lists(pool[q], b) /\ b \notin transit[q]
      /\ \A c \in Arenas : arena[c].block = b => c = a
      /\ b \notin washing
  BY <1>1, OnlyArena
<1>6. \A q \in Pools, x \in Blocks :
        /\ Lists(pool'[q], x) <=>
             IF x = b THEN r = <<"free", q>> ELSE Lists(pool[q], x)
        /\ x \in transit'[q] <=>
             IF x = b THEN r = <<"transit", q>> ELSE x \in transit[q]
  BY <1>1, <1>2, <1>3, <1>5 DEF TypeOK
<1>7. \A c \in Arenas, x \in Blocks :
        arena'[c].block = x <=> IF x = b THEN r = <<"arena", c>> ELSE arena[c].block = x
  BY <1>1, <1>2, <1>3, <1>5, BlockZero DEF TypeOK, Idle
<1>8. \A x \in Blocks :
        x \in washing' <=> IF x = b THEN r = <<"washing", "l2">> ELSE x \in washing
  BY <1>2, <1>3, <1>5
<1>9. Moves(b, s, r)
  BY <1>1, <1>4, <1>6, <1>7, <1>8, MoveByKind
<1> QED BY <1>1, <1>2, <1>9 DEF b, s, r, BlockConservation

\* Linking moves one block from the door onto the stack, and nothing else.
LEMMA LinkMoves ==
  ASSUME TypeOK, BlockConservation, NEW p \in Pools, NEW b \in Blocks, b \in transit[p],
         pool' = [pool EXCEPT ![p] = <<b>> \o @],
         transit' = [transit EXCEPT ![p] = @ \ {b}],
         UNCHANGED <<washing, arena>>
  PROVE  /\ Moves(b, <<"transit", p>>, <<"free", p>>)
         /\ \A q \in Pools : NoRepeat(pool'[q])
<1> DEFINE s == <<"transit", p>>
           r == <<"free", p>>
<1>1. /\ \A q \in Pools : ~Lists(pool[q], b)
      /\ \A q \in Pools : b \in transit[q] => q = p
      /\ \A a \in Arenas : arena[a].block # b
      /\ b \notin washing
  BY OnlyTransit
<1>2. /\ \A x : Lists(<<b>> \o pool[p], x) <=> x = b \/ Lists(pool[p], x)
      /\ NoRepeat(<<b>> \o pool[p])
  BY <1>1, PushFacts DEF TypeOK, BlockConservation
<1>3. /\ \A q : r # <<"transit", q>> /\ r # <<"arena", q>>
      /\ \A q : r = <<"free", q>> <=> q = p
      /\ r # <<"washing", "l2">>
  BY SitesDiffer
<1>4. s \in Sites /\ r \in Sites /\ Found(s, b)
  BY FoundForms, SiteMembers
<1> HIDE DEF s, r
<1>5. \A q \in Pools, x \in Blocks :
        /\ Lists(pool'[q], x) <=>
             IF x = b THEN r = <<"free", q>> ELSE Lists(pool[q], x)
        /\ x \in transit'[q] <=>
             IF x = b THEN r = <<"transit", q>> ELSE x \in transit[q]
  BY <1>1, <1>2, <1>3 DEF TypeOK
<1>6. \A c \in Arenas, x \in Blocks :
        arena'[c].block = x <=> IF x = b THEN r = <<"arena", c>> ELSE arena[c].block = x
  BY <1>1, <1>3
<1>7. \A x \in Blocks :
        x \in washing' <=> IF x = b THEN r = <<"washing", "l2">> ELSE x \in washing
  BY <1>1, <1>3
<1>8. Moves(b, s, r)
  BY <1>4, <1>5, <1>6, <1>7, MoveByKind
<1>9. \A q \in Pools : NoRepeat(pool'[q])
  BY <1>2 DEF TypeOK, BlockConservation
<1> QED BY <1>8, <1>9 DEF s, r

\* The sanitizer moves one block off the quarantine stack.
LEMMA SanitizerTakeMoves ==
  ASSUME TypeOK, BlockConservation, SanitizerTake
  PROVE  /\ Head(pool["quarantine"]) \in Blocks
         /\ Moves(Head(pool["quarantine"]), <<"free", "quarantine">>, <<"washing", "l2">>)
         /\ \A q \in Pools : NoRepeat(pool'[q])
<1> DEFINE p == "quarantine"
           b == Head(pool[p])
           s == <<"free", p>>
           r == <<"washing", "l2">>
<1>1. p \in Pools
  BY DEF Pools
<1>2. /\ b \in Blocks
      /\ Lists(pool[p], b)
      /\ NoRepeat(Tail(pool[p]))
      /\ \A x : Lists(Tail(pool[p]), x) <=> Lists(pool[p], x) /\ x # b
  BY <1>1, PopFacts DEF TypeOK, SanitizerTake, TopIsSafe, BlockConservation
<1>3. /\ pool' = [pool EXCEPT ![p] = Tail(pool[p])]
      /\ washing' = washing \cup {b}
      /\ transit' = transit /\ arena' = arena
  BY DEF SanitizerTake
<1>4. \A q : r # <<"free", q>> /\ r # <<"transit", q>> /\ r # <<"arena", q>>
  BY SitesDiffer
<1>5. s \in Sites /\ r \in Sites /\ Found(s, b)
  BY <1>1, <1>2, FoundForms, SiteMembers
<1>6. r = <<"washing", "l2">>
  OBVIOUS
<1> HIDE DEF p, b, s, r
<1>7. /\ \A q \in Pools : Lists(pool[q], b) => q = p
      /\ \A q \in Pools : b \notin transit[q]
      /\ \A c \in Arenas : arena[c].block # b
      /\ b \notin washing
  BY <1>1, <1>2, OnlyFree
<1>8. \A q \in Pools, x \in Blocks :
        /\ Lists(pool'[q], x) <=>
             IF x = b THEN r = <<"free", q>> ELSE Lists(pool[q], x)
        /\ x \in transit'[q] <=>
             IF x = b THEN r = <<"transit", q>> ELSE x \in transit[q]
  BY <1>1, <1>2, <1>3, <1>4, <1>7 DEF TypeOK
<1>9. \A c \in Arenas, x \in Blocks :
        arena'[c].block = x <=> IF x = b THEN r = <<"arena", c>> ELSE arena[c].block = x
  BY <1>3, <1>4, <1>7
<1>10. \A x \in Blocks :
        x \in washing' <=> IF x = b THEN r = <<"washing", "l2">> ELSE x \in washing
  BY <1>3, <1>6
<1>11. Moves(b, s, r)
  BY <1>2, <1>5, <1>8, <1>9, <1>10, MoveByKind
<1>12. \A q \in Pools : NoRepeat(pool'[q])
  BY <1>1, <1>2, <1>3 DEF TypeOK, BlockConservation
<1> QED BY <1>2, <1>11, <1>12 DEF p, b, s, r

\* Zeroing moves the sanitizer's block to the door of the L2 pool.
LEMMA WashMoves ==
  ASSUME TypeOK, BlockConservation, NEW b \in Blocks, Wash(b)
  PROVE  /\ Moves(b, <<"washing", "l2">>, <<"transit", "l2">>)
         /\ \A q \in Pools : NoRepeat(pool'[q])
<1> DEFINE p == "l2"
           s == <<"washing", p>>
           r == <<"transit", p>>
<1>1. p \in Pools
  BY DEF Pools
<1>2. /\ washing' = washing \ {b}
      /\ transit' = [transit EXCEPT ![p] = @ \cup {b}]
      /\ pool' = pool /\ arena' = arena
  BY DEF Wash
<1>3. /\ \A q \in Pools : ~Lists(pool[q], b) /\ b \notin transit[q]
      /\ \A c \in Arenas : arena[c].block # b
  BY OnlyWashing DEF Wash
<1>4. /\ \A q : r # <<"free", q>> /\ r # <<"arena", q>>
      /\ \A q : r = <<"transit", q>> <=> q = p
      /\ r # <<"washing", "l2">>
  BY SitesDiffer
<1>5. s \in Sites /\ r \in Sites /\ Found(s, b)
  BY <1>1, FoundForms, SiteMembers DEF Wash
<1> HIDE DEF p, s, r
<1>6. \A q \in Pools, x \in Blocks :
        /\ Lists(pool'[q], x) <=>
             IF x = b THEN r = <<"free", q>> ELSE Lists(pool[q], x)
        /\ x \in transit'[q] <=>
             IF x = b THEN r = <<"transit", q>> ELSE x \in transit[q]
  BY <1>1, <1>2, <1>3, <1>4 DEF TypeOK
<1>7. \A c \in Arenas, x \in Blocks :
        arena'[c].block = x <=> IF x = b THEN r = <<"arena", c>> ELSE arena[c].block = x
  BY <1>2, <1>3, <1>4
<1>8. \A x \in Blocks :
        x \in washing' <=> IF x = b THEN r = <<"washing", "l2">> ELSE x \in washing
  BY <1>2, <1>4
<1>9. Moves(b, s, r)
  BY <1>5, <1>6, <1>7, <1>8, MoveByKind
<1> QED BY <1>2, <1>9 DEF p, s, r, BlockConservation

-----------------------------------------------------------------------------
(* Conservation                                                            *)

\* At the start every block is at one site.
LEMMA ConservationInit == Init => BlockConservation
<1> SUFFICES ASSUME Init PROVE BlockConservation
  OBVIOUS
<1>1. /\ \A p \in Pools, x \in Blocks : Lists(pool[p], x) <=> p = "common"
      /\ \A p \in Pools : NoRepeat(pool[p]) /\ transit[p] = {}
      /\ \A a \in Arenas : arena[a].block = NoBlock
      /\ washing = {}
      /\ "common" \in Pools
  BY DEF Init, Lists, NoRepeat, Idle, Pools
<1>2. ASSUME NEW b \in Blocks PROVE OneSite(b)
  <2> DEFINE s == <<"free", "common">>
  <2>1. s \in Sites /\ Found(s, b)
    BY <1>1, FoundForms, SiteMembers
  <2>2. ASSUME NEW r \in Sites, Found(r, b) PROVE r = s
    BY <1>1, <2>2, FoundForms, SiteForms, BlockZero
  <2> QED BY <2>1, <2>2 DEF OneSite
<1> QED BY <1>1, <1>2 DEF BlockConservation

\* A step that moves one block, or none, keeps every block at one site.
LEMMA ConservationByMove ==
  ASSUME BlockConservation, NEW b \in Blocks, NEW s \in Sites, NEW r \in Sites,
         Moves(b, s, r), \A q \in Pools : NoRepeat(pool'[q])
  PROVE  BlockConservation'
<1>1. \A x \in Blocks : OneSite(x)'
  BY MoveKeepsOneSite DEF BlockConservation
<1>2. \A q \in Pools : NoRepeat(pool[q])'
  BY DEF NoRepeat
<1> QED BY <1>1, <1>2 DEF BlockConservation

\* A step that leaves the sites alone keeps every block at one site.
LEMMA ConservationUnmoved ==
  ASSUME BlockConservation, UNCHANGED <<pool, transit, washing, arena>>
  PROVE  BlockConservation'
<1>1. \A s \in Sites, x \in Blocks : Found(s, x)' <=> Found(s, x)
  BY DEF Found, Lists
<1>2. \A x \in Blocks : OneSite(x)'
  BY <1>1 DEF OneSite, BlockConservation
<1> QED BY <1>2 DEF BlockConservation, NoRepeat

\* Every step keeps every block at one site.
LEMMA ConservationStep == TypeOK /\ BlockConservation /\ [Next]_vars => BlockConservation'
<1> SUFFICES ASSUME TypeOK, BlockConservation, [Next]_vars PROVE BlockConservation'
  OBVIOUS
<1> USE SiteMembers, ConservationByMove DEF Pools
<1>1. ASSUME NEW p \in Pools, NEW a \in Arenas, NEW t \in Tiers, NEW f, TakeFrom(p, a, t, f)
      PROVE  BlockConservation'
  BY <1>1, TakeMoves
<1>2. ASSUME NEW a \in Arenas, NEW p \in Pools, arena[a] # Idle, HandIn(a, p)
      PROVE  BlockConservation'
  BY <1>2, HandInMoves
<1>3. ASSUME NEW p \in Pools, Link(p) PROVE BlockConservation'
  <2>1. PICK b \in transit[p] :
          /\ pool' = [pool EXCEPT ![p] = <<b>> \o @]
          /\ transit' = [transit EXCEPT ![p] = @ \ {b}]
          /\ UNCHANGED <<washing, arena>>
    BY <1>3 DEF Link
  <2>2. b \in Blocks
    BY <2>1 DEF TypeOK
  <2> QED BY <2>1, <2>2, LinkMoves
<1>4. ASSUME SanitizerTake PROVE BlockConservation'
  BY <1>4, SanitizerTakeMoves
<1>5. ASSUME NEW b \in Blocks, Wash(b) PROVE BlockConservation'
  BY <1>5, WashMoves
<1>6. ASSUME NEW a \in Arenas, InitTrusted(a) \/ InitUntrusted(a) PROVE BlockConservation'
  BY <1>1, <1>6 DEF InitTrusted, InitUntrusted, Tiers
<1>7. ASSUME NEW a \in Arenas,
             \/ DeinitTrusted(a) \/ DeinitUntrusted(a)
             \/ DeinitAndZeroTrusted(a) \/ DeinitAndZeroUntrusted(a)
      PROVE  BlockConservation'
  <2>1. arena[a] # Idle
    BY <1>7, ArenaForms DEF DeinitTrusted, DeinitUntrusted, DeinitAndZeroTrusted,
       DeinitAndZeroUntrusted
  <2> QED
    BY <1>2, <1>7, <2>1 DEF DeinitTrusted, DeinitUntrusted, DeinitAndZeroTrusted,
       DeinitAndZeroUntrusted
<1>8. ASSUME \/ \E a \in Arenas : Alloc(a)
             \/ IncrementGeneration
             \/ UNCHANGED vars
      PROVE  BlockConservation'
  BY <1>8, ConservationUnmoved DEF Alloc, IncrementGeneration, vars
<1> QED BY <1>3, <1>4, <1>5, <1>6, <1>7, <1>8 DEF Next

\* No block is ever lost, listed twice or owned by two arenas.
THEOREM Conservation == Spec => []BlockConservation
<1>1. TypeOK /\ BlockConservation /\ [Next]_vars => (TypeOK /\ BlockConservation)'
  BY TypeStep, ConservationStep
<1> QED BY <1>1, TypeInit, ConservationInit, PTL DEF Spec

-----------------------------------------------------------------------------
(* What each step does to the parties of the blocks                        *)

\* A pool has been given what it lists and what is at its door.
LEMMA GivenToForm == \A p, x : GivenTo(p, x) <=> Lists(pool[p], x) \/ x \in transit[p]
BY FoundForms DEF GivenTo

\* The same, after a step.
LEMMA GivenToFormNext ==
  \A p, x : GivenTo(p, x)' <=> Lists(pool'[p], x) \/ x \in transit'[p]
BY FoundFormsNext DEF GivenTo

\* One arena at most uses a block, with one tier, and then no pool has it.
LEMMA InUseForm ==
  ASSUME TypeOK, BlockConservation, NEW a \in Arenas, arena[a] # Idle
  PROVE  LET b == arena[a].block IN
         /\ b \in Blocks
         /\ \A u : InUse(u, b) <=> u = arena[a].tier
         /\ \A q \in Pools : ~GivenTo(q, b)
         /\ b \notin washing
<1> DEFINE b == arena[a].block
<1>1. b \in Blocks /\ arena[a] = Held(arena[a].tier, b)
  BY ArenaForms
<1>2. \A u, v, x, y : Held(u, x) = Held(v, y) => u = v /\ x = y
  BY DEF Held
<1>3. \A c \in Arenas : \A u : arena[c] = Held(u, b) => arena[c].block = b
  BY DEF Held
<1> HIDE DEF b
<1>4. /\ \A q \in Pools : ~Lists(pool[q], b) /\ b \notin transit[q]
      /\ \A c \in Arenas : arena[c].block = b => c = a
      /\ b \notin washing
  BY <1>1, OnlyArena DEF b
<1>5. \A u : InUse(u, b) <=> u = arena[a].tier
  BY <1>1, <1>2, <1>3, <1>4 DEF InUse
<1> QED BY <1>1, <1>4, <1>5, GivenToForm DEF b

\* What a take changes of GivenTo and InUse: the block goes from the pool to the arena.
LEMMA TakeEffect ==
  ASSUME TypeOK, BlockConservation, NEW p \in Pools, NEW a \in Arenas,
         NEW t \in Tiers, NEW f, TakeFrom(p, a, t, f)
  PROVE  LET b == Head(pool[p]) IN
         /\ b \in Blocks
         /\ GivenTo(p, b)
         /\ b \notin washing
         /\ \A q \in Pools : GivenTo(q, b) => q = p
         /\ \A q \in Pools, x \in Blocks : GivenTo(q, x)' <=> x # b /\ GivenTo(q, x)
         /\ \A u \in Tiers, x \in Blocks : InUse(u, x)' <=> InUse(u, x) \/ (u = t /\ x = b)
<1> DEFINE b == Head(pool[p])
<1>1. /\ b \in Blocks
      /\ Lists(pool[p], b)
      /\ \A x : Lists(Tail(pool[p]), x) <=> Lists(pool[p], x) /\ x # b
  BY PopFacts DEF TypeOK, TakeFrom, BlockConservation
<1>2. /\ pool' = [pool EXCEPT ![p] = Tail(pool[p])]
      /\ arena' = [arena EXCEPT ![a] = Held(t, b)]
      /\ transit' = transit
      /\ arena[a] = Idle
  BY DEF TakeFrom
<1>3. /\ \A u, v, x, y : Held(u, x) = Held(v, y) <=> u = v /\ x = y
      /\ \A u \in Tiers, x \in Blocks : Held(u, x) # Idle
  BY BlockZero DEF Held, Idle
<1> HIDE DEF b
<1>4. /\ \A q \in Pools : Lists(pool[q], b) => q = p
      /\ \A q \in Pools : b \notin transit[q]
      /\ b \notin washing
  BY <1>1, OnlyFree
<1>5. \A q \in Pools, x \in Blocks : GivenTo(q, x)' <=> x # b /\ GivenTo(q, x)
  BY <1>1, <1>2, <1>4, GivenToForm, GivenToFormNext DEF TypeOK
<1>6. /\ arena'[a] = Held(t, b)
      /\ \A c \in Arenas : c # a => arena'[c] = arena[c]
  BY <1>2 DEF TypeOK
<1>7. \A u \in Tiers, x \in Blocks : InUse(u, x)' <=> InUse(u, x) \/ (u = t /\ x = b)
  <2> TAKE u \in Tiers, x \in Blocks
  <2>1. InUse(u, x)' <=> \E c \in Arenas : arena'[c] = Held(u, x)
    BY DEF InUse
  <2> QED BY <1>2, <1>3, <1>6, <2>1 DEF InUse
<1> QED BY <1>1, <1>4, <1>5, <1>7, GivenToForm DEF b

\* What handing in changes: the block goes from the arena to the pool.
LEMMA HandInEffect ==
  ASSUME TypeOK, BlockConservation, NEW p \in Pools, NEW a \in Arenas,
         arena[a] # Idle, HandIn(a, p)
  PROVE  LET b == arena[a].block IN
         /\ \A q \in Pools, x \in Blocks : GivenTo(q, x)' <=> GivenTo(q, x) \/ (x = b /\ q = p)
         /\ \A u \in Tiers, x \in Blocks : InUse(u, x)' <=> x # b /\ InUse(u, x)
<1> DEFINE b == arena[a].block
<1>1. /\ b \in Blocks
      /\ arena[a] = Held(arena[a].tier, b)
      /\ \A c \in Arenas : arena[c].block = b => c = a
  BY ArenaForms, OnlyArena
<1>2. /\ transit' = [transit EXCEPT ![p] = @ \cup {b}]
      /\ pool' = pool
  BY DEF HandIn
<1>3. /\ arena'[a] = Idle
      /\ \A c \in Arenas : c # a => arena'[c] = arena[c]
  BY DEF HandIn, TypeOK
<1>4. /\ \A u, v, x, y : Held(u, x) = Held(v, y) <=> u = v /\ x = y
      /\ \A u \in Tiers, x \in Blocks : Held(u, x) # Idle
      /\ \A u, x : Held(u, x).block = x
  BY BlockZero DEF Held, Idle
<1> HIDE DEF b
<1>5. \A q \in Pools, x \in Blocks : GivenTo(q, x)' <=> GivenTo(q, x) \/ (x = b /\ q = p)
  BY <1>2, GivenToForm, GivenToFormNext DEF TypeOK
<1>6. \A u \in Tiers, x \in Blocks : InUse(u, x)' <=> x # b /\ InUse(u, x)
  <2> TAKE u \in Tiers, x \in Blocks
  <2>1. InUse(u, x)' <=> \E c \in Arenas : arena'[c] = Held(u, x)
    BY DEF InUse
  <2> QED BY <1>1, <1>3, <1>4, <2>1 DEF InUse
<1> QED BY <1>5, <1>6 DEF b

\* Linking changes neither who was given a block nor who uses it.
LEMMA LinkEffect ==
  ASSUME TypeOK, NEW p \in Pools, Link(p)
  PROVE  \A q \in Pools, x \in Blocks : GivenTo(q, x)' <=> GivenTo(q, x)
<1>1. PICK b \in transit[p] :
        /\ pool' = [pool EXCEPT ![p] = <<b>> \o @]
        /\ transit' = [transit EXCEPT ![p] = @ \ {b}]
  BY DEF Link
<1>2. b \in Blocks
  BY <1>1 DEF TypeOK
<1>3. \A x : Lists(<<b>> \o pool[p], x) <=> x = b \/ Lists(pool[p], x)
  BY <1>2, PushFacts DEF TypeOK
<1> QED BY <1>1, <1>3, GivenToForm, GivenToFormNext DEF TypeOK

\* What the sanitizer takes leaves the quarantine.
LEMMA SanitizerTakeEffect ==
  ASSUME TypeOK, BlockConservation, SanitizerTake
  PROVE  LET b == Head(pool["quarantine"]) IN
         /\ b \in Blocks
         /\ retired_gen[b] + 1 < generation
         /\ GivenTo("quarantine", b)
         /\ \A q \in Pools : GivenTo(q, b) => q = "quarantine"
         /\ washing' = washing \cup {b}
         /\ \A q \in Pools, x \in Blocks : GivenTo(q, x)' <=> x # b /\ GivenTo(q, x)
<1> DEFINE p == "quarantine"
           b == Head(pool[p])
<1>1. p \in Pools
  BY DEF Pools
<1>2. /\ b \in Blocks
      /\ Lists(pool[p], b)
      /\ \A x : Lists(Tail(pool[p]), x) <=> Lists(pool[p], x) /\ x # b
  BY <1>1, PopFacts DEF TypeOK, SanitizerTake, TopIsSafe, BlockConservation
<1>3. /\ pool' = [pool EXCEPT ![p] = Tail(pool[p])]
      /\ transit' = transit
      /\ washing' = washing \cup {b}
      /\ retired_gen[b] + 1 < generation
  BY DEF SanitizerTake, TopIsSafe
<1> HIDE DEF b, p
<1>4. /\ \A q \in Pools : Lists(pool[q], b) => q = p
      /\ \A q \in Pools : b \notin transit[q]
  BY <1>1, <1>2, OnlyFree
<1>5. \A q \in Pools, x \in Blocks : GivenTo(q, x)' <=> x # b /\ GivenTo(q, x)
  BY <1>1, <1>2, <1>3, <1>4, GivenToForm, GivenToFormNext DEF TypeOK
<1> QED BY <1>2, <1>3, <1>4, <1>5, GivenToForm DEF b, p

\* What the sanitizer has zeroed goes to the L2 pool.
LEMMA WashEffect ==
  ASSUME TypeOK, BlockConservation, NEW b \in Blocks, Wash(b)
  PROVE  /\ \A q \in Pools : ~GivenTo(q, b)
         /\ \A u : ~InUse(u, b)
         /\ washing' = washing \ {b}
         /\ \A q \in Pools, x \in Blocks :
              GivenTo(q, x)' <=> GivenTo(q, x) \/ (x = b /\ q = "l2")
<1>1. /\ \A q \in Pools : ~Lists(pool[q], b) /\ b \notin transit[q]
      /\ \A c \in Arenas : arena[c].block # b
  BY OnlyWashing DEF Wash
<1>2. \A q \in Pools : ~GivenTo(q, b)
  BY <1>1, GivenToForm
<1>3. \A u : ~InUse(u, b)
  BY <1>1 DEF InUse, Held
<1>4. \A q \in Pools, x \in Blocks :
        GivenTo(q, x)' <=> GivenTo(q, x) \/ (x = b /\ q = "l2")
  BY GivenToForm, GivenToFormNext DEF Wash, TypeOK, Pools
<1> QED BY <1>2, <1>3, <1>4 DEF Wash

\* A step that leaves the arenas alone leaves every use alone.
LEMMA InUseUnmoved ==
  ASSUME UNCHANGED arena
  PROVE  \A u, x : InUse(u, x)' <=> InUse(u, x)
BY DEF InUse

\* A step that leaves stacks and doors alone leaves GivenTo alone.
LEMMA GivenToUnmoved ==
  ASSUME UNCHANGED <<pool, transit>>
  PROVE  \A q, x : GivenTo(q, x)' <=> GivenTo(q, x)
BY GivenToForm, GivenToFormNext

-----------------------------------------------------------------------------
(* The tier split, the grace period and the quarantined flag               *)

\* The three are proved together: that a retired block stays out of the
\* trusted arenas is what makes the other two hold when an arena is closed.
Tiering == NeverMixWithCommon /\ GracePeriodElapsed /\ QuarantinedFlagExact

IInv == TypeOK /\ BlockConservation /\ Tiering

\* At the start the tiers are kept apart.
LEMMA TieringInit == Init => Tiering
<1> SUFFICES ASSUME Init PROVE Tiering
  OBVIOUS
<1>1. \A b \in Blocks : ~GivenTo("quarantine", b)
  <2>1. pool["quarantine"] = << >> /\ transit["quarantine"] = {}
    BY DEF Init, Pools
  <2>2. \A b : ~Lists(<< >>, b)
    BY DEF Lists
  <2> QED BY <2>1, <2>2, GivenToForm
<1> QED
  BY <1>1 DEF Init, Tiering, NeverMixWithCommon, GracePeriodElapsed, QuarantinedFlagExact,
     NoFlags

\* Taking a block from the pool of the arena's tier keeps the tiers apart.
LEMMA TieringTake ==
  ASSUME IInv, NEW p \in Pools, NEW a \in Arenas, NEW t \in Tiers,
         NEW f \in BlockFlags, ~f.quarantined, TakeFrom(p, a, t, f),
         t = "trusted" => p = "common",
         p = "quarantine" => TopIsSafe
  PROVE  Tiering'
<1> DEFINE b == Head(pool[p])
<1>1. /\ "common" \in Pools
      /\ "quarantine" \in Pools
  BY DEF Pools
<1>2. /\ retired_gen' = retired_gen /\ residue' = residue
      /\ generation' = generation /\ washing' = washing
      /\ flags' = [flags EXCEPT ![b] = f]
      /\ p = "quarantine" => retired_gen[b] + 1 < generation
  BY DEF TakeFrom, TopIsSafe
<1>3. /\ b \in Blocks
      /\ GivenTo(p, b)
      /\ b \notin washing
      /\ \A q \in Pools : GivenTo(q, b) => q = p
      /\ \A q \in Pools, x \in Blocks : GivenTo(q, x)' <=> x # b /\ GivenTo(q, x)
      /\ \A u \in Tiers, x \in Blocks : InUse(u, x)' <=> InUse(u, x) \/ (u = t /\ x = b)
  BY TakeEffect DEF IInv
<1> HIDE DEF b
<1>4. NeverMixWithCommon'
  <2> SUFFICES ASSUME NEW x \in Blocks, "untrusted" \in residue[x] \/ retired_gen[x] # 0
               PROVE  ~GivenTo("common", x)' /\ ~InUse("trusted", x)'
    BY <1>2 DEF NeverMixWithCommon
  <2>1. ~GivenTo("common", x) /\ ~InUse("trusted", x)
    BY DEF IInv, Tiering, NeverMixWithCommon
  <2>2. x = b => t # "trusted"
    BY <1>3, <2>1
  <2> QED BY <1>1, <1>3, <2>1, <2>2 DEF Tiers
<1>5. GracePeriodElapsed'
  BY <1>1, <1>2, <1>3 DEF IInv, Tiering, GracePeriodElapsed
<1>6. QuarantinedFlagExact'
  BY <1>1, <1>2, <1>3 DEF IInv, Tiering, QuarantinedFlagExact, TypeOK
<1> QED BY <1>4, <1>5, <1>6 DEF Tiering

\* Three facts are enough when no block changes its party.
LEMMA TieringUnmoved ==
  ASSUME IInv,
         \A q \in Pools, x \in Blocks : GivenTo(q, x)' <=> GivenTo(q, x),
         \A u \in Tiers, x \in Blocks : InUse(u, x)' <=> InUse(u, x),
         \A x \in Blocks : "untrusted" \in residue'[x] =>
           "untrusted" \in residue[x] \/ InUse("untrusted", x),
         \A x \in Blocks : flags'[x].quarantined <=> flags[x].quarantined,
         UNCHANGED <<washing, retired_gen>>,
         generation' \in Nat /\ generation' >= generation
  PROVE  Tiering'
<1>1. /\ "common" \in Pools /\ "quarantine" \in Pools
      /\ "trusted" \in Tiers
  BY DEF Pools, Tiers
<1>2. \A x \in Blocks : InUse("untrusted", x) => ~GivenTo("common", x) /\ ~InUse("trusted", x)
  <2> SUFFICES ASSUME NEW x \in Blocks, InUse("untrusted", x)
               PROVE  ~GivenTo("common", x) /\ ~InUse("trusted", x)
    OBVIOUS
  <2>1. PICK a \in Arenas : arena[a] = Held("untrusted", x)
    BY DEF InUse
  <2>2. arena[a] # Idle /\ arena[a].block = x /\ arena[a].tier = "untrusted"
    BY <2>1, BlockZero DEF Held, Idle
  <2>3. /\ \A u : InUse(u, arena[a].block) <=> u = arena[a].tier
        /\ \A q \in Pools : ~GivenTo(q, arena[a].block)
    BY <2>2, InUseForm DEF IInv
  <2> QED BY <1>1, <2>2, <2>3
<1>3. NeverMixWithCommon'
  BY <1>1, <1>2 DEF IInv, Tiering, NeverMixWithCommon
<1>4. GracePeriodElapsed'
  BY <1>1 DEF IInv, Tiering, GracePeriodElapsed, TypeOK
<1>5. QuarantinedFlagExact'
  BY <1>1 DEF IInv, Tiering, QuarantinedFlagExact
<1> QED BY <1>3, <1>4, <1>5 DEF Tiering

\* Use of an arena keeps the tiers apart.
LEMMA TieringAlloc ==
  ASSUME IInv, NEW a \in Arenas, Alloc(a)
  PROVE  Tiering'
<1> DEFINE b == arena[a].block
<1>1. b \in Blocks /\ (\A u : InUse(u, b) <=> u = arena[a].tier)
  BY InUseForm DEF IInv, Alloc
<1>2. /\ \A q \in Pools, x \in Blocks : GivenTo(q, x)' <=> GivenTo(q, x)
      /\ \A u \in Tiers, x \in Blocks : InUse(u, x)' <=> InUse(u, x)
  BY GivenToUnmoved, InUseUnmoved DEF Alloc
<1>3. \A x \in Blocks : "untrusted" \in residue'[x] =>
        "untrusted" \in residue[x] \/ InUse("untrusted", x)
  <2>1. \A x \in Blocks :
          residue'[x] = residue[x] \/ (x = b /\ residue'[x] = residue[x] \cup {arena[a].tier})
    BY <1>1 DEF Alloc, IInv, TypeOK
  <2> QED BY <1>1, <2>1
<1>4. \A x \in Blocks : flags'[x].quarantined <=> flags[x].quarantined
  BY <1>1 DEF Alloc, IInv, TypeOK, BlockFlags
<1>5. /\ UNCHANGED <<washing, retired_gen>>
      /\ generation' \in Nat /\ generation' >= generation
  BY DEF Alloc, IInv, TypeOK
<1> QED BY <1>2, <1>3, <1>4, <1>5, TieringUnmoved

\* Closing an arena is safe when the block goes where its tier's blocks go.
LEMMA TieringHandIn ==
  ASSUME IInv, NEW p \in Pools, NEW a \in Arenas, arena[a] # Idle, HandIn(a, p),
         p = "common" => arena[a].tier = "trusted",
         \A x \in Blocks : residue'[x] \subseteq residue[x],
         \A x \in Blocks :
           flags'[x].quarantined <=>
             IF x = arena[a].block THEN p = "quarantine" ELSE flags[x].quarantined,
         retired_gen' = IF p = "quarantine"
                        THEN [retired_gen EXCEPT ![arena[a].block] = generation]
                        ELSE retired_gen
  PROVE  Tiering'
<1> DEFINE b == arena[a].block
<1>1. /\ "common" \in Pools /\ "quarantine" \in Pools
      /\ "trusted" \in Tiers
  BY DEF Pools, Tiers
<1>2. /\ b \in Blocks
      /\ \A u : InUse(u, b) <=> u = arena[a].tier
      /\ \A q \in Pools : ~GivenTo(q, b)
      /\ b \notin washing
  BY InUseForm DEF IInv
<1>3. /\ \A q \in Pools, x \in Blocks : GivenTo(q, x)' <=> GivenTo(q, x) \/ (x = b /\ q = p)
      /\ \A u \in Tiers, x \in Blocks : InUse(u, x)' <=> x # b /\ InUse(u, x)
  BY HandInEffect DEF IInv
<1>4. /\ washing' = washing /\ generation' = generation
      /\ \A x \in Blocks : x # b \/ p # "quarantine" => retired_gen'[x] = retired_gen[x]
  BY <1>2 DEF HandIn, IInv, TypeOK
<1>5. \A x \in Blocks : flags'[x].quarantined <=>
        IF x = b THEN p = "quarantine" ELSE flags[x].quarantined
  OBVIOUS
<1> HIDE DEF b
<1>6. NeverMixWithCommon'
  <2> SUFFICES ASSUME NEW x \in Blocks, "untrusted" \in residue'[x] \/ retired_gen'[x] # 0
               PROVE  ~GivenTo("common", x)' /\ ~InUse("trusted", x)'
    BY DEF NeverMixWithCommon
  <2>1. CASE x = b /\ p = "quarantine"
    BY <1>1, <1>2, <1>3, <2>1
  <2>2. CASE ~(x = b /\ p = "quarantine")
    <3>1. ~GivenTo("common", x) /\ ~InUse("trusted", x)
      BY <1>4, <2>2 DEF IInv, Tiering, NeverMixWithCommon
    <3>2. x = b => p # "common"
      BY <1>2, <3>1 DEF b
    <3> QED BY <1>1, <1>3, <3>1, <3>2
  <2> QED BY <2>1, <2>2
<1>7. GracePeriodElapsed'
  BY <1>1, <1>3, <1>4 DEF IInv, Tiering, GracePeriodElapsed
<1>8. QuarantinedFlagExact'
  BY <1>1, <1>2, <1>3, <1>4, <1>5 DEF IInv, Tiering, QuarantinedFlagExact
<1> QED BY <1>6, <1>7, <1>8 DEF Tiering

\* The sanitizer's steps keep the tiers apart.
LEMMA TieringSanitizer ==
  ASSUME IInv, SanitizerTake \/ \E b \in Blocks : Wash(b)
  PROVE  Tiering'
<1>1. /\ "common" \in Pools /\ "quarantine" \in Pools
      /\ "l2" # "common" /\ "l2" # "quarantine"
  BY DEF Pools
<1>2. CASE SanitizerTake
  <2> DEFINE b == Head(pool["quarantine"])
  <2>1. /\ b \in Blocks
        /\ retired_gen[b] + 1 < generation
        /\ GivenTo("quarantine", b)
        /\ \A q \in Pools : GivenTo(q, b) => q = "quarantine"
        /\ washing' = washing \cup {b}
        /\ \A q \in Pools, x \in Blocks : GivenTo(q, x)' <=> x # b /\ GivenTo(q, x)
    BY <1>2, SanitizerTakeEffect DEF IInv
  <2>2. /\ retired_gen' = retired_gen /\ residue' = residue
        /\ generation' = generation /\ flags' = flags
        /\ \A u, x : InUse(u, x)' <=> InUse(u, x)
    BY <1>2, InUseUnmoved DEF SanitizerTake
  <2> HIDE DEF b
  <2>3. NeverMixWithCommon'
    BY <1>1, <2>1, <2>2 DEF IInv, Tiering, NeverMixWithCommon
  <2>4. GracePeriodElapsed'
    BY <1>1, <2>1, <2>2 DEF IInv, Tiering, GracePeriodElapsed
  <2>5. QuarantinedFlagExact'
    BY <1>1, <2>1, <2>2 DEF IInv, Tiering, QuarantinedFlagExact
  <2> QED BY <2>3, <2>4, <2>5 DEF Tiering
<1>3. CASE \E b \in Blocks : Wash(b)
  <2>1. PICK b \in Blocks : Wash(b)
    BY <1>3
  <2>2. /\ b \in washing
        /\ \A q \in Pools : ~GivenTo(q, b)
        /\ \A u : ~InUse(u, b)
        /\ washing' = washing \ {b}
        /\ \A q \in Pools, x \in Blocks :
             GivenTo(q, x)' <=> GivenTo(q, x) \/ (x = b /\ q = "l2")
    BY <2>1, WashEffect DEF IInv, Wash
  <2>3. /\ retired_gen' = retired_gen /\ generation' = generation
        /\ \A x \in Blocks : residue'[x] \subseteq residue[x]
        /\ \A x \in Blocks : flags'[x].quarantined <=> x # b /\ flags[x].quarantined
        /\ \A u, x : InUse(u, x)' <=> InUse(u, x)
    BY <2>1, InUseUnmoved DEF Wash, IInv, TypeOK, ZeroedFlags, NoFlags
  <2>4. NeverMixWithCommon'
    BY <1>1, <2>2, <2>3 DEF IInv, Tiering, NeverMixWithCommon
  <2>5. GracePeriodElapsed'
    BY <1>1, <2>2, <2>3 DEF IInv, Tiering, GracePeriodElapsed
  <2>6. QuarantinedFlagExact'
    BY <1>1, <2>2, <2>3 DEF IInv, Tiering, QuarantinedFlagExact
  <2> QED BY <2>4, <2>5, <2>6 DEF Tiering
<1> QED BY <1>2, <1>3

\* Every step keeps the tiers apart.
LEMMA TieringStep == IInv /\ [Next]_vars => Tiering'
<1> SUFFICES ASSUME IInv, [Next]_vars PROVE Tiering'
  OBVIOUS
<1>1. /\ \A p \in {"common", "quarantine", "l2"} : p \in Pools
      /\ \A t \in {"trusted", "untrusted"} : t \in Tiers
      /\ ~NoFlags.quarantined /\ ~DirtyFlags.quarantined /\ ~ZeroedFlags.quarantined
  BY DEF Pools, Tiers, NoFlags, DirtyFlags, ZeroedFlags
<1>2. ASSUME NEW a \in Arenas, InitTrusted(a) \/ InitUntrusted(a) PROVE Tiering'
  BY <1>1, <1>2, FlagTypes, TieringTake DEF InitTrusted, InitUntrusted
<1>3. ASSUME NEW a \in Arenas, Alloc(a) PROVE Tiering'
  BY <1>3, TieringAlloc
<1>4. ASSUME NEW a \in Arenas,
             \/ DeinitTrusted(a) \/ DeinitUntrusted(a)
             \/ DeinitAndZeroTrusted(a) \/ DeinitAndZeroUntrusted(a)
      PROVE  Tiering'
  <2> DEFINE b == arena[a].block
  <2>1. /\ arena[a] # Idle
        /\ b \in Blocks
        /\ \A q \in Pools : ~GivenTo(q, b)
        /\ b \notin washing
    BY <1>4, ArenaForms, InUseForm DEF IInv, DeinitTrusted, DeinitUntrusted,
       DeinitAndZeroTrusted, DeinitAndZeroUntrusted
  <2>2. ~flags[b].quarantined
    BY <1>1, <2>1 DEF IInv, Tiering, QuarantinedFlagExact
  <2>3. CASE DeinitTrusted(a)
    BY <1>1, <2>1, <2>2, <2>3, TieringHandIn DEF DeinitTrusted
  <2>4. CASE DeinitUntrusted(a)
    <3>1. \A x \in Blocks : flags'[x].quarantined <=>
            IF x = b THEN TRUE ELSE flags[x].quarantined
      BY <2>1, <2>4 DEF DeinitUntrusted, IInv, TypeOK, BlockFlags
    <3> QED BY <1>1, <2>1, <2>4, <3>1, TieringHandIn DEF DeinitUntrusted
  <2>5. CASE DeinitAndZeroTrusted(a)
    <3>1. \A x \in Blocks : residue'[x] \subseteq residue[x]
      BY <2>1, <2>5 DEF DeinitAndZeroTrusted, IInv, TypeOK
    <3> QED BY <1>1, <2>1, <2>2, <2>5, <3>1, TieringHandIn DEF DeinitAndZeroTrusted
  <2>6. CASE DeinitAndZeroUntrusted(a)
    <3>1. \A x \in Blocks : flags'[x].quarantined <=>
            IF x = b THEN FALSE ELSE flags[x].quarantined
      BY <1>1, <2>1, <2>6 DEF DeinitAndZeroUntrusted, IInv, TypeOK
    <3> QED BY <1>1, <2>1, <2>6, <3>1, TieringHandIn DEF DeinitAndZeroUntrusted
  <2> QED BY <1>4, <2>3, <2>4, <2>5, <2>6
<1>5. ASSUME NEW p \in Pools, Link(p) PROVE Tiering'
  <2>1. UNCHANGED <<washing, arena, flags, retired_gen, residue, generation>>
    BY <1>5 DEF Link
  <2> QED BY <1>5, <2>1, LinkEffect, InUseUnmoved, TieringUnmoved DEF IInv, TypeOK
<1>6. ASSUME SanitizerTake \/ \E b \in Blocks : Wash(b) PROVE Tiering'
  BY <1>6, TieringSanitizer
<1>7. ASSUME IncrementGeneration \/ UNCHANGED vars PROVE Tiering'
  <2>1. /\ UNCHANGED <<pool, transit, washing, arena, flags, retired_gen, residue>>
        /\ generation' \in Nat /\ generation' >= generation
    BY <1>7 DEF IncrementGeneration, vars, IInv, TypeOK
  <2> QED BY <2>1, GivenToUnmoved, InUseUnmoved, TieringUnmoved
<1> QED BY <1>2, <1>3, <1>4, <1>5, <1>6, <1>7 DEF Next

\* The inductive invariant holds in every reachable state.
LEMMA InductiveInvariant == Spec => []IInv
<1>1. Init => IInv
  BY TypeInit, ConservationInit, TieringInit DEF IInv
<1>2. IInv /\ [Next]_vars => IInv'
  BY TypeStep, ConservationStep, TieringStep DEF IInv
<1> QED BY <1>1, <1>2, PTL DEF Spec

\* What held untrusted data never comes back to the trusted side.
THEOREM NeverMix == Spec => []NeverMixWithCommon
<1>1. IInv => NeverMixWithCommon
  BY DEF IInv, Tiering
<1> QED BY <1>1, InductiveInvariant, PTL

\* No block leaves the quarantine within two generations of its retirement.
THEOREM GracePeriod == Spec => []GracePeriodElapsed
<1>1. IInv => GracePeriodElapsed
  BY DEF IInv, Tiering
<1> QED BY <1>1, InductiveInvariant, PTL

\* The quarantined flag says exactly whether the block awaits its zeroing.
THEOREM FlagExact == Spec => []QuarantinedFlagExact
<1>1. IInv => QuarantinedFlagExact
  BY DEF IInv, Tiering
<1> QED BY <1>1, InductiveInvariant, PTL

-----------------------------------------------------------------------------
(* Cleanliness of the L2 pool                                              *)

\* A step without deinitAndZero keeps the L2 pool clean.
LEMMA L2CleanStep ==
  IInv /\ ~StrictMode /\ L2PoolClean /\ [Next]_vars => L2PoolClean'
<1> SUFFICES ASSUME IInv, ~StrictMode, L2PoolClean, [Next]_vars PROVE L2PoolClean'
  OBVIOUS
<1>1. \A p \in {"common", "quarantine", "l2"} : p \in Pools
  BY DEF Pools
<1>2. ASSUME NEW a \in Arenas, InitTrusted(a) \/ InitUntrusted(a) PROVE L2PoolClean'
  <2>1. PICK p \in Pools, t \in Tiers : \E f : TakeFrom(p, a, t, f)
    BY <1>1, <1>2 DEF InitTrusted, InitUntrusted, Tiers
  <2>2. PICK f : TakeFrom(p, a, t, f)
    BY <2>1
  <2>3. \A q \in Pools, x \in Blocks : GivenTo(q, x)' => GivenTo(q, x)
    BY <2>2, TakeEffect DEF IInv
  <2> QED BY <1>1, <2>2, <2>3 DEF L2PoolClean, TakeFrom
<1>3. ASSUME NEW a \in Arenas, Alloc(a) PROVE L2PoolClean'
  <2> DEFINE b == arena[a].block
  <2>1. b \in Blocks /\ ~GivenTo("l2", b)
    BY <1>1, <1>3, InUseForm DEF IInv, Alloc
  <2>2. \A x \in Blocks : x # b => residue'[x] = residue[x]
    BY <1>3, <2>1 DEF Alloc, IInv, TypeOK
  <2>3. \A x \in Blocks : GivenTo("l2", x)' <=> GivenTo("l2", x)
    BY <1>3, GivenToUnmoved DEF Alloc
  <2> QED BY <2>1, <2>2, <2>3 DEF L2PoolClean
<1>4. ASSUME NEW a \in Arenas, DeinitTrusted(a) \/ DeinitUntrusted(a) PROVE L2PoolClean'
  <2>1. arena[a] # Idle /\ (HandIn(a, "common") \/ HandIn(a, "quarantine"))
    BY <1>4, ArenaForms DEF IInv, DeinitTrusted, DeinitUntrusted
  <2>2. \A x \in Blocks : GivenTo("l2", x)' => GivenTo("l2", x)
    BY <1>1, <2>1, HandInEffect DEF IInv
  <2> QED BY <1>4, <2>2 DEF L2PoolClean, DeinitTrusted, DeinitUntrusted
<1>5. ASSUME NEW p \in Pools, Link(p) PROVE L2PoolClean'
  BY <1>1, <1>5, LinkEffect DEF L2PoolClean, Link, IInv
<1>6. ASSUME SanitizerTake PROVE L2PoolClean'
  BY <1>1, <1>6, SanitizerTakeEffect DEF L2PoolClean, SanitizerTake, IInv
<1>7. ASSUME NEW b \in Blocks, Wash(b) PROVE L2PoolClean'
  <2>1. \A x \in Blocks : residue'[x] = IF x = b THEN {} ELSE residue[x]
    BY <1>7 DEF Wash, IInv, TypeOK
  <2> QED BY <1>1, <1>7, <2>1, WashEffect DEF L2PoolClean, IInv
<1>8. ASSUME IncrementGeneration \/ UNCHANGED vars PROVE L2PoolClean'
  BY <1>8, GivenToUnmoved DEF L2PoolClean, IncrementGeneration, vars
<1> QED
  BY <1>2, <1>3, <1>4, <1>5, <1>6, <1>7, <1>8 DEF Next, DeinitAndZeroTrusted,
     DeinitAndZeroUntrusted

\* As long as nothing calls deinitAndZero, what the L2 pool hands out is clean.
THEOREM L2Clean == ~StrictMode => (Spec => []L2PoolClean)
<1> SUFFICES ASSUME ~StrictMode PROVE Spec => []L2PoolClean
  OBVIOUS
<1>1. Init => L2PoolClean
  BY DEF Init, L2PoolClean
<1>2. IInv /\ L2PoolClean /\ [Next]_vars => L2PoolClean'
  BY L2CleanStep
<1> QED BY <1>1, <1>2, InductiveInvariant, PTL DEF Spec

-----------------------------------------------------------------------------
(* Every step is a hand-over of BlockCustody                               *)

AllParties == Pools \cup Tiers \cup {"sanitizer"}

\* Who holds a block, for every party that BlockCustody names.
LEMMA PartyForms ==
  /\ \A p \in Pools : \A x : WithParty(x, p) <=> GivenTo(p, x)
  /\ \A t \in Tiers : \A x : WithParty(x, t) <=> InUse(t, x)
  /\ \A x : WithParty(x, "sanitizer") <=> x \in washing
BY DEF WithParty, Pools, Tiers

\* The same, after a step.
LEMMA PartyFormsNext ==
  /\ \A p \in Pools : \A x : WithParty(x, p)' <=> GivenTo(p, x)'
  /\ \A t \in Tiers : \A x : WithParty(x, t)' <=> InUse(t, x)'
  /\ \A x : WithParty(x, "sanitizer")' <=> x \in washing'
BY DEF WithParty, Pools, Tiers

\* No block is with two parties.
LEMMA OneParty ==
  ASSUME TypeOK, BlockConservation, NEW b \in Blocks,
         NEW p \in AllParties, NEW q \in AllParties, WithParty(b, p), WithParty(b, q)
  PROVE  p = q
<1>1. ASSUME NEW u \in Tiers, InUse(u, b)
      PROVE  /\ \A v \in Tiers : InUse(v, b) => v = u
             /\ \A r \in Pools : ~GivenTo(r, b)
             /\ b \notin washing
  <2>1. PICK a \in Arenas : arena[a] = Held(u, b)
    BY <1>1 DEF InUse
  <2>2. arena[a] # Idle /\ arena[a].block = b /\ arena[a].tier = u
    BY <2>1, BlockZero DEF Held, Idle
  <2> QED BY <2>2, InUseForm
<1>2. b \in washing => \A r \in Pools : ~GivenTo(r, b)
  BY OnlyWashing, GivenToForm
<1>3. \A r, s \in Pools : GivenTo(r, b) /\ GivenTo(s, b) => r = s
  BY OnlyFree, OnlyTransit, GivenToForm
<1> QED BY <1>1, <1>2, <1>3, PartyForms DEF AllParties

\* Every block is with some party, which Custody names.
LEMMA SomeParty ==
  ASSUME TypeOK, BlockConservation, NEW b \in Blocks
  PROVE  \E p \in AllParties : WithParty(b, p)
<1>1. PICK s \in Sites : Found(s, b)
  BY DEF BlockConservation, OneSite
<1>2. CASE \E p \in Pools : s = <<"free", p>> \/ s = <<"transit", p>>
  BY <1>1, <1>2, FoundForms, GivenToForm, PartyForms DEF AllParties
<1>3. CASE \E a \in Arenas : s = <<"arena", a>>
  <2>1. PICK a \in Arenas : arena[a].block = b
    BY <1>1, <1>3, FoundForms
  <2>2. arena[a].tier \in Tiers /\ arena[a] = Held(arena[a].tier, b)
    BY <2>1, ArenaForms, BlockZero
  <2>3. InUse(arena[a].tier, b)
    BY <2>2 DEF InUse
  <2> QED BY <2>2, <2>3, PartyForms DEF AllParties
<1>4. CASE s = <<"washing", "l2">>
  BY <1>1, <1>4, FoundForms, PartyForms DEF AllParties
<1> QED BY <1>2, <1>3, <1>4, SiteForms

\* Custody is the party that has the block.
LEMMA CustodyIs ==
  TypeOK /\ BlockConservation =>
    \A b \in Blocks : /\ Custody(b) \in AllParties
                      /\ \A p \in AllParties : WithParty(b, p) <=> Custody(b) = p
<1> SUFFICES ASSUME TypeOK, BlockConservation, NEW b \in Blocks
             PROVE  /\ Custody(b) \in AllParties
                    /\ \A p \in AllParties : WithParty(b, p) <=> Custody(b) = p
  OBVIOUS
<1>1. Custody(b) \in AllParties /\ WithParty(b, Custody(b))
  <2>1. Custody(b) = CHOOSE p \in AllParties : WithParty(b, p)
    BY DEF Custody, AllParties
  <2> QED BY <2>1, SomeParty
<1> QED BY <1>1, OneParty

\* The same, after a step.
LEMMA CustodyIsNext ==
  TypeOK' /\ BlockConservation' =>
    \A b \in Blocks : /\ Custody(b)' \in AllParties
                      /\ \A p \in AllParties : WithParty(b, p)' <=> Custody(b)' = p
<1>1. (TypeOK /\ BlockConservation =>
         \A b \in Blocks : /\ Custody(b) \in AllParties
                           /\ \A p \in AllParties : WithParty(b, p) <=> Custody(b) = p)'
  BY CustodyIs, PTL
<1> QED BY <1>1

\* One block changes its party along an edge, and the others keep theirs.
LEMMA Trade ==
  ASSUME IInv, IInv', NEW b \in Blocks, NEW p \in AllParties, NEW q \in AllParties,
         <<p, q>> \in Promise!Handovers, WithParty(b, p), WithParty(b, q)',
         \A x \in Blocks, r \in AllParties : x # b /\ WithParty(x, r) => WithParty(x, r)'
  PROVE  Promise!Next
<1>1. /\ Custody(b) = p
      /\ \A x \in Blocks : Custody(x) \in AllParties
                           /\ \A r \in AllParties : WithParty(x, r) <=> Custody(x) = r
  BY CustodyIs DEF IInv
<1>2. /\ Custody(b)' = q
      /\ \A x \in Blocks, r \in AllParties : WithParty(x, r)' => Custody(x)' = r
  BY CustodyIsNext DEF IInv
<1>3. \A x \in Blocks : x # b => Custody(x)' = Custody(x)
  BY <1>1, <1>2
<1>4. CustodyMap' = [CustodyMap EXCEPT ![b] = q]
  BY <1>2, <1>3 DEF CustodyMap
<1>5. q \in Promise!Parties /\ b \in Promise!Blocks
  BY DEF AllParties, Pools, Tiers, Promise!Parties, Promise!Blocks, Blocks
<1>6. CustodyMap[b] = p
  BY <1>1 DEF CustodyMap
<1> QED BY <1>4, <1>5, <1>6 DEF Promise!Next, Promise!Handover

\* No block changes its party.
LEMMA NoTrade ==
  ASSUME IInv, IInv',
         \A x \in Blocks, r \in AllParties : WithParty(x, r) => WithParty(x, r)'
  PROVE  CustodyMap' = CustodyMap
BY CustodyIs, CustodyIsNext DEF IInv, CustodyMap

\* The edges of BlockCustody that the pools use.
LEMMA Edges ==
  /\ \A e \in Promise!Handovers : e \in AllParties \X AllParties
  /\ \A t \in Tiers : <<"common", t>> \in Promise!Handovers
  /\ <<"l2", "untrusted">> \in Promise!Handovers
  /\ <<"quarantine", "untrusted">> \in Promise!Handovers
  /\ <<"trusted", "common">> \in Promise!Handovers
  /\ <<"untrusted", "quarantine">> \in Promise!Handovers
  /\ <<"untrusted", "l2">> \in Promise!Handovers
  /\ <<"quarantine", "sanitizer">> \in Promise!Handovers
  /\ <<"sanitizer", "l2">> \in Promise!Handovers
BY DEF Promise!Handovers, AllParties, Pools, Tiers

\* Taking a block is a hand-over that BlockCustody allows.
LEMMA TakeTrades ==
  ASSUME IInv, IInv', NEW p \in Pools, NEW a \in Arenas, NEW t \in Tiers, NEW f,
         TakeFrom(p, a, t, f), <<p, t>> \in Promise!Handovers
  PROVE  Promise!Next
<1>1. PICK b \in Blocks :
        /\ GivenTo(p, b)
        /\ \A q \in Pools, x \in Blocks : GivenTo(q, x)' <=> x # b /\ GivenTo(q, x)
        /\ \A u \in Tiers, x \in Blocks : InUse(u, x)' <=> InUse(u, x) \/ (u = t /\ x = b)
        /\ washing' = washing
  <2> DEFINE h == Head(pool[p])
  <2>1. /\ h \in Blocks
        /\ GivenTo(p, h)
        /\ \A q \in Pools, x \in Blocks : GivenTo(q, x)' <=> x # h /\ GivenTo(q, x)
        /\ \A u \in Tiers, x \in Blocks : InUse(u, x)' <=> InUse(u, x) \/ (u = t /\ x = h)
    BY TakeEffect DEF IInv
  <2>2. washing' = washing
    BY DEF TakeFrom
  <2> QED BY <2>1, <2>2
<1>2. WithParty(b, p) /\ WithParty(b, t)'
  BY <1>1, PartyForms, PartyFormsNext
<1>3. \A x \in Blocks, r \in AllParties : x # b /\ WithParty(x, r) => WithParty(x, r)'
  BY <1>1, PartyForms, PartyFormsNext DEF AllParties
<1> QED BY <1>1, <1>2, <1>3, Trade DEF AllParties

\* Handing a block in is a hand-over that BlockCustody allows.
LEMMA HandInTrades ==
  ASSUME IInv, IInv', NEW p \in Pools, NEW a \in Arenas, arena[a] # Idle,
         HandIn(a, p), <<arena[a].tier, p>> \in Promise!Handovers
  PROVE  Promise!Next
<1>1. PICK b \in Blocks, t \in Tiers :
        /\ <<t, p>> \in Promise!Handovers
        /\ InUse(t, b)
        /\ \A q \in Pools, x \in Blocks : GivenTo(q, x)' <=> GivenTo(q, x) \/ (x = b /\ q = p)
        /\ \A u \in Tiers, x \in Blocks : InUse(u, x)' <=> x # b /\ InUse(u, x)
        /\ washing' = washing
  BY HandInEffect, InUseForm, ArenaForms DEF IInv, HandIn
<1>2. WithParty(b, t) /\ WithParty(b, p)'
  BY <1>1, PartyForms, PartyFormsNext
<1>3. \A x \in Blocks, r \in AllParties : x # b /\ WithParty(x, r) => WithParty(x, r)'
  BY <1>1, PartyForms, PartyFormsNext DEF AllParties
<1> QED BY <1>1, <1>2, <1>3, Trade DEF AllParties

\* The sanitizer's steps are hand-overs that BlockCustody allows.
LEMMA SanitizerTrades ==
  ASSUME IInv, IInv', SanitizerTake \/ \E b \in Blocks : Wash(b)
  PROVE  Promise!Next
<1>1. /\ "quarantine" \in Pools /\ "l2" \in Pools
      /\ "quarantine" \in AllParties /\ "l2" \in AllParties /\ "sanitizer" \in AllParties
  BY DEF Pools, AllParties
<1>2. CASE SanitizerTake
  <2>1. PICK b \in Blocks :
          /\ GivenTo("quarantine", b)
          /\ washing' = washing \cup {b}
          /\ \A q \in Pools, x \in Blocks : GivenTo(q, x)' <=> x # b /\ GivenTo(q, x)
          /\ \A u, x : InUse(u, x)' <=> InUse(u, x)
    BY <1>2, SanitizerTakeEffect, InUseUnmoved DEF IInv, SanitizerTake
  <2>2. WithParty(b, "quarantine") /\ WithParty(b, "sanitizer")'
    BY <1>1, <2>1, PartyForms, PartyFormsNext
  <2>3. \A x \in Blocks, r \in AllParties : x # b /\ WithParty(x, r) => WithParty(x, r)'
    BY <2>1, PartyForms, PartyFormsNext DEF AllParties
  <2> QED BY <1>1, <2>1, <2>2, <2>3, Trade, Edges
<1>3. CASE \E b \in Blocks : Wash(b)
  <2>1. PICK b \in Blocks : Wash(b)
    BY <1>3
  <2>2. /\ b \in washing
        /\ washing' = washing \ {b}
        /\ \A q \in Pools, x \in Blocks :
             GivenTo(q, x)' <=> GivenTo(q, x) \/ (x = b /\ q = "l2")
        /\ \A u, x : InUse(u, x)' <=> InUse(u, x)
    BY <2>1, WashEffect, InUseUnmoved DEF IInv, Wash
  <2>3. WithParty(b, "sanitizer") /\ WithParty(b, "l2")'
    BY <1>1, <2>2, PartyForms, PartyFormsNext
  <2>4. \A x \in Blocks, r \in AllParties : x # b /\ WithParty(x, r) => WithParty(x, r)'
    BY <2>2, PartyForms, PartyFormsNext DEF AllParties
  <2> QED BY <1>1, <2>2, <2>3, <2>4, Trade, Edges
<1> QED BY <1>2, <1>3

\* Every step of the pools is a hand-over or changes nobody's custody.
LEMMA CustodyStep ==
  IInv /\ IInv' /\ [Next]_vars => [Promise!Next]_CustodyMap
<1> SUFFICES ASSUME IInv, IInv', [Next]_vars
             PROVE  \/ Promise!Next
                    \/ UNCHANGED CustodyMap
  OBVIOUS
<1>1. /\ \A p \in {"common", "quarantine", "l2"} : p \in Pools
      /\ \A t \in {"trusted", "untrusted"} : t \in Tiers
  BY DEF Pools, Tiers
<1>2. ASSUME NEW a \in Arenas, InitTrusted(a) \/ InitUntrusted(a) PROVE Promise!Next
  BY <1>1, <1>2, TakeTrades, Edges DEF InitTrusted, InitUntrusted
<1>3. ASSUME NEW a \in Arenas,
             \/ DeinitTrusted(a) \/ DeinitUntrusted(a)
             \/ DeinitAndZeroTrusted(a) \/ DeinitAndZeroUntrusted(a)
      PROVE  Promise!Next
  <2>1. arena[a] # Idle
    BY <1>3, ArenaForms DEF IInv, DeinitTrusted, DeinitUntrusted,
       DeinitAndZeroTrusted, DeinitAndZeroUntrusted
  <2> QED
    BY <1>1, <1>3, <2>1, HandInTrades, Edges DEF DeinitTrusted, DeinitUntrusted,
       DeinitAndZeroTrusted, DeinitAndZeroUntrusted
<1>4. ASSUME SanitizerTake \/ \E b \in Blocks : Wash(b) PROVE Promise!Next
  BY <1>4, SanitizerTrades
<1>5. ASSUME \/ \E a \in Arenas : Alloc(a)
             \/ \E p \in Pools : Link(p)
             \/ IncrementGeneration
             \/ UNCHANGED vars
      PROVE  UNCHANGED CustodyMap
  <2>1. UNCHANGED <<washing, arena>>
    BY <1>5 DEF Alloc, Link, IncrementGeneration, vars
  <2>2. \A q \in Pools, x \in Blocks : GivenTo(q, x)' <=> GivenTo(q, x)
    BY <1>5, LinkEffect, GivenToUnmoved DEF Alloc, IncrementGeneration, vars, IInv
  <2>3. \A x \in Blocks, r \in AllParties : WithParty(x, r) => WithParty(x, r)'
    BY <2>1, <2>2, InUseUnmoved, PartyForms, PartyFormsNext DEF AllParties
  <2> QED BY <2>3, NoTrade
<1> QED BY <1>2, <1>3, <1>4, <1>5 DEF Next

\* At the start every block is where BlockCustody starts it.
LEMMA CustodyInit == Init => Promise!Init
<1> SUFFICES ASSUME Init PROVE Promise!Init
  OBVIOUS
<1>1. TypeOK /\ BlockConservation
  BY TypeInit, ConservationInit
<1>2. pool["common"] = [i \in Blocks |-> i] /\ "common" \in Pools /\ "common" \in AllParties
  BY DEF Init, Pools, AllParties
<1>3. \A b \in Blocks : WithParty(b, "common")
  BY <1>2, GivenToForm, PartyForms DEF Lists
<1>4. \A b \in Blocks : Custody(b) = "common"
  BY <1>1, <1>2, <1>3, CustodyIs
<1> QED BY <1>4 DEF CustodyMap, Promise!Init, Promise!Blocks, Blocks

\* The pools keep the promise of BlockCustody.
THEOREM CustodyKept == Spec => KeepsCustody
<1>1. IInv /\ IInv' /\ [Next]_vars => [Promise!Next]_CustodyMap
  BY CustodyStep
<1> QED BY <1>1, CustodyInit, InductiveInvariant, PTL DEF Spec, KeepsCustody, Promise!Spec

=============================================================================
