--------------------------- MODULE GqapPools_proofs ---------------------------
(***************************************************************************)
(* Proofs about the free lists, for any number of blocks, arenas, threads  *)
(* and generations.  The types, always.  And in the uses of the pools that *)
(* the code gets right, SafeUse: each pointer operation is an operation of *)
(* GqapLifecycle or none, so that its theorems hold of the stacks that the *)
(* pointers spell, and the counters agree with these stacks.               *)
(***************************************************************************)
EXTENDS GqapPools, CommonLemmas

-----------------------------------------------------------------------------
(* What a chain of pointers spells                                         *)

Pointers == Blocks \cup {NoBlock}

\* The blocks of s, in this order, are what one finds from b on.
Spells(follower, s, b) ==
  /\ b = IF s = << >> THEN NoBlock ELSE s[1]
  /\ \A i \in 1 .. Len(s) : follower[s[i]] = IF i = Len(s) THEN NoBlock ELSE s[i + 1]

\* The chains that are one block longer.
Longer(follower, shorter) ==
  [b \in Pointers |-> IF b = NoBlock THEN << >> ELSE <<b>> \o shorter[follower[b]]]

Layers(f, follower, k) ==
  /\ DOMAIN f = 0 .. k /\ f = [n \in 0 .. k |-> f[n]]
  /\ f[0] = [b \in Pointers |-> << >>]
  /\ \A n \in 1 .. k : f[n] = Longer(follower, f[n - 1])

\* There are such chains of every length.
LEMMA LayersExist ==
  ASSUME NEW follower, NEW k \in Nat PROVE \E f : Layers(f, follower, k)
<1> DEFINE A == {n \in Nat : \E f : Layers(f, follower, n)}
<1>1. 0 \in A
  <2> DEFINE f == [n \in 0 .. 0 |-> [b \in Pointers |-> << >>]]
  <2>1. Layers(f, follower, 0)
    BY DEF Layers
  <2> HIDE DEF f
  <2> QED BY <2>1
<1>2. ASSUME NEW n \in Nat, n \in A PROVE n + 1 \in A
  <2>1. PICK f : Layers(f, follower, n)
    BY <1>2
  <2> DEFINE x == Longer(follower, f[n])
             g == [m \in 0 .. n + 1 |-> IF m = n + 1 THEN x ELSE f[m]]
  <2> HIDE DEF x
  <2>2. DOMAIN g = 0 .. n + 1 /\ g = [m \in 0 .. n + 1 |-> g[m]]
    OBVIOUS
  <2>3. g[n + 1] = x /\ \A m \in 0 .. n : g[m] = f[m]
    OBVIOUS
  <2> HIDE DEF g
  <2>4. g[0] = [b \in Pointers |-> << >>]
    BY <2>1, <2>3 DEF Layers
  <2>5. ASSUME NEW m \in 1 .. n + 1 PROVE g[m] = Longer(follower, g[m - 1])
    <3>1. CASE m = n + 1
      BY <2>3, <3>1 DEF x
    <3>2. CASE m # n + 1
      <4>1. m \in 1 .. n /\ m \in 0 .. n /\ m - 1 \in 0 .. n
        BY <3>2
      <4> QED BY <2>1, <2>3, <4>1 DEF Layers
    <3> QED BY <3>1, <3>2
  <2>6. Layers(g, follower, n + 1)
    BY <2>2, <2>4, <2>5 DEF Layers
  <2> QED BY <2>6
<1>3. k \in A
  <2> HIDE DEF A
  <2> QED BY <1>1, <1>2, OneByOne
<1> QED BY <1>3

\* Chain is these chains.
LEMMA ChainLayers ==
  ASSUME NEW follower PROVE Layers(Chain(follower), follower, BlockCount)
<1> DEFINE Eq(f) == f = [n \in 0 .. BlockCount |->
                           [b \in Blocks \cup {NoBlock} |->
                              IF n = 0 \/ b = NoBlock THEN << >>
                              ELSE <<b>> \o f[n - 1][follower[b]]]]
           F == CHOOSE f : Eq(f)
<1>1. Chain(follower) = F
  BY DEF Chain
<1>2. PICK g : Layers(g, follower, BlockCount)
  BY LayersExist, PoolsAssumption
<1>3. Eq(g)
  <2> DEFINE h == [n \in 0 .. BlockCount |->
                     [b \in Blocks \cup {NoBlock} |->
                        IF n = 0 \/ b = NoBlock THEN << >> ELSE <<b>> \o g[n - 1][follower[b]]]]
  <2>1. ASSUME NEW n \in 0 .. BlockCount PROVE g[n] = h[n]
    <3>1. CASE n = 0
      BY <1>2, <3>1 DEF Layers, Pointers
    <3>2. CASE n # 0
      <4>1. n \in 1 .. BlockCount
        BY <3>2
      <4>2. g[n] = Longer(follower, g[n - 1])
        BY <1>2, <4>1 DEF Layers
      <4>3. h[n] = [b \in Pointers |-> IF b = NoBlock THEN << >> ELSE <<b>> \o g[n - 1][follower[b]]]
        BY <3>2 DEF Pointers
      <4> QED BY <4>2, <4>3 DEF Longer
    <3> QED BY <3>1, <3>2
  <2>2. DOMAIN h = 0 .. BlockCount /\ h = [n \in 0 .. BlockCount |-> h[n]]
    OBVIOUS
  <2> HIDE DEF h
  <2>3. g = h
    BY <1>2, <2>1, <2>2 DEF Layers
  <2> QED BY <2>3 DEF h
<1>4. Eq(F)
  <2> HIDE DEF Eq
  <2> QED BY <1>3
<1> HIDE DEF F
<1>5. DOMAIN F = 0 .. BlockCount /\ F = [n \in 0 .. BlockCount |-> F[n]]
  BY <1>4
<1>6. F[0] = [b \in Pointers |-> << >>]
  <2>1. 0 \in 0 .. BlockCount
    BY PoolsAssumption
  <2> QED BY <1>4, <2>1 DEF Pointers
<1>7. ASSUME NEW n \in 1 .. BlockCount PROVE F[n] = Longer(follower, F[n - 1])
  <2>1. n \in 0 .. BlockCount /\ n # 0
    BY PoolsAssumption
  <2>2. F[n] = [b \in Blocks \cup {NoBlock} |->
                  IF n = 0 \/ b = NoBlock THEN << >> ELSE <<b>> \o F[n - 1][follower[b]]]
    BY <1>4, <2>1
  <2> QED BY <2>1, <2>2 DEF Longer, Pointers
<1> QED BY <1>1, <1>5, <1>6, <1>7 DEF Layers

\* The rest of a chain is the chain of the next block.
LEMMA SpellsTail ==
  ASSUME NEW follower, NEW s \in Seq(Blocks), NEW b, Spells(follower, s, b), s # << >>
  PROVE  /\ b = Head(s) /\ b \in Blocks /\ s = <<b>> \o Tail(s)
         /\ Tail(s) \in Seq(Blocks) /\ Len(Tail(s)) = Len(s) - 1
         /\ Spells(follower, Tail(s), follower[b])
<1> DEFINE t == Tail(s)
<1>1. /\ b = Head(s) /\ b = s[1] /\ b \in Blocks /\ s = <<b>> \o t
      /\ Len(s) \in Nat /\ Len(s) >= 1
      /\ t \in Seq(Blocks) /\ Len(t) = Len(s) - 1
      /\ \A i \in 1 .. Len(t) : t[i] = s[i + 1]
      /\ t = << >> <=> Len(s) = 1
  <2>1. Len(s) \in Nat /\ Len(s) >= 1 /\ s[1] \in Blocks /\ Head(s) = s[1]
    OBVIOUS
  <2>2. t \in Seq(Blocks) /\ Len(t) = Len(s) - 1 /\ \A i \in 1 .. Len(t) : t[i] = s[i + 1]
    BY <2>1
  <2>3. b = s[1]
    BY DEF Spells
  <2>4. s = <<s[1]>> \o t
    BY <2>1, <2>2
  <2>5. t = << >> <=> Len(s) = 1
    BY <2>1, <2>2
  <2> QED BY <2>1, <2>2, <2>3, <2>4, <2>5
<1>2. \A i \in 1 .. Len(s) : follower[s[i]] = IF i = Len(s) THEN NoBlock ELSE s[i + 1]
  BY DEF Spells
<1> HIDE DEF t
<1>3. follower[b] = IF t = << >> THEN NoBlock ELSE t[1]
  BY <1>1, <1>2
<1>4. ASSUME NEW i \in 1 .. Len(t)
      PROVE  follower[t[i]] = IF i = Len(t) THEN NoBlock ELSE t[i + 1]
  <2>1. i + 1 \in 1 .. Len(s) /\ t[i] = s[i + 1] /\ (i = Len(t) <=> i + 1 = Len(s))
    BY <1>1
  <2>2. i # Len(t) => i + 1 \in 1 .. Len(t)
    BY <1>1
  <2> QED BY <1>1, <1>2, <2>1, <2>2
<1> QED BY <1>1, <1>3, <1>4 DEF Spells, t

\* A block put in front of a chain makes a longer one.
LEMMA SpellsPush ==
  ASSUME NEW follower, NEW s \in Seq(Blocks), NEW b, Spells(follower, s, b),
         NEW x \in Blocks, follower[x] = b
  PROVE  Spells(follower, <<x>> \o s, x)
<1> DEFINE t == <<x>> \o s
<1>1. /\ Len(s) \in Nat /\ t # << >> /\ t[1] = x /\ Len(t) = Len(s) + 1
      /\ \A i \in 1 .. Len(s) : t[i + 1] = s[i]
      /\ s = << >> <=> Len(s) = 0
  OBVIOUS
<1>2. /\ b = IF s = << >> THEN NoBlock ELSE s[1]
      /\ \A i \in 1 .. Len(s) : follower[s[i]] = IF i = Len(s) THEN NoBlock ELSE s[i + 1]
  BY DEF Spells
<1> HIDE DEF t
<1>3. ASSUME NEW i \in 1 .. Len(t)
      PROVE  follower[t[i]] = IF i = Len(t) THEN NoBlock ELSE t[i + 1]
  <2>1. CASE i = 1
    BY <1>1, <1>2, <2>1
  <2>2. CASE i # 1
    <3>1. i - 1 \in 1 .. Len(s) /\ (i - 1) + 1 = i /\ (i = Len(t) <=> i - 1 = Len(s))
      BY <1>1, <2>2
    <3>2. t[i] = s[i - 1]
      BY <1>1, <3>1
    <3>3. i # Len(t) => i \in 1 .. Len(s) /\ t[i + 1] = s[i]
      BY <1>1, <3>1
    <3> QED BY <1>2, <3>1, <3>2, <3>3
  <2> QED BY <2>1, <2>2
<1> QED BY <1>1, <1>3 DEF Spells, t

\* A new follower of a block outside a chain does not change the chain.
LEMMA SpellsOther ==
  ASSUME NEW follower \in [Blocks -> Pointers], NEW s \in Seq(Blocks), NEW b,
         Spells(follower, s, b), NEW x, NEW y, \A i \in 1 .. Len(s) : s[i] # x
  PROVE  Spells([follower EXCEPT ![x] = y], s, b)
<1>1. \A i \in 1 .. Len(s) : [follower EXCEPT ![x] = y][s[i]] = follower[s[i]]
  OBVIOUS
<1> QED BY <1>1 DEF Spells

\* Chain finds what the pointers spell.
LEMMA ChainSpells ==
  ASSUME NEW follower \in [Blocks -> Pointers], NEW s \in Seq(Blocks), NEW b \in Pointers,
         Spells(follower, s, b), Len(s) <= BlockCount
  PROVE  Chain(follower)[BlockCount][b] = s
<1> DEFINE c == Chain(follower)
           Found(k) == \A q \in Seq(Blocks), x \in Pointers :
                         Spells(follower, q, x) /\ Len(q) <= k => c[k][x] = q
           A == {k \in Nat : k <= BlockCount => Found(k)}
<1>1. /\ c[0] = [x \in Pointers |-> << >>]
      /\ \A n \in 1 .. BlockCount : c[n] = Longer(follower, c[n - 1])
  BY ChainLayers DEF Layers
<1> HIDE DEF c
<1>2. 0 \in A
  <2>1. ASSUME NEW q \in Seq(Blocks), NEW x \in Pointers, Len(q) <= 0 PROVE c[0][x] = q
    <3>1. q = << >>
      BY <2>1
    <3> QED BY <1>1, <3>1
  <2> QED BY <2>1
<1>3. ASSUME NEW k \in Nat, k \in A PROVE k + 1 \in A
  <2> SUFFICES ASSUME k + 1 <= BlockCount, NEW q \in Seq(Blocks), NEW x \in Pointers,
                      Spells(follower, q, x), Len(q) <= k + 1
               PROVE  c[k + 1][x] = q
    OBVIOUS
  <2>1. k + 1 \in 1 .. BlockCount /\ (k + 1) - 1 = k /\ k <= BlockCount
    BY PoolsAssumption
  <2>2. c[k + 1] = Longer(follower, c[k])
    BY <1>1, <2>1
  <2>3. CASE q = << >>
    BY <2>2, <2>3 DEF Spells, Longer
  <2>4. CASE q # << >>
    <3>1. /\ x \in Blocks /\ q = <<x>> \o Tail(q)
          /\ Tail(q) \in Seq(Blocks) /\ Len(Tail(q)) <= k
          /\ Spells(follower, Tail(q), follower[x])
      BY <2>4, SpellsTail
    <3>2. follower[x] \in Pointers
      BY <3>1
    <3>3. c[k][follower[x]] = Tail(q)
      BY <1>3, <2>1, <3>1, <3>2
    <3>4. x # NoBlock /\ x \in Pointers
      BY <3>1, PoolsAssumption DEF Blocks, NoBlock
    <3>5. c[k + 1][x] = <<x>> \o c[k][follower[x]]
      BY <2>2, <3>4 DEF Longer
    <3> QED BY <3>1, <3>3, <3>5
  <2> QED BY <2>3, <2>4
<1>4. Found(BlockCount)
  <2>1. Nat \subseteq A
    <3> HIDE DEF A
    <3> QED BY <1>2, <1>3, OneByOne
  <2> QED BY <2>1, PoolsAssumption
<1> QED BY <1>4 DEF c

-----------------------------------------------------------------------------
(* Types, and the locals of a thread                                       *)

ThreadType ==
  [pc : Steps, pool : Pools, h : Pointers, n : Pointers, blk : Pointers,
   gen : 0 .. MaxGen, arena : Arenas \cup {NoArena}, tier : Tiers \cup {"none"}]

\* What the memory that threads share holds.
SharedOK ==
  /\ head        \in [Pools -> Pointers]
  /\ next        \in [Blocks -> Pointers]
  /\ count       \in [Pools -> 0 .. CountMod - 1]
  /\ arena       \in [Arenas -> {Idle} \cup [tier : Tiers, block : Blocks]]
  /\ flags       \in [Blocks -> [dirty : BOOLEAN, zeroed : BOOLEAN, quarantined : BOOLEAN]]
  /\ retired_gen \in [Blocks -> 0 .. MaxGen]
  /\ residue     \in [Blocks -> SUBSET Tiers]
  /\ generation  \in 1 .. MaxGen

\* The pool and the block that thread t works on, by the call it is in.
Local(t, r) ==
  /\ r.pc = "idle" => r.blk = NoBlock /\ r.arena = NoArena
  /\ r.pc \in PopSteps =>
       /\ t \in Openers /\ r.arena \in Arenas /\ r.blk = NoBlock
       /\ \/ r.tier = "trusted" /\ r.pool = "common"
          \/ r.tier = "untrusted" /\ r.pool \in {"common", "l2"}
  /\ r.pc \in SafeSteps =>
       /\ r.pool = "quarantine" /\ r.blk = NoBlock
       /\ r.arena \in Arenas => r.tier = "untrusted"
  /\ r.pc \in {"pop next", "pop swap", "safe check", "safe next", "safe store"} => r.h \in Blocks
  /\ r.pc = "count down" => IF r.arena = NoArena THEN r.blk \in Blocks ELSE r.blk = NoBlock
  /\ r.pc \in PushSteps \cup {"wash", "count up"} => r.blk \in Blocks /\ r.arena = NoArena

ThreadsOK == th \in [Threads -> ThreadType] /\ \A t \in Threads : Local(t, th[t])

TInv == SharedOK /\ ThreadsOK

\* The blocks and the bounds of the model.
LEMMA Bounds ==
  /\ BlockCount \in Nat /\ 1 \in Blocks /\ NoBlock \notin Blocks
  /\ MaxGen \in Nat /\ 1 \in 1 .. MaxGen /\ 0 \in 0 .. MaxGen
  /\ CountMod \in Nat \ {0} /\ 0 \in 0 .. CountMod - 1
  /\ NoBlock \in Pointers /\ Blocks \subseteq Pointers
BY PoolsAssumption DEF Blocks, NoBlock, Pointers

\* The type invariant is what TypeOK says.
LEMMA TypesAreOK == TInv => TypeOK
BY DEF TInv, SharedOK, ThreadsOK, TypeOK, ThreadType, Pointers

\* A thread that rests has the locals of no call.
LEMMA RestingLocals == Resting \in ThreadType /\ \A t : Local(t, Resting)
BY Bounds DEF Resting, ThreadType, Local, Steps, PopSteps, SafeSteps, PushSteps, Pools

\* One thread changes its locals to fitting ones.
LEMMA SetThread ==
  ASSUME TInv, SharedOK', NEW t \in Threads, NEW r \in ThreadType, Local(t, r), GoTo(t, r)
  PROVE  TInv'
<1>1. th' = [th EXCEPT ![t] = r] /\ th \in [Threads -> ThreadType]
      /\ \A u \in Threads : Local(u, th[u])
  BY DEF GoTo, TInv, ThreadsOK
<1>2. th' \in [Threads -> ThreadType]
  BY <1>1
<1>3. ASSUME NEW u \in Threads PROVE Local(u, th'[u])
  BY <1>1
<1>4. ThreadsOK'
  BY <1>2, <1>3 DEF ThreadsOK
<1> QED BY <1>4 DEF TInv

\* The initial state has the types.
LEMMA TypesInit == Init => TInv
<1> SUFFICES ASSUME Init PROVE TInv
  OBVIOUS
<1>1. BlockCount % CountMod \in 0 .. CountMod - 1
  BY Bounds
<1>2. /\ head \in [Pools -> Pointers] /\ count \in [Pools -> 0 .. CountMod - 1]
  BY <1>1, Bounds DEF Init
<1>3. next \in [Blocks -> Pointers]
  BY Bounds DEF Init, Blocks, Pointers, NoBlock
<1>4. SharedOK
  BY <1>2, <1>3, Bounds DEF Init, SharedOK, Idle, NoFlags
<1>5. ThreadsOK
  BY RestingLocals DEF Init, ThreadsOK
<1> QED BY <1>4, <1>5 DEF TInv

\* Only its locals change in a step of a thread that reads.
LEMMA ReadStep ==
  ASSUME TInv, UNCHANGED <<head, next, count, memory>>,
         NEW t \in Threads, NEW r \in ThreadType, Local(t, r), GoTo(t, r)
  PROVE  TInv'
<1>1. SharedOK'
  BY DEF TInv, SharedOK, memory
<1> QED BY <1>1, SetThread

\* A thread that starts a call has the locals of that call.
LEMMA StartTypes ==
  ASSUME TInv, NEW t \in Threads,
         StartSanitize(t) \/ \E a \in Arenas, tier \in Tiers : OpenArena(t, a, tier)
  PROVE  TInv'
<1>1. generation \in 0 .. MaxGen
  BY Bounds DEF TInv, SharedOK
<1>2. CASE StartSanitize(t)
  <2> DEFINE r == [Resting EXCEPT !.pc = "safe head", !.pool = "quarantine", !.gen = generation]
  <2>1. r \in ThreadType /\ Local(t, r)
    BY <1>1, Bounds, PoolsAssumption
       DEF Resting, ThreadType, Local, Steps, PopSteps, SafeSteps, PushSteps, Pools
  <2>2. GoTo(t, r) /\ UNCHANGED <<head, next, count, memory>>
    BY <1>2 DEF StartSanitize
  <2> HIDE DEF r
  <2> QED BY <2>1, <2>2, ReadStep
<1>3. ASSUME NEW a \in Arenas, NEW tier \in Tiers, OpenArena(t, a, tier) PROVE TInv'
  <2> DEFINE r == [Resting EXCEPT !.pc    = "pop head",
                                  !.pool  = IF tier = "trusted" THEN "common" ELSE "l2",
                                  !.gen   = generation,
                                  !.arena = a,
                                  !.tier  = tier]
  <2>1. t \in Openers /\ GoTo(t, r) /\ UNCHANGED <<head, next, count, memory>>
    BY <1>3 DEF OpenArena
  <2>2. r \in ThreadType /\ Local(t, r)
    BY <1>1, <2>1, Bounds
       DEF Resting, ThreadType, Local, Steps, PopSteps, SafeSteps, PushSteps, Pools, Tiers
  <2> HIDE DEF r
  <2> QED BY <2>1, <2>2, ReadStep
<1> QED BY <1>2, <1>3

\* A thread that loads a head or a follower has a pointer, and a block where
\* it follows it.
LEMMA LoadTypes ==
  ASSUME TInv, NEW t \in Threads,
         \/ PopHead(t) \/ PopNext(t) \/ SafeHead(t) \/ SafeCheck(t) \/ SafeNext(t) \/ PushHead(t)
  PROVE  TInv'
<1>1. PICK r \in ThreadType : r = th[t]
  BY DEF TInv, ThreadsOK
<1>2. /\ Local(t, r) /\ UNCHANGED <<head, next, count, memory>>
      /\ r.h \in Blocks => next[r.h] \in Pointers
      /\ \A p \in Pools : head[p] \in Pointers /\ (head[p] # NoBlock => head[p] \in Blocks)
  BY <1>1 DEF TInv, ThreadsOK, SharedOK, Pointers, PopHead, PopNext, SafeHead, SafeCheck, SafeNext,
     PushHead
<1>3. ASSUME NEW new, new \in ThreadType, Local(t, new), GoTo(t, new) PROVE TInv'
  BY <1>2, <1>3, ReadStep
<1>4. GoTo(t, Resting) => TInv'
  BY <1>3, RestingLocals
<1>5. CASE PopHead(t)
  <2>1. r.pc = "pop head" /\ r.pool \in Pools
    BY <1>1, <1>5 DEF PopHead, At, ThreadType
  <2>2. PICK h \in Pointers : h = head[r.pool]
    BY <1>2, <2>1
  <2>3. CASE h # NoBlock /\ GoTo(t, [[r EXCEPT !.pc = "pop next"] EXCEPT !.h = h])
    <3> DEFINE new == [[r EXCEPT !.pc = "pop next"] EXCEPT !.h = h]
    <3>1. h \in Blocks
      BY <2>3 DEF Pointers
    <3>2. new \in ThreadType /\ Local(t, new)
      BY <1>2, <2>1, <3>1, Bounds DEF ThreadType, Local, Steps, PopSteps, SafeSteps, PushSteps
    <3> HIDE DEF new
    <3> QED BY <1>3, <2>3, <3>2 DEF new
  <2>4. CASE r.tier = "untrusted" /\ r.pool = "l2" /\ GoTo(t, [r EXCEPT !.pool = "common"])
    <3> DEFINE new == [r EXCEPT !.pool = "common"]
    <3>1. new \in ThreadType /\ Local(t, new)
      BY <1>2, <2>1, <2>4 DEF ThreadType, Local, Steps, PopSteps, SafeSteps, PushSteps, Pools
    <3> HIDE DEF new
    <3> QED BY <1>3, <2>4, <3>1 DEF new
  <2>5. CASE /\ r.tier = "untrusted"
             /\ GoTo(t, [[r EXCEPT !.pc = "safe head"] EXCEPT !.pool = "quarantine"])
    <3> DEFINE new == [[r EXCEPT !.pc = "safe head"] EXCEPT !.pool = "quarantine"]
    <3>1. new \in ThreadType /\ Local(t, new)
      BY <1>2, <2>1, <2>5 DEF ThreadType, Local, Steps, PopSteps, SafeSteps, PushSteps, Pools
    <3> HIDE DEF new
    <3> QED BY <1>3, <2>5, <3>1 DEF new
  <2> QED BY <1>1, <1>4, <1>5, <2>2, <2>3, <2>4, <2>5 DEF PopHead, Locals
<1>6. CASE PopNext(t) \/ SafeNext(t)
  <2>1. PICK x \in {"pop swap", "safe store"} :
          /\ r.pc = IF x = "pop swap" THEN "pop next" ELSE "safe next"
          /\ GoTo(t, [[r EXCEPT !.pc = x] EXCEPT !.n = next[r.h]])
    BY <1>1, <1>6 DEF PopNext, SafeNext, At, Locals
  <2>2. r.h \in Blocks
    BY <1>2, <2>1 DEF Local
  <2>3. PICK n \in Pointers : n = next[r.h]
    BY <1>2, <2>2
  <2> DEFINE new == [[r EXCEPT !.pc = x] EXCEPT !.n = n]
  <2>4. new \in ThreadType /\ Local(t, new)
    BY <1>2, <2>1, <2>2 DEF ThreadType, Local, Steps, PopSteps, SafeSteps, PushSteps
  <2>5. GoTo(t, new)
    BY <2>1, <2>3
  <2> HIDE DEF new
  <2> QED BY <1>3, <2>4, <2>5
<1>7. CASE SafeHead(t)
  <2>1. PICK h \in Pointers : h = head["quarantine"]
    BY <1>2 DEF Pools
  <2>2. r.pc = "safe head"
    BY <1>1, <1>7 DEF SafeHead, At
  <2> DEFINE new == [[r EXCEPT !.pc = "safe check"] EXCEPT !.h = h]
  <2>3. CASE h # NoBlock
    <3>1. h \in Blocks
      BY <2>3 DEF Pointers
    <3>2. new \in ThreadType /\ Local(t, new)
      BY <1>2, <2>2, <3>1 DEF ThreadType, Local, Steps, PopSteps, SafeSteps, PushSteps
    <3>3. GoTo(t, new)
      BY <1>1, <1>7, <2>1, <2>3 DEF SafeHead, Locals
    <3> HIDE DEF new
    <3> QED BY <1>3, <3>2, <3>3
  <2>4. CASE h = NoBlock
    BY <1>4, <1>7, <2>1, <2>4 DEF SafeHead
  <2> QED BY <2>3, <2>4
<1>8. CASE SafeCheck(t)
  <2>1. r.pc = "safe check"
    BY <1>1, <1>8 DEF SafeCheck, At
  <2> DEFINE new == [r EXCEPT !.pc = "safe next"]
  <2>2. new \in ThreadType /\ Local(t, new)
    BY <1>2, <2>1 DEF ThreadType, Local, Steps, PopSteps, SafeSteps, PushSteps
  <2>3. GoTo(t, Resting) \/ GoTo(t, new)
    BY <1>1, <1>8 DEF SafeCheck, Locals
  <2> HIDE DEF new
  <2> QED BY <1>3, <1>4, <2>2, <2>3
<1>9. CASE PushHead(t)
  <2>1. r.pc = "push head" /\ r.pool \in Pools
    BY <1>1, <1>9 DEF PushHead, At, ThreadType
  <2>2. PICK h \in Pointers : h = head[r.pool]
    BY <1>2, <2>1
  <2> DEFINE new == [[r EXCEPT !.pc = "push link"] EXCEPT !.h = h]
  <2>3. new \in ThreadType /\ Local(t, new)
    BY <1>2, <2>1 DEF ThreadType, Local, Steps, PopSteps, SafeSteps, PushSteps
  <2>4. GoTo(t, new)
    BY <1>1, <1>9, <2>2 DEF PushHead, Locals
  <2> HIDE DEF new
  <2> QED BY <1>3, <2>3, <2>4
<1> QED BY <1>5, <1>6, <1>7, <1>8, <1>9

\* The arena that a thread fills gets a block, and the block its flags.
LEMMA FillTypes ==
  ASSUME TInv, NEW t \in Threads, th[t].h \in Blocks, th[t].arena \in Arenas,
         th[t].tier \in Tiers, FillArena(t)
  PROVE  /\ arena' \in [Arenas -> {Idle} \cup [tier : Tiers, block : Blocks]]
         /\ flags' \in [Blocks -> [dirty : BOOLEAN, zeroed : BOOLEAN, quarantined : BOOLEAN]]
<1>1. Held(th[t].tier, th[t].h) \in [tier : Tiers, block : Blocks]
  BY DEF Held
<1>2. FlagsFrom(th[t].pool, th[t].tier) \in [dirty : BOOLEAN, zeroed : BOOLEAN, quarantined : BOOLEAN]
  BY DEF FlagsFrom, NoFlags, DirtyFlags, ZeroedFlags
<1> QED BY <1>1, <1>2 DEF TInv, SharedOK, FillArena

\* The swaps that take a block or give it back.
LEMMA SwapTypes ==
  ASSUME TInv, NEW t \in Threads, PopSwap(t) \/ SafeStore(t) \/ PushSwap(t)
  PROVE  TInv'
<1>1. PICK r \in ThreadType : r = th[t]
  BY DEF TInv, ThreadsOK
<1>2. Local(t, r) /\ SharedOK
  BY <1>1 DEF TInv, ThreadsOK
<1>3. ASSUME NEW new, new \in ThreadType, Local(t, new), GoTo(t, new), SharedOK'
      PROVE  TInv'
  BY <1>3, SetThread
<1>4. ASSUME NEW pc \in {"count down", "pop head", "count up", "push head"}
      PROVE  Forget([r EXCEPT !.pc = pc]) \in ThreadType
  BY Bounds DEF Forget, ThreadType, Steps, PopSteps, SafeSteps, PushSteps
<1>5. CASE PopSwap(t)
  <2>1. /\ r.pc = "pop swap" /\ r.pool \in Pools /\ r.n \in Pointers /\ r.blk = NoBlock
        /\ r.h \in Blocks /\ r.arena \in Arenas /\ r.arena # NoArena /\ r.tier \in Tiers
    BY <1>1, <1>2, <1>5, PoolsAssumption DEF PopSwap, At, Local, PopSteps, ThreadType, Tiers
  <2>2. CASE /\ head' = [head EXCEPT ![r.pool] = r.n] /\ FillArena(t)
             /\ GoTo(t, Forget([r EXCEPT !.pc = "count down"]))
    <3>1. SharedOK'
      BY <1>1, <1>2, <1>5, <2>1, <2>2, FillTypes DEF SharedOK, PopSwap
    <3>2. Local(t, Forget([r EXCEPT !.pc = "count down"]))
      BY <1>2, <2>1 DEF Forget, Local, PopSteps, SafeSteps, PushSteps, ThreadType
    <3> QED BY <1>3, <1>4, <2>2, <3>1, <3>2
  <2>3. CASE /\ UNCHANGED <<head, arena, flags>>
             /\ GoTo(t, Forget([r EXCEPT !.pc = "pop head"]))
    <3>1. SharedOK'
      BY <1>2, <1>5, <2>3 DEF SharedOK, PopSwap
    <3>2. Local(t, Forget([r EXCEPT !.pc = "pop head"]))
      BY <1>2, <2>1 DEF Forget, Local, PopSteps, SafeSteps, PushSteps, ThreadType
    <3> QED BY <1>3, <1>4, <2>3, <3>1, <3>2
  <2> QED BY <1>1, <1>5, <2>2, <2>3 DEF PopSwap, Locals
<1>6. CASE SafeStore(t)
  <2>1. /\ r.pc = "safe store" /\ r.pool = "quarantine" /\ r.n \in Pointers /\ r.blk = NoBlock
        /\ r.h \in Blocks /\ r.arena \in Arenas \cup {NoArena}
        /\ r.arena \in Arenas => r.tier = "untrusted"
    BY <1>1, <1>2, <1>6 DEF SafeStore, At, Local, SafeSteps, ThreadType
  <2>2. head' \in [Pools -> Pointers]
    BY <1>1, <1>2, <1>6, <2>1 DEF SharedOK, SafeStore
  <2>3. CASE /\ r.arena # NoArena /\ FillArena(t)
             /\ GoTo(t, Forget([r EXCEPT !.pc = "count down"]))
    <3>1. r.arena \in Arenas /\ r.tier \in Tiers
      BY <2>1, <2>3 DEF Tiers
    <3>2. SharedOK'
      BY <1>1, <1>2, <1>6, <2>1, <2>2, <2>3, <3>1, FillTypes DEF SharedOK, SafeStore
    <3>3. Local(t, Forget([r EXCEPT !.pc = "count down"]))
      BY <1>2, <2>1, <2>3 DEF Forget, Local, PopSteps, SafeSteps, PushSteps, ThreadType
    <3> QED BY <1>3, <1>4, <2>3, <3>2, <3>3
  <2>4. CASE /\ r.arena = NoArena /\ UNCHANGED <<arena, flags>>
             /\ GoTo(t, Forget([[r EXCEPT !.pc = "count down"] EXCEPT !.blk = r.h]))
    <3>1. SharedOK'
      BY <1>2, <1>6, <2>2, <2>4 DEF SharedOK, SafeStore
    <3> DEFINE new == Forget([[r EXCEPT !.pc = "count down"] EXCEPT !.blk = r.h])
    <3>2. new \in ThreadType /\ Local(t, new)
      BY <1>2, <2>1, <2>4, Bounds DEF Forget, Local, Steps, PopSteps, SafeSteps, PushSteps, ThreadType
    <3>3. GoTo(t, new)
      BY <2>4
    <3> HIDE DEF new
    <3> QED BY <1>3, <3>1, <3>2, <3>3
  <2> QED BY <1>1, <1>6, <2>3, <2>4 DEF SafeStore, Locals
<1>7. CASE PushSwap(t)
  <2>1. r.pc = "push swap" /\ r.pool \in Pools /\ r.blk \in Blocks
    BY <1>1, <1>2, <1>7 DEF PushSwap, At, Local, PushSteps, ThreadType
  <2>2. SharedOK'
    BY <1>1, <1>2, <1>7, <2>1, Bounds DEF SharedOK, PushSwap, memory
  <2>3. \A pc \in {"count up", "push head"} : Local(t, Forget([r EXCEPT !.pc = pc]))
    BY <1>2, <2>1 DEF Forget, Local, PopSteps, SafeSteps, PushSteps, ThreadType
  <2>4. \E pc \in {"count up", "push head"} : GoTo(t, Forget([r EXCEPT !.pc = pc]))
    BY <1>1, <1>7 DEF PushSwap, Locals
  <2> QED BY <1>3, <1>4, <2>2, <2>3, <2>4
<1> QED BY <1>5, <1>6, <1>7

\* The counters, the washing and the link of a push.
LEMMA OwnerTypes ==
  ASSUME TInv, NEW t \in Threads, CountDown(t) \/ CountUp(t) \/ Wash(t) \/ PushLink(t)
  PROVE  TInv'
<1>1. PICK r \in ThreadType : r = th[t]
  BY DEF TInv, ThreadsOK
<1>2. Local(t, r) /\ SharedOK /\ r.pool \in Pools /\ r.gen \in 0 .. MaxGen /\ r.h \in Pointers
  BY <1>1 DEF TInv, ThreadsOK, ThreadType
<1>3. ASSUME NEW new, new \in ThreadType, Local(t, new), GoTo(t, new), SharedOK'
      PROVE  TInv'
  BY <1>3, SetThread
<1>4. GoTo(t, Resting) /\ SharedOK' => TInv'
  BY <1>3, RestingLocals
<1>5. \A n \in Nat : n % CountMod \in 0 .. CountMod - 1
  BY Bounds
<1>6. ASSUME NEW n \in Nat, count' = [count EXCEPT ![r.pool] = (@ + n) % CountMod],
             UNCHANGED <<head, next, memory>>
      PROVE  SharedOK'
  <2>1. count[r.pool] + n \in Nat
    BY <1>2, Bounds DEF SharedOK
  <2>2. count' \in [Pools -> 0 .. CountMod - 1]
    BY <1>2, <1>5, <1>6, <2>1 DEF SharedOK
  <2> QED BY <1>2, <1>6, <2>2 DEF SharedOK, memory
<1>7. CASE CountDown(t)
  <2>1. r.pc = "count down"
    BY <1>1, <1>7 DEF CountDown, At
  <2>2. SharedOK'
    <3>1. CountMod - 1 \in Nat /\ \A k \in 0 .. CountMod - 1 : k + CountMod - 1 = k + (CountMod - 1)
      BY Bounds
    <3>2. count[r.pool] \in 0 .. CountMod - 1
      BY <1>2 DEF SharedOK
    <3>3. count' = [count EXCEPT ![r.pool] = (@ + (CountMod - 1)) % CountMod]
      BY <1>1, <1>7, <3>1, <3>2 DEF CountDown
    <3> QED BY <1>6, <1>7, <3>1, <3>3 DEF CountDown
  <2> DEFINE new == [r EXCEPT !.pc = "wash"]
  <2>3. r.arena = NoArena => new \in ThreadType /\ Local(t, new)
    BY <1>2, <2>1 DEF ThreadType, Local, Steps, PopSteps, SafeSteps, PushSteps
  <2>4. GoTo(t, Resting) \/ (r.arena = NoArena /\ GoTo(t, new))
    BY <1>1, <1>7 DEF CountDown, Locals
  <2> HIDE DEF new
  <2> QED BY <1>3, <1>4, <2>2, <2>3, <2>4
<1>8. CASE CountUp(t)
  <2>1. SharedOK'
    BY <1>1, <1>6, <1>8 DEF CountUp
  <2> DEFINE new == [Resting EXCEPT !.pc = "safe head", !.pool = "quarantine", !.gen = r.gen]
  <2>2. new \in ThreadType /\ Local(t, new)
    BY <1>2, Bounds, PoolsAssumption
       DEF Resting, ThreadType, Local, Steps, PopSteps, SafeSteps, PushSteps, Pools
  <2>3. GoTo(t, Resting) \/ GoTo(t, new)
    BY <1>1, <1>8 DEF CountUp
  <2> HIDE DEF new
  <2> QED BY <1>3, <1>4, <2>1, <2>2, <2>3
<1>9. CASE Wash(t)
  <2>1. r.pc = "wash" /\ r.blk \in Blocks
    BY <1>1, <1>2, <1>9 DEF Wash, At, Local
  <2>2. SharedOK'
    <3>1. ZeroedFlags \in [dirty : BOOLEAN, zeroed : BOOLEAN, quarantined : BOOLEAN]
      BY DEF ZeroedFlags, NoFlags
    <3> QED BY <1>1, <1>2, <1>9, <2>1, <3>1 DEF SharedOK, Wash
  <2> DEFINE new == [[r EXCEPT !.pc = "push head"] EXCEPT !.pool = "l2"]
  <2>3. new \in ThreadType /\ Local(t, new)
    BY <1>2, <2>1 DEF ThreadType, Local, Steps, PopSteps, SafeSteps, PushSteps, Pools
  <2>4. GoTo(t, new)
    BY <1>1, <1>9 DEF Wash, Locals
  <2> HIDE DEF new
  <2> QED BY <1>3, <2>2, <2>3, <2>4
<1>10. CASE PushLink(t)
  <2>1. r.pc = "push link" /\ r.blk \in Blocks
    BY <1>1, <1>2, <1>10 DEF PushLink, At, Local, PushSteps
  <2>2. SharedOK'
    BY <1>1, <1>2, <1>10, <2>1 DEF SharedOK, PushLink, memory
  <2> DEFINE new == [r EXCEPT !.pc = "push swap"]
  <2>3. new \in ThreadType /\ Local(t, new)
    BY <1>2, <2>1 DEF ThreadType, Local, Steps, PopSteps, SafeSteps, PushSteps
  <2>4. GoTo(t, new)
    BY <1>1, <1>10 DEF PushLink, Locals
  <2> HIDE DEF new
  <2> QED BY <1>3, <2>2, <2>3, <2>4
<1> QED BY <1>7, <1>8, <1>9, <1>10

\* deinit and deinitAndZero up to the push that they call.
LEMMA CloseTypes ==
  ASSUME TInv, NEW t \in Threads, NEW a \in Arenas,
         CloseTrusted(t, a) \/ CloseUntrusted(t, a) \/ CloseAndZeroUntrusted(t, a)
  PROVE  TInv'
<1>1. arena[a] \in {Idle} \cup [tier : Tiers, block : Blocks] /\ SharedOK
  BY DEF TInv, SharedOK
<1>2. arena[a].tier \in {"trusted", "untrusted"}
  BY DEF CloseTrusted, CloseUntrusted, CloseAndZeroUntrusted
<1>3. PICK b \in Blocks : b = arena[a].block
  BY <1>1, <1>2 DEF Idle
<1>4. PICK p \in Pools : StartPush(t, a, p)
  BY DEF CloseTrusted, CloseUntrusted, CloseAndZeroUntrusted, Pools
<1> DEFINE r == [Resting EXCEPT !.pc = "push head", !.pool = p, !.blk = b]
<1>5. r \in ThreadType /\ Local(t, r)
  BY Bounds DEF Resting, ThreadType, Local, Steps, PopSteps, SafeSteps, PushSteps
<1>6. GoTo(t, r) /\ UNCHANGED <<head, next, count, generation>> /\ arena' = [arena EXCEPT ![a] = Idle]
  BY <1>3, <1>4 DEF StartPush
<1> HIDE DEF r
<1>7. flags' \in [Blocks -> [dirty : BOOLEAN, zeroed : BOOLEAN, quarantined : BOOLEAN]]
  <2>1. CASE CloseTrusted(t, a)
    BY <1>1, <2>1 DEF CloseTrusted, SharedOK
  <2>2. CASE CloseUntrusted(t, a)
    <3>1. flags' = [flags EXCEPT ![b].quarantined = TRUE]
      BY <1>3, <2>2 DEF CloseUntrusted
    <3>2. flags \in [Blocks -> [dirty : BOOLEAN, zeroed : BOOLEAN, quarantined : BOOLEAN]]
      BY <1>1 DEF SharedOK
    <3> QED BY <3>1, <3>2
  <2>3. CASE CloseAndZeroUntrusted(t, a)
    <3>1. ZeroedFlags \in [dirty : BOOLEAN, zeroed : BOOLEAN, quarantined : BOOLEAN]
      BY DEF ZeroedFlags, NoFlags
    <3> QED BY <1>1, <1>3, <2>3, <3>1 DEF CloseAndZeroUntrusted, SharedOK
  <2> QED BY <2>1, <2>2, <2>3
<1>8. retired_gen' \in [Blocks -> 0 .. MaxGen]
  <2>1. generation \in 0 .. MaxGen
    BY <1>1, Bounds DEF SharedOK
  <2> QED BY <1>1, <1>3, <2>1 DEF CloseTrusted, CloseUntrusted, CloseAndZeroUntrusted, SharedOK
<1>9. residue' \in [Blocks -> SUBSET Tiers]
  BY <1>1, <1>3 DEF CloseTrusted, CloseUntrusted, CloseAndZeroUntrusted, SharedOK
<1>10. SharedOK'
  BY <1>1, <1>6, <1>7, <1>8, <1>9 DEF SharedOK
<1> QED BY <1>5, <1>6, <1>10, SetThread

\* The users of the arenas and the generation counter touch no thread.
LEMMA MemoryTypes ==
  ASSUME TInv, (\E a \in Arenas : Alloc(a)) \/ IncrementGeneration
  PROVE  TInv'
<1>1. SharedOK
  BY DEF TInv
<1>2. CASE IncrementGeneration
  <2>1. generation' \in 1 .. MaxGen
    BY <1>1, <1>2, Bounds DEF SharedOK, IncrementGeneration
  <2> QED BY <1>2, <2>1 DEF TInv, SharedOK, ThreadsOK, IncrementGeneration
<1>3. ASSUME NEW a \in Arenas, Alloc(a) PROVE TInv'
  <2>1. PICK b \in Blocks : b = arena[a].block
    BY <1>1, <1>3 DEF Alloc, SharedOK
  <2>2. arena[a].tier \in Tiers
    BY <1>1, <1>3 DEF Alloc, SharedOK
  <2>3. residue' \in [Blocks -> SUBSET Tiers]
    BY <1>1, <1>3, <2>1, <2>2 DEF Alloc, SharedOK
  <2>4. flags' \in [Blocks -> [dirty : BOOLEAN, zeroed : BOOLEAN, quarantined : BOOLEAN]]
    <3>1. flags' = flags \/ flags' = [flags EXCEPT ![b].dirty = TRUE]
      BY <1>3, <2>1 DEF Alloc
    <3>2. flags \in [Blocks -> [dirty : BOOLEAN, zeroed : BOOLEAN, quarantined : BOOLEAN]]
      BY <1>1 DEF SharedOK
    <3> QED BY <3>1, <3>2
  <2> QED BY <1>3, <2>3, <2>4 DEF TInv, SharedOK, ThreadsOK, Alloc
<1> QED BY <1>2, <1>3

\* Every step keeps the types.
LEMMA TypesStep == TInv /\ [Next]_vars => TInv'
<1> SUFFICES ASSUME TInv, [Next]_vars PROVE TInv'
  OBVIOUS
<1>1. CASE UNCHANGED vars
  BY <1>1 DEF TInv, SharedOK, ThreadsOK, vars, memory
<1>2. ASSUME NEW t \in Threads, Work(t) PROVE TInv'
  BY <1>2, LoadTypes, SwapTypes, OwnerTypes DEF Work
<1>3. ASSUME NEW t \in Threads, StartSanitize(t) PROVE TInv'
  BY <1>3, StartTypes
<1>4. ASSUME NEW t \in Threads, NEW a \in Arenas, NEW tier \in Tiers, OpenArena(t, a, tier)
      PROVE  TInv'
  BY <1>4, StartTypes
<1>5. ASSUME NEW t \in Threads, NEW a \in Arenas,
             CloseTrusted(t, a) \/ CloseUntrusted(t, a) \/ CloseAndZeroUntrusted(t, a)
      PROVE  TInv'
  BY <1>5, CloseTypes
<1>6. CASE (\E a \in Arenas : Alloc(a)) \/ IncrementGeneration
  BY <1>6, MemoryTypes
<1> QED BY <1>1, <1>2, <1>3, <1>4, <1>5, <1>6 DEF Next

\* The variables of the pools keep their types, whatever the threads do.  It
\* rests on the locals of each thread (Local): init, deinit, popSafe and the
\* sanitizer come to a load through pool_next, a swap or a wash with a block in
\* their hands and never with a null pointer.
THEOREM TypesHold == Spec => []TypeOK
BY TypesInit, TypesStep, TypesAreOK, PTL DEF Spec

-----------------------------------------------------------------------------
(* The life cycle that the pointers spell                                  *)

\* The uses of the pools for which the pointer operations are right: at most
\* one thread takes blocks, and the generation does not advance far enough for
\* a block to leave the quarantine (bench_gqap.zig advances it once, the daemon
\* never); or a single thread does everything.
SafeUse ==
  \/ MaxGen <= 2 /\ \A t, u \in Openers : t = u
  \/ \A t, u \in Threads : t = u

Life == INSTANCE GqapLifecycle_proofs WITH
  pool    <- [p \in Pools |-> Stack(p)],
  transit <- [p \in Pools |-> Pushing(p)],
  washing <- Washing

Listed(s, b) == \E i \in DOMAIN s : s[i] = b

\* The life cycle has the assumptions and the names of the pools.
LEMMA SameNames ==
  /\ Life!LifecycleAssumption
  /\ Life!Pools = Pools /\ Life!Blocks = Blocks /\ Life!Tiers = Tiers /\ Life!Idle = Idle
  /\ Life!NoBlock = NoBlock
  /\ Life!NoFlags = NoFlags /\ Life!DirtyFlags = DirtyFlags /\ Life!ZeroedFlags = ZeroedFlags
  /\ \A t, b : Life!Held(t, b) = Held(t, b)
  /\ \A s, b : Life!Lists(s, b) <=> Listed(s, b)
BY PoolsAssumption
   DEF Life!LifecycleAssumption, Life!Pools, Pools, Life!Blocks, Blocks, Life!Tiers, Tiers,
       Life!Idle, Idle, Life!NoBlock, NoBlock, Life!NoFlags, NoFlags, Life!DirtyFlags, DirtyFlags,
       Life!ZeroedFlags, ZeroedFlags, Life!Held, Held, Life!Lists, Listed

\* What a list with another block in front lists.
LEMMA ListedOver ==
  ASSUME NEW s \in Seq(Blocks), NEW x \in Blocks, NEW b
  PROVE  Listed(<<x>> \o s, b) <=> b = x \/ Listed(s, b)
<1> DEFINE c == <<x>> \o s
<1>1. /\ DOMAIN c = 1 .. Len(s) + 1 /\ DOMAIN s = 1 .. Len(s) /\ Len(s) \in Nat
      /\ c[1] = x /\ \A i \in 1 .. Len(s) : c[i + 1] = s[i]
  OBVIOUS
<1> HIDE DEF c
<1>2. ASSUME NEW i \in DOMAIN c, c[i] = b PROVE b = x \/ Listed(s, b)
  <2>1. i # 1 => i - 1 \in DOMAIN s /\ c[i] = s[i - 1]
    BY <1>1
  <2> QED BY <1>1, <1>2, <2>1 DEF Listed
<1>3. ASSUME NEW i \in DOMAIN s, s[i] = b PROVE Listed(c, b)
  <2>1. i + 1 \in DOMAIN c /\ c[i + 1] = b
    BY <1>1, <1>3
  <2> QED BY <2>1 DEF Listed
<1>4. 1 \in DOMAIN c
  BY <1>1
<1>5. Listed(c, b) <=> b = x \/ Listed(s, b)
  BY <1>1, <1>2, <1>3, <1>4 DEF Listed
<1> QED BY <1>5 DEF c

\* The rest of a list lists nothing else.
LEMMA ListedTail ==
  ASSUME NEW s \in Seq(Blocks), s # << >>, NEW b, Listed(Tail(s), b) PROVE Listed(s, b)
<1>1. /\ DOMAIN s = 1 .. Len(s) /\ Len(s) \in Nat /\ DOMAIN Tail(s) = 1 .. Len(s) - 1
      /\ \A i \in 1 .. Len(s) - 1 : Tail(s)[i] = s[i + 1]
  OBVIOUS
<1>2. PICK i \in DOMAIN Tail(s) : Tail(s)[i] = b
  BY DEF Listed
<1>3. i + 1 \in DOMAIN s /\ s[i + 1] = b
  BY <1>1, <1>2
<1> QED BY <1>3 DEF Listed

\* A list of blocks without repetitions is not longer than there are blocks.
LEMMA NoLonger ==
  ASSUME NEW s \in Seq(Blocks), \A i, j \in DOMAIN s : s[i] = s[j] => i = j
  PROVE  Len(s) <= BlockCount
<1>1. DOMAIN s = 1 .. Len(s) /\ Len(s) \in Nat /\ s \in [1 .. Len(s) -> Blocks]
  OBVIOUS
<1>2. s \in Injection(1 .. Len(s), Blocks)
  BY <1>1 DEF Injection, IsInjective
<1>3. IsFiniteSet(Blocks) /\ Cardinality(Blocks) = BlockCount
  BY FS_Interval, Bounds DEF Blocks
<1>4. Cardinality(1 .. Len(s)) <= Cardinality(Blocks)
  BY <1>2, <1>3, FS_Injection
<1>5. Cardinality(1 .. Len(s)) = Len(s)
  BY <1>1, FS_Interval
<1> QED BY <1>3, <1>4, <1>5

\* A stack lists blocks, none of them twice, and so is as long as Chain looks.
LEMMA StackFacts ==
  ASSUME Life!IInv, NEW p \in Pools
  PROVE  /\ Stack(p) \in Seq(Blocks) /\ Len(Stack(p)) <= BlockCount
         /\ \A i, j \in DOMAIN Stack(p) : Stack(p)[i] = Stack(p)[j] => i = j
<1>1. Stack(p) \in Seq(Blocks)
  <2>1. [q \in Pools |-> Stack(q)] \in [Pools -> Seq(Blocks)]
    BY SameNames DEF Life!IInv, Life!TypeOK
  <2> QED BY <2>1
<1>2. \A i, j \in DOMAIN Stack(p) : Stack(p)[i] = Stack(p)[j] => i = j
  BY SameNames DEF Life!IInv, Life!BlockConservation, Life!NoRepeat
<1> QED BY <1>1, <1>2, NoLonger

\* A block on a stack is on no other, with no push, arena or sanitizer.
LEMMA OnStackOnly ==
  ASSUME Life!IInv, NEW p \in Pools, NEW b \in Blocks, Listed(Stack(p), b)
  PROVE  /\ \A q \in Pools : Listed(Stack(q), b) => q = p
         /\ \A q \in Pools : b \notin Pushing(q)
         /\ \A a \in Arenas : arena[a].block # b
         /\ b \notin Washing
BY SameNames, Life!OnlyFree DEF Life!IInv

\* A block in a push is on no stack, in no other pool's push, with no arena or
\* sanitizer.
LEMMA InPushOnly ==
  ASSUME Life!IInv, NEW p \in Pools, NEW b \in Blocks, b \in Pushing(p)
  PROVE  /\ \A q \in Pools : ~ Listed(Stack(q), b)
         /\ \A q \in Pools : b \in Pushing(q) => q = p
         /\ \A a \in Arenas : arena[a].block # b
         /\ b \notin Washing
BY SameNames, Life!OnlyTransit DEF Life!IInv

\* A block of an arena is on no stack, in no push and with no sanitizer.
LEMMA InArenaOnly ==
  ASSUME Life!IInv, NEW a \in Arenas, NEW b \in Blocks, arena[a].block = b
  PROVE  /\ \A q \in Pools : ~ Listed(Stack(q), b) /\ b \notin Pushing(q)
         /\ b \notin Washing
BY SameNames, Life!OnlyArena DEF Life!IInv

\* A block that is washed is on no stack and in no push.
LEMMA InWashOnly ==
  ASSUME Life!IInv, NEW b \in Blocks, b \in Washing
  PROVE  \A q \in Pools : ~ Listed(Stack(q), b) /\ b \notin Pushing(q)
BY SameNames, Life!OnlyWashing DEF Life!IInv

\* The invariant of the life cycle, step by step.
LEMMA LifeGoesOn ==
  /\ Life!Init => Life!IInv
  /\ Life!IInv /\ (Life!Next \/ UNCHANGED Life!vars) => Life!IInv'
<1>1. Life!Init => Life!IInv
  BY SameNames, Life!TypeInit, Life!ConservationInit, Life!TieringInit DEF Life!IInv
<1>2. Life!IInv /\ (Life!Next \/ UNCHANGED Life!vars) => Life!IInv'
  BY SameNames, Life!TypeStep, Life!ConservationStep, Life!TieringStep DEF Life!IInv
<1> QED BY <1>1, <1>2

-----------------------------------------------------------------------------
(* What the pointers and the locals have to do with each other             *)

Alone == \A t, u \in Threads : t = u

\* The pointers spell the stacks.
Spelled == \A p \in Pools : Spells(next, Stack(p), head[p])

\* What a thread has loaded is still worth something when it uses it.
Fresh(r) ==
  /\ r.pc \in {"pop next", "pop swap"} => Listed(Stack(r.pool), r.h)
  /\ r.pc \in {"pop swap", "safe store"} => r.n = next[r.h]
  /\ r.pc = "push swap" => next[r.blk] = r.h
  /\ r.pc \in {"safe check", "safe next", "safe store"} =>
       retired_gen[r.h] >= 1 /\ (Alone => head["quarantine"] = r.h)
  /\ r.pc \in {"safe next", "safe store"} => Alone /\ retired_gen[r.h] + 1 < r.gen
  /\ r.pc \in PopSteps \cup SafeSteps /\ r.arena \in Arenas => arena[r.arena] = Idle
  /\ r.gen <= generation

\* The block that a thread owns alone.
Carried(r) == IF r.pc \in PushSteps \cup {"wash", "count down"} THEN r.blk ELSE NoBlock

\* No two threads own a block or fill an arena together.
Apart ==
  \A t, u \in Threads : t # u =>
    /\ Carried(th[t]) # NoBlock => Carried(th[u]) # Carried(th[t])
    /\ th[t].arena # NoArena => th[u].arena # th[t].arena

\* A block that was given to the quarantine is stamped.
Stamped ==
  \A b \in Blocks :
    Listed(Stack("quarantine"), b) \/ b \in Pushing("quarantine") => retired_gen[b] >= 1

Neat == Spelled /\ (\A t \in Threads : Fresh(th[t])) /\ Apart /\ Stamped

CInv == TInv /\ Life!IInv /\ Neat

PushOf(r, p, x) == r.pc \in PushSteps /\ r.pool = p /\ r.blk = x
WashOf(r, x)    == r.pc \in {"count down", "wash"} /\ r.blk # NoBlock /\ r.blk = x

\* Who pushes and who washes a block, before and after a step.
LEMMA Holders ==
  /\ \A p, x : x \in Pushing(p) <=> \E t \in Threads : PushOf(th[t], p, x)
  /\ \A p, x : x \in Pushing(p)' <=> \E t \in Threads : PushOf(th'[t], p, x)
  /\ \A x : x \in Washing <=> \E t \in Threads : WashOf(th[t], x)
  /\ \A x : x \in Washing' <=> \E t \in Threads : WashOf(th'[t], x)
BY DEF Pushing, Washing, PushOf, WashOf

\* A step of thread t changes what t holds.
LEMMA HoldersNext ==
  ASSUME TInv, NEW t \in Threads, NEW r, GoTo(t, r)
  PROVE  /\ th'[t] = r /\ \A u \in Threads : u # t => th'[u] = th[u]
         /\ \A p, x : x \in Pushing(p)' <=>
              PushOf(r, p, x) \/ \E u \in Threads \ {t} : PushOf(th[u], p, x)
         /\ \A x : x \in Washing' <=>
              WashOf(r, x) \/ \E u \in Threads \ {t} : WashOf(th[u], x)
<1>1. th'[t] = r /\ \A u \in Threads : u # t => th'[u] = th[u]
  BY DEF GoTo, TInv, ThreadsOK
<1>2. \A p, x : (\E u \in Threads : PushOf(th'[u], p, x)) <=>
        PushOf(r, p, x) \/ \E u \in Threads \ {t} : PushOf(th[u], p, x)
  BY <1>1
<1>3. \A x : (\E u \in Threads : WashOf(th'[u], x)) <=>
        WashOf(r, x) \/ \E u \in Threads \ {t} : WashOf(th[u], x)
  BY <1>1
<1> QED BY <1>1, <1>2, <1>3, Holders

\* A thread that holds what it held changes nobody's blocks.
LEMMA SameHolders ==
  ASSUME TInv, NEW t \in Threads, NEW r, GoTo(t, r),
         \A p, x : PushOf(r, p, x) <=> PushOf(th[t], p, x),
         \A x : WashOf(r, x) <=> WashOf(th[t], x)
  PROVE  (\A p : Pushing(p)' = Pushing(p)) /\ Washing' = Washing
<1>1. \A p, x : x \in Pushing(p)' <=> x \in Pushing(p)
  BY HoldersNext, Holders
<1>2. \A x : x \in Washing' <=> x \in Washing
  BY HoldersNext, Holders
<1> QED BY <1>1, <1>2

\* What a thread carries is in a push or is washed.
LEMMA CarriedIsHeld ==
  ASSUME TInv, NEW t \in Threads, Carried(th[t]) # NoBlock
  PROVE  /\ Carried(th[t]) \in Blocks /\ th[t].pool \in Pools
         /\ Carried(th[t]) \in Pushing(th[t].pool) \/ Carried(th[t]) \in Washing
<1>1. th[t] \in ThreadType /\ Local(t, th[t])
  BY DEF TInv, ThreadsOK
<1>2. Carried(th[t]) = th[t].blk /\ th[t].blk \in Blocks /\ th[t].pool \in Pools
  BY <1>1 DEF Carried, ThreadType, Pointers
<1>3. PushOf(th[t], th[t].pool, th[t].blk) \/ WashOf(th[t], th[t].blk)
  BY <1>2 DEF PushOf, WashOf, Carried
<1> QED BY <1>2, <1>3, Holders

\* The generation that a thread loaded does not become newer than the current one.
LEMMA NotNewer ==
  ASSUME CInv, NEW u \in Threads, generation' \in {generation, generation + 1}
  PROVE  th[u].pool \in Pools /\ th[u].gen <= generation'
<1>1. generation \in 1 .. MaxGen
  BY DEF CInv, TInv, SharedOK
<1>2. th[u].gen \in 0 .. MaxGen /\ th[u].pool \in Pools /\ th[u].gen <= generation
  BY DEF CInv, Neat, TInv, ThreadsOK, ThreadType, Fresh
<1> QED BY <1>1, <1>2, Bounds

\* The other threads' locals are as fresh after a step of t as before, when t
\* moves only what it holds or fills.
LEMMA OthersFresh ==
  ASSUME CInv, NEW t \in Threads, NEW u \in Threads, u # t, th'[u] = th[u],
         \A p \in Pools : p = th[u].pool /\ th[u].pc \in {"pop next", "pop swap"} =>
           Listed(Stack(p)', th[u].h),
         \A b \in Blocks : next'[b] = next[b] \/ (b = Carried(th[t]) /\ b \in Pushing(th[t].pool)),
         \A b \in Blocks : retired_gen[b] >= 1 => retired_gen'[b] >= 1,
         \A a \in Arenas : arena[a] = Idle => arena'[a] = Idle \/ a = th[t].arena,
         generation' \in {generation, generation + 1}
  PROVE  Fresh(th[u])'
<1>1. PICK r \in ThreadType : r = th[u]
  BY DEF CInv, TInv, ThreadsOK
<1>2. /\ r \in ThreadType /\ Local(u, r) /\ Fresh(r) /\ th[t] \in ThreadType
      /\ \A p \in Pools : p = th[t].pool => p \in Pools
      /\ ~ Alone
  BY <1>1 DEF CInv, Neat, TInv, ThreadsOK, Alone
<1>3. /\ Carried(th[t]) # NoBlock => Carried(r) # Carried(th[t])
      /\ r.arena # NoArena => r.arena # th[t].arena
  BY <1>1 DEF CInv, Neat, Apart
<1>4. r.pool \in Pools /\ th[t].pool \in Pools /\ r.gen <= generation'
  BY <1>1, NotNewer
<1>5. r.pc \in {"pop swap", "safe store"} => r.n = next'[r.h]
  <2>1. r.pc # "safe store"
    BY <1>2 DEF Fresh
  <2>2. CASE r.pc = "pop swap"
    <3>1. r.h \in Blocks /\ Listed(Stack(r.pool), r.h) /\ r.n = next[r.h]
      BY <1>2, <2>2 DEF Fresh, Local
    <3>2. r.h \notin Pushing(th[t].pool)
      BY <1>4, <3>1, OnStackOnly DEF CInv
    <3> QED BY <3>1, <3>2
  <2> QED BY <2>1, <2>2
<1>6. r.pc = "push swap" => next'[r.blk] = r.h
  <2> SUFFICES ASSUME r.pc = "push swap" PROVE next'[r.blk] = r.h
    OBVIOUS
  <2>1. r.blk \in Blocks /\ next[r.blk] = r.h /\ Carried(r) = r.blk
    BY <1>2 DEF Fresh, Local, Carried, PushSteps
  <2>2. r.blk # NoBlock
    BY <2>1, Bounds
  <2> QED BY <1>3, <2>1, <2>2
<1>7. r.pc \in {"safe check", "safe next", "safe store"} =>
        retired_gen'[r.h] >= 1 /\ (Alone => head'["quarantine"] = r.h)
  BY <1>2 DEF Fresh, Local
<1>8. r.pc \in PopSteps \cup SafeSteps /\ r.arena \in Arenas => arena'[r.arena] = Idle
  BY <1>2, <1>3, PoolsAssumption DEF Fresh
<1>9. r.pc \notin {"safe next", "safe store"}
  BY <1>2 DEF Fresh
<1>10. th'[u] = r /\ (r.pc \in {"pop next", "pop swap"} => Listed(Stack(r.pool)', r.h))
  BY <1>1, <1>4
<1>11. Fresh(r)'
  BY <1>4, <1>5, <1>6, <1>7, <1>8, <1>9, <1>10 DEF Fresh
<1> QED BY <1>10, <1>11

\* No two threads own a block or fill an arena after a step that gives none
\* away that another thread has.
LEMMA StillApart ==
  ASSUME CInv, NEW t \in Threads, NEW r, GoTo(t, r),
         \A u \in Threads : u # t =>
           /\ Carried(r) # NoBlock => Carried(th[u]) # Carried(r)
           /\ r.arena # NoArena => th[u].arena # r.arena
  PROVE  Apart'
<1>1. th'[t] = r /\ \A u \in Threads : u # t => th'[u] = th[u]
  BY HoldersNext DEF CInv
<1>2. ASSUME NEW u \in Threads, NEW v \in Threads, u # v
      PROVE  /\ Carried(th'[u]) # NoBlock => Carried(th'[v]) # Carried(th'[u])
             /\ th'[u].arena # NoArena => th'[v].arena # th'[u].arena
  <2>1. CASE u # t /\ v # t
    BY <1>1, <1>2, <2>1 DEF CInv, Neat, Apart
  <2>2. CASE u = t \/ v = t
    BY <1>1, <1>2, <2>2
  <2> QED BY <2>1, <2>2
<1> QED BY <1>2 DEF Apart, Carried

\* The top of a stack is where its head points.
LEMMA Top ==
  ASSUME CInv, NEW p \in Pools, head[p] # NoBlock
  PROVE  /\ head[p] \in Blocks /\ Stack(p) # << >> /\ head[p] = Head(Stack(p))
         /\ Listed(Stack(p), head[p])
         /\ Tail(Stack(p)) \in Seq(Blocks) /\ Len(Tail(Stack(p))) <= BlockCount
         /\ Spells(next, Tail(Stack(p)), next[head[p]])
<1>1. Spells(next, Stack(p), head[p]) /\ Stack(p) \in Seq(Blocks) /\ Len(Stack(p)) <= BlockCount
  BY StackFacts DEF CInv, Neat, Spelled
<1>2. Stack(p) # << >>
  BY <1>1 DEF Spells
<1>3. /\ head[p] = Head(Stack(p)) /\ head[p] \in Blocks
      /\ Tail(Stack(p)) \in Seq(Blocks) /\ Len(Tail(Stack(p))) = Len(Stack(p)) - 1
      /\ Spells(next, Tail(Stack(p)), next[head[p]])
  BY <1>1, <1>2, SpellsTail
<1>4. 1 \in DOMAIN Stack(p) /\ Stack(p)[1] = Head(Stack(p)) /\ Len(Stack(p)) \in Nat
  BY <1>1, <1>2
<1>5. Len(Stack(p)) - 1 <= BlockCount
  BY <1>1, <1>4, Bounds
<1> QED BY <1>2, <1>3, <1>4, <1>5 DEF Listed

\* A step that leaves the pointers alone leaves the stacks alone.
LEMMA SameStacks ==
  ASSUME UNCHANGED <<head, next>> PROVE \A p : Stack(p)' = Stack(p)
BY DEF Stack

\* What a step does when the life cycle does not see it.
LEMMA Unseen ==
  ASSUME \A p \in Pools : Stack(p)' = Stack(p) /\ Pushing(p)' = Pushing(p),
         Washing' = Washing, UNCHANGED memory
  PROVE  UNCHANGED Life!vars
<1>1. [p \in Pools |-> Stack(p)]' = [p \in Pools |-> Stack(p)]
  OBVIOUS
<1>2. [p \in Pools |-> Pushing(p)]' = [p \in Pools |-> Pushing(p)]
  OBVIOUS
<1> QED BY <1>1, <1>2 DEF Life!vars, memory

-----------------------------------------------------------------------------
(* The accesses that the life cycle does not see                           *)

\* A thread changes its locals to others that hold the same and are fresh.
LEMMA Quiet ==
  ASSUME CInv, UNCHANGED <<head, next, memory>>,
         NEW t \in Threads, NEW r \in ThreadType, GoTo(t, r), Fresh(r),
         \A p, x : PushOf(r, p, x) <=> PushOf(th[t], p, x),
         \A x : WashOf(r, x) <=> WashOf(th[t], x),
         \A u \in Threads : u # t /\ r.arena # NoArena => th[u].arena # r.arena
  PROVE  UNCHANGED Life!vars /\ Neat'
<1>1. /\ \A p : Stack(p)' = Stack(p)
      /\ (\A p : Pushing(p)' = Pushing(p)) /\ Washing' = Washing
      /\ UNCHANGED memory
  BY SameStacks, SameHolders DEF CInv
<1>2. UNCHANGED Life!vars
  BY <1>1, Unseen
<1>3. th'[t] = r /\ \A u \in Threads : u # t => th'[u] = th[u]
  BY HoldersNext DEF CInv
<1>4. Spelled'
  BY <1>1 DEF CInv, Neat, Spelled
<1>5. Stamped'
  BY <1>1 DEF CInv, Neat, Stamped, memory
<1>6. ASSUME NEW u \in Threads PROVE Fresh(th[u])'
  <2>1. PICK q \in ThreadType : q = th'[u] /\ Fresh(q)
    BY <1>3 DEF CInv, Neat, TInv, ThreadsOK
  <2>2. Fresh(q)'
    BY <1>1, <2>1 DEF Fresh, memory
  <2> QED BY <2>1, <2>2
<1>7. Apart'
  <2>1. Carried(r) = Carried(th[t]) \/ Carried(r) = NoBlock
    BY DEF Carried, PushOf, WashOf
  <2>2. \A u \in Threads : u # t /\ Carried(r) # NoBlock => Carried(th[u]) # Carried(r)
    BY <2>1 DEF CInv, Neat, Apart
  <2> QED BY <2>2, StillApart
<1> QED BY <1>2, <1>4, <1>5, <1>6, <1>7 DEF Neat

\* A thread at rest needs nothing.
LEMMA FreshResting ==
  ASSUME TInv
  PROVE  Fresh(Resting) /\ Carried(Resting) = NoBlock /\ Resting.arena = NoArena
         /\ (\A p, x : ~ PushOf(Resting, p, x)) /\ \A x : ~ WashOf(Resting, x)
<1>1. 0 <= generation
  BY Bounds DEF TInv, SharedOK
<1> QED BY <1>1 DEF Resting, Fresh, Carried, PopSteps, SafeSteps, PushSteps, PushOf, WashOf

\* What the locals of a thread satisfy.
LEMMA Locally ==
  ASSUME CInv, NEW t \in Threads
  PROVE  th[t] \in ThreadType /\ Local(t, th[t]) /\ Fresh(th[t])
BY DEF CInv, Neat, TInv, ThreadsOK

\* A thread that holds no block changes its locals: it goes on with the arena
\* it is filling, or gives up.
LEMMA QuietPop ==
  ASSUME CInv, UNCHANGED <<head, next, memory>>,
         NEW t \in Threads, th[t].pc \in PopSteps \cup SafeSteps,
         NEW r \in ThreadType, GoTo(t, r), Fresh(r),
         r.pc \in PopSteps \cup SafeSteps, r.arena = th[t].arena
  PROVE  UNCHANGED Life!vars /\ Neat'
<1>1. /\ \A p, x : ~ PushOf(r, p, x) /\ ~ PushOf(th[t], p, x)
      /\ \A x : ~ WashOf(r, x) /\ ~ WashOf(th[t], x)
  BY DEF PopSteps, SafeSteps, PushSteps, PushOf, WashOf
<1>2. \A u \in Threads : u # t /\ r.arena # NoArena => th[u].arena # r.arena
  BY DEF CInv, Neat, Apart
<1> QED BY <1>1, <1>2, Quiet

\* A call that fails leaves nothing behind.
LEMMA QuietEnd ==
  ASSUME CInv, UNCHANGED <<head, next, memory>>, NEW t \in Threads, GoTo(t, Resting),
         \A p, x : ~ PushOf(th[t], p, x), \A x : ~ WashOf(th[t], x)
  PROVE  UNCHANGED Life!vars /\ Neat'
<1>1. TInv
  BY DEF CInv
<1> QED BY <1>1, FreshResting, RestingLocals, Quiet

\* The locals that a thread goes on with are well-typed.
LEMMA NextLocals ==
  ASSUME TInv, TInv', NEW t \in Threads, NEW r, GoTo(t, r)
  PROVE  r \in ThreadType /\ Local(t, r)
<1>1. th'[t] = r
  BY HoldersNext
<1> QED BY <1>1 DEF TInv, ThreadsOK

\* The loads of a pop, and a swap that lost the race.
LEMMA PopReads ==
  ASSUME CInv, TInv', NEW t \in Threads,
         PopHead(t) \/ PopNext(t) \/ (PopSwap(t) /\ head[th[t].pool] # th[t].h)
  PROVE  UNCHANGED Life!vars /\ Neat'
<1>1. PICK q \in ThreadType : q = th[t]
  BY Locally
<1>2. /\ Local(t, q) /\ Fresh(q) /\ q.pool \in Pools
      /\ q.pc \in PopSteps /\ UNCHANGED <<head, next, memory>>
  BY <1>1, Locally
     DEF PopHead, PopNext, PopSwap, At, PopSteps, ThreadType, memory
<1>3. ASSUME NEW r, GoTo(t, r), Fresh(r), r.pc \in PopSteps \cup SafeSteps, r.arena = q.arena
      PROVE  UNCHANGED Life!vars /\ Neat'
  <2>1. r \in ThreadType
    BY <1>3, NextLocals DEF CInv
  <2> QED BY <1>1, <1>2, <1>3, <2>1, QuietPop
<1>4. CASE PopHead(t)
  <2>1. CASE head[q.pool] # NoBlock
    <3> DEFINE r == [[q EXCEPT !.pc = "pop next"] EXCEPT !.h = head[q.pool]]
    <3>1. Listed(Stack(q.pool), head[q.pool])
      BY <1>2, <2>1, Top
    <3>2. Fresh(r) /\ r.pc \in PopSteps \cup SafeSteps /\ r.arena = q.arena
      BY <1>2, <3>1 DEF Fresh, PopSteps, SafeSteps, ThreadType
    <3>3. GoTo(t, r)
      BY <1>1, <1>4, <2>1 DEF PopHead, Locals
    <3> HIDE DEF r
    <3> QED BY <1>3, <3>2, <3>3
  <2>2. CASE GoTo(t, Resting)
    <3>1. (\A p, x : ~ PushOf(th[t], p, x)) /\ \A x : ~ WashOf(th[t], x)
      BY <1>1, <1>2 DEF PushOf, WashOf, PushSteps, PopSteps
    <3> QED BY <1>2, <2>2, <3>1, QuietEnd
  <2>3. CASE GoTo(t, [q EXCEPT !.pool = "common"]) /\ q.pc = "pop head"
    <3> DEFINE r == [q EXCEPT !.pool = "common"]
    <3>1. Fresh(r) /\ r.pc \in PopSteps \cup SafeSteps /\ r.arena = q.arena
      BY <1>2, <2>3 DEF Fresh, PopSteps, SafeSteps, ThreadType
    <3> HIDE DEF r
    <3> QED BY <1>3, <2>3, <3>1 DEF r
  <2>4. CASE GoTo(t, [[q EXCEPT !.pc = "safe head"] EXCEPT !.pool = "quarantine"])
    <3> DEFINE r == [[q EXCEPT !.pc = "safe head"] EXCEPT !.pool = "quarantine"]
    <3>1. Fresh(r) /\ r.pc \in PopSteps \cup SafeSteps /\ r.arena = q.arena
      BY <1>2 DEF Fresh, PopSteps, SafeSteps, ThreadType
    <3> HIDE DEF r
    <3> QED BY <1>3, <2>4, <3>1 DEF r
  <2> QED BY <1>1, <1>4, <2>1, <2>2, <2>3, <2>4 DEF PopHead, At, Locals
<1>5. CASE PopNext(t)
  <2> DEFINE r == [[q EXCEPT !.pc = "pop swap"] EXCEPT !.n = next[q.h]]
  <2>1. q.pc = "pop next" /\ GoTo(t, r)
    BY <1>1, <1>5 DEF PopNext, At, Locals
  <2>2. Fresh(r) /\ r.pc \in PopSteps \cup SafeSteps /\ r.arena = q.arena
    BY <1>2, <2>1 DEF Fresh, PopSteps, SafeSteps, ThreadType
  <2> HIDE DEF r
  <2> QED BY <1>3, <2>1, <2>2
<1>6. CASE PopSwap(t) /\ head[th[t].pool] # th[t].h
  <2> DEFINE r == Forget([q EXCEPT !.pc = "pop head"])
  <2>1. GoTo(t, r)
    BY <1>1, <1>6 DEF PopSwap, At, Locals
  <2>2. Fresh(r) /\ r.pc \in PopSteps \cup SafeSteps /\ r.arena = q.arena
    BY <1>2 DEF Fresh, PopSteps, SafeSteps, ThreadType, Forget
  <2> HIDE DEF r
  <2> QED BY <1>3, <2>1, <2>2
<1> QED BY <1>4, <1>5, <1>6

\* The loads of popSafe.  In the uses that are safe, a thread gets past the
\* check only when it is alone.
LEMMA SafeReads ==
  ASSUME SafeUse, CInv, TInv', NEW t \in Threads, SafeHead(t) \/ SafeCheck(t) \/ SafeNext(t)
  PROVE  UNCHANGED Life!vars /\ Neat'
<1>1. PICK q \in ThreadType : q = th[t]
  BY Locally
<1>2. /\ Local(t, q) /\ Fresh(q) /\ q.pool = "quarantine"
      /\ q.pc \in SafeSteps /\ UNCHANGED <<head, next, memory>>
  BY <1>1, Locally DEF SafeHead, SafeCheck, SafeNext, At, SafeSteps, Local, memory
<1>3. ASSUME NEW r, GoTo(t, r), Fresh(r), r.pc \in SafeSteps, r.arena = q.arena
      PROVE  UNCHANGED Life!vars /\ Neat'
  <2>1. r \in ThreadType
    BY <1>3, NextLocals DEF CInv
  <2> QED BY <1>1, <1>2, <1>3, <2>1, QuietPop
<1>4. GoTo(t, Resting) => UNCHANGED Life!vars /\ Neat'
  <2>1. (\A p, x : ~ PushOf(th[t], p, x)) /\ \A x : ~ WashOf(th[t], x)
    BY <1>1, <1>2 DEF PushOf, WashOf, PushSteps, SafeSteps
  <2> QED BY <1>2, <2>1, QuietEnd
<1>5. CASE SafeHead(t)
  <2> DEFINE h == head["quarantine"]
             r == [[q EXCEPT !.pc = "safe check"] EXCEPT !.h = h]
  <2>1. CASE h # NoBlock
    <3>1. h \in Blocks /\ Listed(Stack("quarantine"), h)
      BY <2>1, Top DEF Pools
    <3>2. retired_gen[h] >= 1
      BY <3>1 DEF CInv, Neat, Stamped
    <3>3. Fresh(r) /\ r.pc \in SafeSteps /\ r.arena = q.arena
      BY <1>2, <3>2 DEF Fresh, PopSteps, SafeSteps, ThreadType
    <3>4. GoTo(t, r)
      BY <1>1, <1>5, <2>1 DEF SafeHead, Locals
    <3> HIDE DEF r
    <3> QED BY <1>3, <3>3, <3>4
  <2>2. CASE h = NoBlock
    BY <1>4, <1>5, <2>2 DEF SafeHead
  <2> QED BY <2>1, <2>2
<1>6. CASE SafeCheck(t)
  <2> DEFINE r == [q EXCEPT !.pc = "safe next"]
  <2>1. CASE GoTo(t, r) /\ ~ (retired_gen[q.h] + 1 >= q.gen)
    <3>1. q.pc = "safe check" /\ q.h \in Blocks /\ retired_gen[q.h] >= 1 /\ q.gen <= generation
      BY <1>1, <1>2, <1>6 DEF SafeCheck, At, Fresh, Local
    <3>2. retired_gen[q.h] \in 0 .. MaxGen /\ generation \in 1 .. MaxGen /\ q.gen \in 0 .. MaxGen
      BY <3>1 DEF CInv, TInv, SharedOK, ThreadType
    <3>3. retired_gen[q.h] + 1 < q.gen /\ ~ (MaxGen <= 2)
      <4>1. \A x, g, now \in 0 .. MaxGen :
              x >= 1 /\ g <= now /\ ~ (x + 1 >= g) => x + 1 < g /\ ~ (MaxGen <= 2)
        BY Bounds
      <4>2. generation \in 0 .. MaxGen
        BY <3>2, Bounds
      <4> HIDE DEF r
      <4> QED BY <2>1, <3>1, <3>2, <4>1, <4>2
    <3>4. Alone
      BY <3>3 DEF SafeUse, Alone
    <3>5. Fresh(r) /\ r.pc \in SafeSteps /\ r.arena = q.arena
      BY <1>2, <3>1, <3>3, <3>4 DEF Fresh, PopSteps, SafeSteps, ThreadType
    <3> HIDE DEF r
    <3> QED BY <1>3, <2>1, <3>5
  <2> QED BY <1>1, <1>4, <1>6, <2>1 DEF SafeCheck, Locals
<1>7. CASE SafeNext(t)
  <2> DEFINE r == [[q EXCEPT !.pc = "safe store"] EXCEPT !.n = next[q.h]]
  <2>1. q.pc = "safe next" /\ GoTo(t, r)
    BY <1>1, <1>7 DEF SafeNext, At, Locals
  <2>2. Fresh(r) /\ r.pc \in SafeSteps /\ r.arena = q.arena
    BY <1>2, <2>1 DEF Fresh, PopSteps, SafeSteps, ThreadType
  <2> HIDE DEF r
  <2> QED BY <1>3, <2>1, <2>2
<1> QED BY <1>5, <1>6, <1>7

\* A call that begins, for an arena that nobody else is filling.
LEMMA Begins ==
  ASSUME CInv, TInv', NEW t \in Threads,
         StartSanitize(t) \/ \E a \in Arenas, tier \in Tiers : OpenArena(t, a, tier)
  PROVE  UNCHANGED Life!vars /\ Neat'
<1>1. (\A p, x : ~ PushOf(th[t], p, x)) /\ \A x : ~ WashOf(th[t], x)
  BY DEF StartSanitize, OpenArena, At, PushOf, WashOf, PushSteps
<1>2. UNCHANGED <<head, next, memory>> /\ 0 <= generation /\ generation <= generation
  <2>1. generation \in 1 .. MaxGen
    BY DEF CInv, TInv, SharedOK
  <2>2. UNCHANGED <<head, next, memory>>
    BY DEF StartSanitize, OpenArena
  <2>3. 0 <= generation /\ generation <= generation
    BY <2>1, Bounds
  <2> QED BY <2>2, <2>3
<1>3. ASSUME NEW r, GoTo(t, r), Fresh(r), r.pc \in {"safe head", "pop head"},
             \A u \in Threads : u # t /\ r.arena # NoArena => th[u].arena # r.arena
      PROVE  UNCHANGED Life!vars /\ Neat'
  <2>1. r \in ThreadType
    BY <1>3, NextLocals DEF CInv
  <2>2. (\A p, x : ~ PushOf(r, p, x)) /\ \A x : ~ WashOf(r, x)
    BY <1>3 DEF PushOf, WashOf, PushSteps
  <2> QED BY <1>1, <1>2, <1>3, <2>1, <2>2, Quiet
<1>4. CASE StartSanitize(t)
  <2> DEFINE r == [Resting EXCEPT !.pc = "safe head", !.pool = "quarantine", !.gen = generation]
  <2>1. r.pc = "safe head" /\ r.arena = NoArena /\ Fresh(r) /\ GoTo(t, r)
    BY <1>2, <1>4, PoolsAssumption DEF StartSanitize, Resting, Fresh, PopSteps, SafeSteps
  <2> HIDE DEF r
  <2> QED BY <1>3, <2>1
<1>5. ASSUME NEW a \in Arenas, NEW tier \in Tiers, OpenArena(t, a, tier)
      PROVE  UNCHANGED Life!vars /\ Neat'
  <2> DEFINE r == [Resting EXCEPT !.pc    = "pop head",
                                  !.pool  = IF tier = "trusted" THEN "common" ELSE "l2",
                                  !.gen   = generation,
                                  !.arena = a,
                                  !.tier  = tier]
  <2>1. /\ arena[a] = Idle /\ (\A u \in Threads : th[u].arena # a) /\ GoTo(t, r)
    BY <1>5 DEF OpenArena
  <2>2. r.pc = "pop head" /\ r.arena = a /\ Fresh(r)
    BY <1>2, <2>1 DEF Resting, Fresh, PopSteps, SafeSteps
  <2> HIDE DEF r
  <2> QED BY <1>3, <2>1, <2>2
<1> QED BY <1>4, <1>5

\* The counters, the load of a push and a push that lost the race.
LEMMA PushReads ==
  ASSUME CInv, TInv', NEW t \in Threads,
         \/ CountDown(t) \/ CountUp(t) \/ PushHead(t)
         \/ PushSwap(t) /\ head[th[t].pool] # th[t].h
  PROVE  UNCHANGED Life!vars /\ Neat'
<1>1. PICK q \in ThreadType : q = th[t]
  BY Locally
<1>2. Local(t, q) /\ Fresh(q) /\ UNCHANGED <<head, next, memory>>
  BY <1>1, Locally DEF CountDown, CountUp, PushHead, PushSwap, memory
<1>3. ASSUME NEW r, GoTo(t, r), Fresh(r), r.arena = NoArena,
             \A p, x : PushOf(r, p, x) <=> PushOf(q, p, x),
             \A x : WashOf(r, x) <=> WashOf(q, x)
      PROVE  UNCHANGED Life!vars /\ Neat'
  <2>1. r \in ThreadType
    BY <1>3, NextLocals DEF CInv
  <2> QED BY <1>1, <1>2, <1>3, <2>1, Quiet
<1>4. ASSUME GoTo(t, Resting), \A p, x : ~ PushOf(q, p, x), \A x : ~ WashOf(q, x)
      PROVE  UNCHANGED Life!vars /\ Neat'
  BY <1>1, <1>2, <1>4, QuietEnd
<1>5. CASE CountDown(t)
  <2>1. q.pc = "count down"
    BY <1>1, <1>5 DEF CountDown, At
  <2>2. CASE q.arena = NoArena
    <3> DEFINE r == [q EXCEPT !.pc = "wash"]
    <3>1. GoTo(t, r)
      BY <1>1, <1>5, <2>2 DEF CountDown, Locals
    <3>2. Fresh(r) /\ r.arena = NoArena
      BY <1>2, <2>1, <2>2 DEF Fresh, PopSteps, SafeSteps, ThreadType
    <3>3. (\A p, x : PushOf(r, p, x) <=> PushOf(q, p, x)) /\ \A x : WashOf(r, x) <=> WashOf(q, x)
      BY <2>1 DEF PushOf, WashOf, PushSteps, ThreadType
    <3> HIDE DEF r
    <3> QED BY <1>3, <3>1, <3>2, <3>3
  <2>3. CASE q.arena # NoArena
    <3>1. q.blk = NoBlock
      BY <1>2, <2>1, <2>3 DEF Local
    <3>2. (\A p, x : ~ PushOf(q, p, x)) /\ \A x : ~ WashOf(q, x)
      BY <2>1, <3>1 DEF PushOf, WashOf, PushSteps
    <3>3. GoTo(t, Resting)
      BY <1>1, <1>5, <2>3 DEF CountDown
    <3> QED BY <1>4, <3>2, <3>3
  <2> QED BY <2>2, <2>3
<1>6. CASE CountUp(t)
  <2>1. q.pc = "count up"
    BY <1>1, <1>6 DEF CountUp, At
  <2>2. (\A p, x : ~ PushOf(q, p, x)) /\ \A x : ~ WashOf(q, x)
    BY <2>1 DEF PushOf, WashOf, PushSteps
  <2> DEFINE r == [Resting EXCEPT !.pc = "safe head", !.pool = "quarantine", !.gen = q.gen]
  <2>3. Fresh(r) /\ r.arena = NoArena
    BY <1>2, PoolsAssumption DEF Fresh, Resting, PopSteps, SafeSteps
  <2>4. (\A p, x : ~ PushOf(r, p, x)) /\ \A x : ~ WashOf(r, x)
    BY DEF PushOf, WashOf, PushSteps, Resting
  <2>5. GoTo(t, Resting) \/ GoTo(t, r)
    BY <1>1, <1>6 DEF CountUp
  <2> HIDE DEF r
  <2> QED BY <1>3, <1>4, <2>2, <2>3, <2>4, <2>5
<1>7. CASE PushHead(t) \/ (PushSwap(t) /\ head[th[t].pool] # th[t].h)
  <2>1. q.pc \in {"push head", "push swap"} /\ q.arena = NoArena
    BY <1>1, <1>2, <1>7 DEF PushHead, PushSwap, At, Local, PushSteps
  <2>2. PICK r : /\ GoTo(t, r)
                 /\ \/ r = [[q EXCEPT !.pc = "push link"] EXCEPT !.h = head[q.pool]]
                    \/ r = Forget([q EXCEPT !.pc = "push head"])
    BY <1>1, <1>7 DEF PushHead, PushSwap, Locals
  <2>3. Fresh(r) /\ r.arena = NoArena
    BY <1>2, <2>1, <2>2 DEF Fresh, PopSteps, SafeSteps, ThreadType, Forget
  <2>4. (\A p, x : PushOf(r, p, x) <=> PushOf(q, p, x)) /\ \A x : WashOf(r, x) <=> WashOf(q, x)
    BY <2>1, <2>2 DEF PushOf, WashOf, PushSteps, ThreadType, Forget
  <2> QED BY <1>3, <2>2, <2>3, <2>4
<1> QED BY <1>5, <1>6, <1>7

-----------------------------------------------------------------------------
(* The stacks after a store                                                *)

\* What the new pointers spell is the new stack.
LEMMA NewStack ==
  ASSUME TInv', NEW p \in Pools, NEW s \in Seq(Blocks), Len(s) <= BlockCount,
         Spells(next', s, head'[p])
  PROVE  Stack(p)' = s /\ Spells(next', Stack(p)', head'[p])
<1>1. next' \in [Blocks -> Pointers] /\ head'[p] \in Pointers
  BY DEF TInv, SharedOK
<1>2. Chain(next')[BlockCount][head'[p]] = s
  BY <1>1, ChainSpells
<1> QED BY <1>2 DEF Stack

\* A stack whose head and pointers stay is the same stack.
LEMMA OtherStack ==
  ASSUME CInv, TInv', NEW p \in Pools, next' = next, head'[p] = head[p]
  PROVE  Stack(p)' = Stack(p) /\ Spells(next', Stack(p)', head'[p])
<1>1. Spells(next, Stack(p), head[p]) /\ Stack(p) \in Seq(Blocks) /\ Len(Stack(p)) <= BlockCount
  BY StackFacts DEF CInv, Neat, Spelled
<1> QED BY <1>1, NewStack

\* The store of a follower into a block on no stack.
LEMMA LinkStacks ==
  ASSUME CInv, TInv', NEW x \in Blocks, NEW y, next' = [next EXCEPT ![x] = y], head' = head,
         \A p \in Pools : ~ Listed(Stack(p), x)
  PROVE  Spelled' /\ \A p \in Pools : Stack(p)' = Stack(p)
<1> SUFFICES ASSUME NEW p \in Pools
             PROVE  Stack(p)' = Stack(p) /\ Spells(next', Stack(p)', head'[p])
  BY DEF Spelled
<1>1. Spells(next, Stack(p), head[p]) /\ Stack(p) \in Seq(Blocks) /\ Len(Stack(p)) <= BlockCount
  BY StackFacts DEF CInv, Neat, Spelled
<1>2. \A i \in 1 .. Len(Stack(p)) : Stack(p)[i] # x
  BY <1>1 DEF Listed
<1>3. next \in [Blocks -> Pointers]
  BY DEF CInv, TInv, SharedOK
<1>4. Spells([next EXCEPT ![x] = y], Stack(p), head[p])
  BY <1>1, <1>2, <1>3, SpellsOther
<1> QED BY <1>1, <1>4, NewStack

\* The swap that takes the top of a stack.
LEMMA PopStacks ==
  ASSUME CInv, TInv', NEW p \in Pools, head[p] # NoBlock,
         head' = [head EXCEPT ![p] = next[head[p]]], next' = next
  PROVE  /\ Spelled' /\ Stack(p)' = Tail(Stack(p))
         /\ \A o \in Pools : o # p => Stack(o)' = Stack(o)
<1>1. head'[p] = next[head[p]] /\ \A o \in Pools : o # p => head'[o] = head[o]
  BY DEF CInv, TInv, SharedOK
<1>2. Stack(p)' = Tail(Stack(p)) /\ Spells(next', Stack(p)', head'[p])
  BY <1>1, Top, NewStack
<1> QED BY <1>1, <1>2, OtherStack DEF Spelled

\* The swap that puts a block on top of a stack.
LEMMA PushStacks ==
  ASSUME CInv, TInv', NEW p \in Pools, NEW x \in Blocks, next[x] = head[p],
         head' = [head EXCEPT ![p] = x], next' = next, ~ Listed(Stack(p), x)
  PROVE  /\ Spelled' /\ Stack(p)' = <<x>> \o Stack(p)
         /\ \A o \in Pools : o # p => Stack(o)' = Stack(o)
<1>1. head'[p] = x /\ \A o \in Pools : o # p => head'[o] = head[o]
  BY DEF CInv, TInv, SharedOK
<1>2. PICK s \in Seq(Blocks) : s = Stack(p)
  BY StackFacts DEF CInv
<1>3. /\ Spells(next, s, head[p]) /\ (\A i \in DOMAIN s : s[i] # x)
      /\ \A i, j \in DOMAIN s : s[i] = s[j] => i = j
  BY <1>2, StackFacts DEF CInv, Neat, Spelled, Listed
<1> DEFINE c == <<x>> \o s
<1>4. c \in Seq(Blocks) /\ Spells(next, c, x)
  BY <1>3, SpellsPush
<1>5. Len(c) <= BlockCount
  <2>1. ASSUME NEW i \in DOMAIN c, NEW j \in DOMAIN c, c[i] = c[j] PROVE i = j
    <3>1. /\ i \in 1 .. Len(s) + 1 /\ j \in 1 .. Len(s) + 1
          /\ i # 1 => i - 1 \in DOMAIN s /\ c[i] = s[i - 1]
          /\ j # 1 => j - 1 \in DOMAIN s /\ c[j] = s[j - 1]
          /\ c[1] = x
      OBVIOUS
    <3>2. i = 1 <=> j = 1
      BY <1>3, <2>1, <3>1
    <3>3. i # 1 /\ j # 1 => i - 1 = j - 1
      BY <1>3, <2>1, <3>1
    <3> QED BY <3>1, <3>2, <3>3
  <2> HIDE DEF c
  <2> QED BY <1>4, <2>1, NoLonger
<1>6. Stack(p)' = c /\ Spells(next', Stack(p)', head'[p])
  <2> HIDE DEF c
  <2> QED BY <1>1, <1>4, <1>5, NewStack
<1> QED BY <1>1, <1>2, <1>6, OtherStack DEF Spelled

\* One stack changes in the functions that the life cycle sees.
LEMMA StackMap ==
  ASSUME NEW p \in Pools, NEW s, Stack(p)' = s, \A o \in Pools : o # p => Stack(o)' = Stack(o)
  PROVE  [o \in Pools |-> Stack(o)]' = [[o \in Pools |-> Stack(o)] EXCEPT ![p] = s]
OBVIOUS

\* One push changes in the functions that the life cycle sees.
LEMMA PushMap ==
  ASSUME NEW p \in Pools, NEW s, Pushing(p)' = s,
         \A o \in Pools : o # p => Pushing(o)' = Pushing(o)
  PROVE  [o \in Pools |-> Pushing(o)]' = [[o \in Pools |-> Pushing(o)] EXCEPT ![p] = s]
OBVIOUS

\* A block that a thread found on a stack is on it while that stack is the same.
LEMMA StillListed ==
  ASSUME CInv, NEW u \in Threads, NEW p \in Pools, Stack(p)' = Stack(p),
         p = th[u].pool, th[u].pc \in {"pop next", "pop swap"}
  PROVE  Listed(Stack(p)', th[u].h)
<1>1. Listed(Stack(p), th[u].h)
  BY Locally DEF Fresh
<1> QED BY <1>1

\* The store into the follower of the block that is pushed is not seen.
LEMMA PushLinkQuiet ==
  ASSUME CInv, TInv', NEW t \in Threads, PushLink(t)
  PROVE  UNCHANGED Life!vars /\ Neat'
<1>1. PICK q \in ThreadType : q = th[t]
  BY Locally
<1>2. /\ Local(t, q) /\ Fresh(q) /\ q.pc = "push link"
      /\ next' = [next EXCEPT ![q.blk] = q.h] /\ head' = head /\ UNCHANGED memory
      /\ q.blk \in Blocks /\ q.pool \in Pools /\ q.arena = NoArena
  BY <1>1, Locally DEF PushLink, At, Local, PushSteps, ThreadType
<1> DEFINE r == [q EXCEPT !.pc = "push swap"]
<1>3. GoTo(t, r)
  BY <1>1, <1>2 DEF PushLink, Locals
<1>4. (\A p, x : PushOf(r, p, x) <=> PushOf(q, p, x)) /\ \A x : WashOf(r, x) <=> WashOf(q, x)
  BY <1>2 DEF PushOf, WashOf, PushSteps, ThreadType
<1>5. Carried(r) = Carried(q) /\ Carried(q) = q.blk /\ r.arena = NoArena
  BY <1>2 DEF Carried, PushSteps, ThreadType
<1>6. r.pc = "push swap" /\ r.blk = q.blk /\ r.h = q.h /\ r.gen = q.gen
  BY DEF ThreadType
<1> HIDE DEF r
<1>7. (\A p : Pushing(p)' = Pushing(p)) /\ Washing' = Washing
  BY <1>1, <1>3, <1>4, SameHolders DEF CInv
<1>8. q.blk \in Pushing(q.pool)
  BY <1>1, <1>2, Holders DEF PushOf, PushSteps
<1>9. Spelled' /\ \A p \in Pools : Stack(p)' = Stack(p)
  BY <1>2, <1>8, InPushOnly, LinkStacks DEF CInv
<1>10. UNCHANGED Life!vars
  BY <1>2, <1>7, <1>9, Unseen
<1>11. Stamped'
  BY <1>2, <1>7, <1>9 DEF CInv, Neat, Stamped, memory, Pools
<1>12. Apart'
  <2>1. \A u \in Threads : u # t => Carried(th[u]) # Carried(r)
    BY <1>1, <1>2, <1>5, Bounds DEF CInv, Neat, Apart
  <2> QED BY <1>3, <1>5, <2>1, StillApart
<1>13. ASSUME NEW u \in Threads PROVE Fresh(th[u])'
  <2>1. th'[t] = r /\ (u # t => th'[u] = th[u])
    BY <1>3, HoldersNext DEF CInv
  <2>2. CASE u # t
    <3>1. \A p \in Pools : p = th[u].pool /\ th[u].pc \in {"pop next", "pop swap"} =>
            Listed(Stack(p)', th[u].h)
      BY <1>9, StillListed
    <3>2. \A b \in Blocks : next'[b] = next[b] \/ (b = Carried(th[t]) /\ b \in Pushing(th[t].pool))
      BY <1>1, <1>2, <1>5, <1>8 DEF CInv, TInv, SharedOK
    <3> QED BY <1>2, <2>1, <2>2, <3>1, <3>2, OthersFresh DEF memory
  <2>3. CASE u = t
    <3>1. next'[q.blk] = q.h
      BY <1>2 DEF CInv, TInv, SharedOK
    <3>2. r.gen <= generation'
      BY <1>2, <1>6 DEF Fresh, memory
    <3>3. Fresh(r)'
      BY <1>5, <1>6, <3>1, <3>2, PoolsAssumption DEF Fresh, PopSteps, SafeSteps
    <3> QED BY <2>1, <2>3, <3>3 DEF Fresh
  <2> QED BY <2>2, <2>3
<1> QED BY <1>9, <1>10, <1>11, <1>12, <1>13 DEF Neat

\* Without the swap of t, no other thread's locals change in a way that
\* matters: the part of Neat that is about the others.
LEMMA OthersNeat ==
  ASSUME CInv, NEW t \in Threads, NEW r, GoTo(t, r), Fresh(th[t])',
         \A u \in Threads \ {t} : \A p \in Pools :
           p = th[u].pool /\ th[u].pc \in {"pop next", "pop swap"} => Listed(Stack(p)', th[u].h),
         next' = next, \A b \in Blocks : retired_gen[b] >= 1 => retired_gen'[b] >= 1,
         \A a \in Arenas : arena[a] = Idle => arena'[a] = Idle \/ a = th[t].arena,
         generation' = generation
  PROVE  \A u \in Threads : Fresh(th[u])'
<1> SUFFICES ASSUME NEW u \in Threads, u # t PROVE Fresh(th[u])'
  OBVIOUS
<1>1. th'[u] = th[u]
  BY HoldersNext DEF CInv
<1>2. \A b \in Blocks : next'[b] = next[b] \/ (b = Carried(th[t]) /\ b \in Pushing(th[t].pool))
  OBVIOUS
<1>3. generation' \in {generation, generation + 1}
  OBVIOUS
<1> QED BY <1>1, <1>2, <1>3, OthersFresh

\* The swap that ends a push is Link.
LEMMA PushSwapLinks ==
  ASSUME CInv, TInv', NEW t \in Threads, PushSwap(t), head[th[t].pool] = th[t].h
  PROVE  Life!Next /\ Neat'
<1>1. PICK q \in ThreadType : q = th[t]
  BY Locally
<1>2. PICK p \in Pools : p = q.pool
  BY DEF ThreadType
<1>3. PICK x \in Blocks : x = q.blk
  BY <1>1, Locally DEF PushSwap, At, Local, PushSteps
<1> DEFINE r == Forget([q EXCEPT !.pc = "count up"])
<1>4. /\ Local(t, q) /\ Fresh(q) /\ q.pc = "push swap" /\ q.arena = NoArena
      /\ head[p] = q.h /\ head' = [head EXCEPT ![p] = x] /\ GoTo(t, r)
      /\ next' = next /\ UNCHANGED memory
  BY <1>1, <1>2, <1>3, Locally DEF PushSwap, At, Local, PushSteps, Locals
<1>5. PushOf(q, p, x) /\ x \in Pushing(p) /\ Carried(q) = x /\ x # NoBlock
  BY <1>1, <1>2, <1>3, <1>4, Holders, Bounds DEF PushOf, PushSteps, Carried
<1>6. /\ (\A o, y : ~ PushOf(r, o, y)) /\ (\A y : ~ WashOf(r, y)) /\ \A y : ~ WashOf(q, y)
      /\ Carried(r) = NoBlock /\ r.arena = NoArena /\ r.pc = "count up" /\ r.gen = q.gen
  BY <1>4 DEF PushOf, WashOf, PushSteps, Forget, ThreadType, Carried
<1> HIDE DEF r
<1>7. /\ Pushing(p)' = Pushing(p) \ {x} /\ \A o \in Pools : o # p => Pushing(o)' = Pushing(o)
      /\ Washing' = Washing
  <2>1. \A u \in Threads \ {t} : \A o : ~ PushOf(th[u], o, x)
    BY <1>1, <1>5 DEF CInv, Neat, Apart, Carried, PushOf
  <2>2. \A o, y : PushOf(q, o, y) <=> o = p /\ y = x
    BY <1>2, <1>3, <1>4 DEF PushOf, PushSteps
  <2>3. \A o, y : y \in Pushing(o)' <=> \E u \in Threads \ {t} : PushOf(th[u], o, y)
    BY <1>4, <1>6, HoldersNext DEF CInv
  <2>4. \A o, y : y \in Pushing(o) <=> (o = p /\ y = x) \/ \E u \in Threads \ {t} : PushOf(th[u], o, y)
    BY <1>1, <2>2, Holders
  <2>5. \A o, y : y \in Pushing(o)' <=> y \in Pushing(o) /\ ~ (o = p /\ y = x)
    BY <2>1, <2>3, <2>4
  <2>6. \A y : y \in Washing' <=> y \in Washing
    BY <1>1, <1>4, <1>6, HoldersNext, Holders DEF CInv
  <2> QED BY <2>5, <2>6
<1>8. /\ Spelled' /\ Stack(p)' = <<x>> \o Stack(p)
      /\ \A o \in Pools : o # p => Stack(o)' = Stack(o)
  <2>1. next[x] = head[p]
    BY <1>3, <1>4 DEF Fresh
  <2> QED BY <1>4, <1>5, <2>1, InPushOnly, PushStacks DEF CInv
<1>9. Life!Link(p) /\ p \in Life!Pools
  <2> DEFINE S == [o \in Pools |-> Stack(o)]
             T == [o \in Pools |-> Pushing(o)]
  <2>1. S' = [S EXCEPT ![p] = <<x>> \o Stack(p)]
    BY <1>8, StackMap
  <2>2. T' = [T EXCEPT ![p] = Pushing(p) \ {x}]
    BY <1>7, PushMap
  <2>3. S[p] = Stack(p) /\ T[p] = Pushing(p)
    OBVIOUS
  <2>4. S' = [S EXCEPT ![p] = <<x>> \o @] /\ T' = [T EXCEPT ![p] = @ \ {x}] /\ x \in T[p]
    BY <1>5, <2>1, <2>2, <2>3
  <2> HIDE DEF S, T
  <2> QED BY <1>4, <1>7, <2>4, SameNames DEF Life!Link, S, T, memory
<1>10. Stamped'
  <2> SUFFICES ASSUME NEW b \in Blocks,
                      Listed(Stack("quarantine")', b) \/ b \in Pushing("quarantine")'
               PROVE  retired_gen'[b] >= 1
    BY DEF Stamped
  <2>1. Listed(Stack("quarantine"), b) \/ b \in Pushing("quarantine")
    <3>1. CASE p # "quarantine"
      BY <1>7, <1>8, <3>1 DEF Pools
    <3>2. CASE p = "quarantine" /\ b = x
      BY <1>5, <3>2
    <3>3. CASE p = "quarantine" /\ b # x
      <4>1. PICK s \in Seq(Blocks) : s = Stack(p)
        BY StackFacts DEF CInv
      <4>2. Listed(<<x>> \o s, b) => Listed(s, b)
        BY <3>3, ListedOver
      <4> QED BY <1>7, <1>8, <3>3, <4>1, <4>2
    <3> QED BY <3>1, <3>2, <3>3
  <2>2. retired_gen' = retired_gen
    BY <1>4 DEF memory
  <2> QED BY <2>1, <2>2 DEF CInv, Neat, Stamped
<1>11. Apart'
  BY <1>4, <1>6, StillApart
<1>12. \A u \in Threads : Fresh(th[u])'
  <2>1. th'[t] = r
    BY <1>4, HoldersNext DEF CInv
  <2>2. r.gen <= generation'
    BY <1>4, <1>6 DEF Fresh, memory
  <2>3. Fresh(r)'
    BY <1>6, <2>2, PoolsAssumption DEF Fresh, PopSteps, SafeSteps
  <2>4. Fresh(th[t])'
    BY <2>1, <2>3 DEF Fresh
  <2>5. ASSUME NEW u \in Threads \ {t}, NEW o \in Pools, o = th[u].pool,
               th[u].pc \in {"pop next", "pop swap"}
        PROVE  Listed(Stack(o)', th[u].h)
    <3>1. CASE o # p
      BY <1>8, <2>5, <3>1, StillListed
    <3>2. CASE o = p
      <4>1. PICK s \in Seq(Blocks) : s = Stack(p)
        BY StackFacts DEF CInv
      <4>2. Listed(s, th[u].h)
        BY <2>5, <3>2, <4>1, Locally DEF Fresh
      <4>3. Listed(<<x>> \o s, th[u].h)
        BY <4>2, ListedOver
      <4> QED BY <1>8, <3>2, <4>1, <4>3
    <3> QED BY <3>1, <3>2
  <2> QED BY <1>4, <2>4, <2>5, OthersNeat DEF memory
<1> QED BY <1>8, <1>9, <1>10, <1>11, <1>12 DEF Neat, Life!Next

\* A swap that takes the top of a stack for an arena is TakeFrom.
LEMMA FillTakes ==
  ASSUME CInv, TInv', NEW p \in Pools, NEW a \in Arenas, NEW tier, NEW fl,
         head[p] # NoBlock, arena[a] = Idle,
         head' = [head EXCEPT ![p] = next[head[p]]], next' = next,
         arena' = [arena EXCEPT ![a] = Held(tier, head[p])],
         flags' = [flags EXCEPT ![head[p]] = fl],
         \A o : Pushing(o)' = Pushing(o), Washing' = Washing,
         UNCHANGED <<retired_gen, residue, generation>>
  PROVE  Life!TakeFrom(p, a, tier, fl)
<1> DEFINE S == [o \in Pools |-> Stack(o)]
           T == [o \in Pools |-> Pushing(o)]
<1>1. Stack(p) # << >> /\ head[p] = Head(Stack(p))
  BY Top
<1>2. Stack(p)' = Tail(Stack(p)) /\ \A o \in Pools : o # p => Stack(o)' = Stack(o)
  BY PopStacks
<1>3. S' = [S EXCEPT ![p] = Tail(Stack(p))]
  BY <1>2, StackMap
<1>4. T' = T /\ S[p] = Stack(p)
  OBVIOUS
<1>5. S' = [S EXCEPT ![p] = Tail(@)] /\ T' = T /\ S[p] # << >> /\ head[p] = Head(S[p])
  BY <1>1, <1>3, <1>4
<1> HIDE DEF S, T
<1> QED BY <1>5, SameNames DEF Life!TakeFrom, S, T

\* A thread that took a block for its arena, or lost nothing by taking it:
\* what remains of Neat when the top of a stack is gone.
LEMMA TakenNeat ==
  ASSUME CInv, TInv', NEW t \in Threads, NEW r, GoTo(t, r), NEW p \in Pools, head[p] # NoBlock,
         head' = [head EXCEPT ![p] = next[head[p]]], next' = next,
         UNCHANGED <<retired_gen, generation>>,
         \A a \in Arenas : arena[a] = Idle => arena'[a] = Idle \/ a = th[t].arena,
         \A o : Pushing(o)' = Pushing(o),
         \A u \in Threads \ {t} : th[u].pc \notin {"pop next", "pop swap"},
         r.pc = "count down", r.gen <= generation, r.arena = th[t].arena,
         r.blk \in {NoBlock, head[p]}
  PROVE  Neat'
<1>1. /\ Spelled' /\ Stack(p)' = Tail(Stack(p))
      /\ \A o \in Pools : o # p => Stack(o)' = Stack(o)
  BY PopStacks
<1>2. th'[t] = r
  BY HoldersNext DEF CInv
<1>3. Stamped'
  <2> SUFFICES ASSUME NEW b \in Blocks,
                      Listed(Stack("quarantine")', b) \/ b \in Pushing("quarantine")'
               PROVE  retired_gen'[b] >= 1
    BY DEF Stamped
  <2>1. Listed(Stack("quarantine"), b) \/ b \in Pushing("quarantine")
    <3>1. CASE p # "quarantine"
      BY <1>1, <3>1 DEF Pools
    <3>2. CASE p = "quarantine"
      <4>1. PICK s \in Seq(Blocks) : s = Stack(p) /\ s # << >>
        BY StackFacts, Top DEF CInv
      <4>2. Listed(Tail(s), b) => Listed(s, b)
        BY <4>1, ListedTail
      <4> QED BY <1>1, <3>2, <4>1, <4>2
    <3> QED BY <3>1, <3>2
  <2> QED BY <2>1 DEF CInv, Neat, Stamped
<1>4. Apart'
  <2>1. Carried(r) # NoBlock => Carried(r) = head[p] /\ Listed(Stack(p), head[p]) /\ head[p] \in Blocks
    BY Top DEF Carried
  <2>2. ASSUME NEW u \in Threads, u # t
        PROVE  /\ Carried(r) # NoBlock => Carried(th[u]) # Carried(r)
               /\ r.arena # NoArena => th[u].arena # r.arena
    <3>1. ASSUME Carried(r) # NoBlock, Carried(th[u]) = Carried(r) PROVE FALSE
      <4>1. /\ head[p] \in Blocks /\ Listed(Stack(p), head[p])
            /\ \E o \in Pools : head[p] \in Pushing(o) \/ head[p] \in Washing
        BY <2>1, <3>1, CarriedIsHeld DEF CInv
      <4> QED BY <4>1, OnStackOnly DEF CInv
    <3> QED BY <2>2, <3>1 DEF CInv, Neat, Apart
  <2> QED BY <2>2, StillApart
<1>5. \A u \in Threads : Fresh(th[u])'
  <2>1. r.gen <= generation'
    OBVIOUS
  <2>2. Fresh(r)'
    BY <2>1 DEF Fresh, PopSteps, SafeSteps
  <2>3. Fresh(th[t])'
    BY <1>2, <2>2 DEF Fresh
  <2> QED BY <2>3, OthersNeat
<1> QED BY <1>1, <1>3, <1>4, <1>5 DEF Neat

\* The swap that ends a pop of the common or the L2 pool is that step of an
\* init.  In the uses that are safe, no other thread is popping.
LEMMA PopSwapTakes ==
  ASSUME SafeUse, CInv, TInv', NEW t \in Threads, PopSwap(t), head[th[t].pool] = th[t].h
  PROVE  Life!Next /\ Neat'
<1>1. PICK q \in ThreadType : q = th[t]
  BY Locally
<1>2. PICK p \in Pools : p = q.pool
  BY DEF ThreadType
<1> DEFINE r == Forget([q EXCEPT !.pc = "count down"])
<1>3. /\ Local(t, q) /\ Fresh(q) /\ q.pc = "pop swap"
      /\ head[p] = q.h /\ head' = [head EXCEPT ![p] = q.n] /\ FillArena(t) /\ GoTo(t, r)
      /\ next' = next /\ UNCHANGED <<retired_gen, residue, generation>>
  BY <1>1, <1>2, Locally DEF PopSwap, At, Locals
<1>4. /\ q.h \in Blocks /\ q.blk = NoBlock /\ t \in Openers
      /\ \/ q.tier = "trusted" /\ p = "common"
         \/ q.tier = "untrusted" /\ p \in {"common", "l2"}
  BY <1>2, <1>3 DEF Local, PopSteps
<1>5. PICK a \in Arenas : a = q.arena
  BY <1>3 DEF Local, PopSteps
<1>6. arena[a] = Idle /\ q.n = next[q.h] /\ q.gen <= generation
  BY <1>3, <1>5 DEF Fresh, PopSteps
<1>7. /\ head[p] # NoBlock /\ head' = [head EXCEPT ![p] = next[head[p]]]
      /\ arena' = [arena EXCEPT ![a] = Held(q.tier, head[p])]
      /\ flags' = [flags EXCEPT ![head[p]] = FlagsFrom(p, q.tier)]
  BY <1>1, <1>2, <1>3, <1>4, <1>5, <1>6, Bounds DEF FillArena
<1>8. /\ r.pc = "count down" /\ r.gen = q.gen /\ r.arena = a /\ r.blk = NoBlock
  BY <1>4, <1>5 DEF Forget, ThreadType
<1> HIDE DEF r
<1>9. (\A o : Pushing(o)' = Pushing(o)) /\ Washing' = Washing
  <2>1. (\A o, y : ~ PushOf(r, o, y) /\ ~ PushOf(q, o, y)) /\ \A y : ~ WashOf(r, y) /\ ~ WashOf(q, y)
    BY <1>3, <1>8 DEF PushOf, WashOf, PushSteps
  <2> QED BY <1>1, <1>3, <2>1, SameHolders DEF CInv
<1>10. Life!TakeFrom(p, a, q.tier, FlagsFrom(p, q.tier))
  BY <1>3, <1>6, <1>7, <1>9, FillTakes
<1>11. Life!Next
  <2>1. CASE q.tier = "trusted"
    BY <1>4, <1>10, <2>1, SameNames DEF Life!Next, Life!InitTrusted, FlagsFrom
  <2>2. CASE q.tier = "untrusted"
    BY <1>4, <1>10, <2>2, SameNames DEF Life!Next, Life!InitUntrusted, FlagsFrom
  <2> QED BY <1>4, <2>1, <2>2
<1>12. \A u \in Threads \ {t} : th[u].pc \notin {"pop next", "pop swap"}
  <2>1. ASSUME NEW u \in Threads, u # t, th[u].pc \in {"pop next", "pop swap"} PROVE u \in Openers
    BY <2>1, Locally DEF Local, PopSteps
  <2> QED BY <1>4, <2>1 DEF SafeUse
<1>13. \A b \in Arenas : arena[b] = Idle => arena'[b] = Idle \/ b = th[t].arena
  BY <1>1, <1>5, <1>7 DEF CInv, TInv, SharedOK
<1>14. r.gen <= generation /\ r.arena = th[t].arena /\ r.blk \in {NoBlock, head[p]}
  BY <1>1, <1>5, <1>6, <1>8
<1>15. Neat'
  BY <1>3, <1>7, <1>8, <1>9, <1>12, <1>13, <1>14, TakenNeat
<1> QED BY <1>11, <1>15

\* The store that ends popSafe is that step of an untrusted init, or the
\* sanitizer's.  In the uses that are safe, nobody has moved the head since
\* it was loaded.
LEMMA SafeStoreTakes ==
  ASSUME CInv, TInv', NEW t \in Threads, SafeStore(t)
  PROVE  Life!Next /\ Neat'
<1>1. PICK q \in ThreadType : q = th[t]
  BY Locally
<1>2. PICK p \in Pools : p = "quarantine"
  BY DEF Pools
<1>3. /\ Local(t, q) /\ Fresh(q) /\ q.pc = "safe store" /\ q.pool = p
      /\ head' = [head EXCEPT ![p] = q.n]
      /\ next' = next /\ UNCHANGED <<retired_gen, residue, generation>>
  BY <1>1, <1>2, Locally DEF SafeStore, At, Local, SafeSteps
<1>4. /\ q.h \in Blocks /\ q.blk = NoBlock /\ q.n = next[q.h] /\ q.gen <= generation
      /\ head[p] = q.h /\ retired_gen[q.h] + 1 < q.gen /\ \A u \in Threads : u = t
      /\ q.arena \in Arenas => q.tier = "untrusted" /\ arena[q.arena] = Idle
  BY <1>2, <1>3 DEF Local, Fresh, SafeSteps, Alone
<1>5. head[p] # NoBlock /\ head' = [head EXCEPT ![p] = next[head[p]]]
  BY <1>3, <1>4, Bounds
<1>6. Life!TopIsSafe /\ head[p] = Head(Stack(p)) /\ Stack(p) # << >>
  <2>1. Stack(p) # << >> /\ head[p] = Head(Stack(p))
    BY <1>5, Top
  <2>2. retired_gen[q.h] + 1 < generation
    <3>1. /\ retired_gen[q.h] \in 0 .. MaxGen /\ q.gen \in 0 .. MaxGen /\ generation \in 1 .. MaxGen
      BY <1>4 DEF CInv, TInv, SharedOK, ThreadType
    <3>2. \A x, g, now \in 0 .. MaxGen : x + 1 < g /\ g <= now => x + 1 < now
      BY Bounds
    <3>3. generation \in 0 .. MaxGen
      BY <3>1, Bounds
    <3> QED BY <1>4, <3>1, <3>2, <3>3
  <2>3. [o \in Pools |-> Stack(o)]["quarantine"] = Stack(p)
    BY <1>2
  <2> QED BY <1>4, <2>1, <2>2, <2>3 DEF Life!TopIsSafe
<1>7. \A u \in Threads \ {t} : th[u].pc \notin {"pop next", "pop swap"}
  BY <1>4
<1>8. (\A o, y : ~ PushOf(q, o, y)) /\ \A y : ~ WashOf(q, y)
  BY <1>3 DEF PushOf, WashOf, PushSteps
<1>9. CASE q.arena # NoArena
  <2> DEFINE r == Forget([q EXCEPT !.pc = "count down"])
  <2>1. FillArena(t) /\ GoTo(t, r)
    BY <1>1, <1>9 DEF SafeStore, Locals
  <2>2. PICK a \in Arenas : a = q.arena
    BY <1>9 DEF ThreadType
  <2>3. /\ arena' = [arena EXCEPT ![a] = Held("untrusted", head[p])]
        /\ flags' = [flags EXCEPT ![head[p]] = ZeroedFlags]
    BY <1>1, <1>2, <1>3, <1>4, <2>1, <2>2 DEF FillArena, FlagsFrom
  <2>4. r.pc = "count down" /\ r.gen = q.gen /\ r.arena = a /\ r.blk = NoBlock
    BY <1>4, <2>2 DEF Forget, ThreadType
  <2> HIDE DEF r
  <2>5. (\A o : Pushing(o)' = Pushing(o)) /\ Washing' = Washing
    <3>1. (\A o, y : ~ PushOf(r, o, y)) /\ \A y : ~ WashOf(r, y)
      BY <2>4 DEF PushOf, WashOf, PushSteps
    <3> QED BY <1>1, <1>8, <2>1, <3>1, SameHolders DEF CInv
  <2>6. Life!TakeFrom(p, a, "untrusted", ZeroedFlags)
    BY <1>3, <1>4, <1>5, <2>2, <2>3, <2>5, FillTakes
  <2>7. Life!Next
    BY <1>2, <1>6, <2>6, SameNames DEF Life!Next, Life!InitUntrusted
  <2>8. \A b \in Arenas : arena[b] = Idle => arena'[b] = Idle \/ b = th[t].arena
    BY <1>1, <2>2, <2>3 DEF CInv, TInv, SharedOK
  <2>9. r.gen <= generation /\ r.arena = th[t].arena /\ r.blk \in {NoBlock, head[p]}
    BY <1>1, <1>4, <2>2, <2>4
  <2>10. Neat'
    BY <1>3, <1>5, <1>7, <2>1, <2>4, <2>5, <2>8, <2>9, TakenNeat
  <2> QED BY <2>7, <2>10
<1>10. CASE q.arena = NoArena
  <2> DEFINE r == Forget([[q EXCEPT !.pc = "count down"] EXCEPT !.blk = q.h])
  <2>1. GoTo(t, r) /\ UNCHANGED <<arena, flags>>
    BY <1>1, <1>10 DEF SafeStore, Locals
  <2>2. r.pc = "count down" /\ r.gen = q.gen /\ r.arena = q.arena /\ r.blk = q.h
    BY DEF Forget, ThreadType
  <2> HIDE DEF r
  <2>3. (\A o : Pushing(o)' = Pushing(o)) /\ Washing' = Washing \cup {head[p]}
    <3>1. (\A o, y : ~ PushOf(r, o, y)) /\ \A y : WashOf(r, y) <=> y = head[p]
      BY <1>4, <1>5, <2>2 DEF PushOf, WashOf, PushSteps
    <3>2. \A o, y : y \in Pushing(o)' <=> y \in Pushing(o)
      BY <1>1, <1>8, <2>1, <3>1, HoldersNext, Holders DEF CInv
    <3>3. \A y : y \in Washing' <=> y \in Washing \/ y = head[p]
      BY <1>1, <1>8, <2>1, <3>1, HoldersNext, Holders DEF CInv
    <3>4. \A o : Pushing(o)' = Pushing(o)
      BY <3>2
    <3>5. Washing' = Washing \cup {head[p]}
      BY <3>3
    <3> QED BY <3>4, <3>5
  <2>4. Life!SanitizerTake
    <3> DEFINE S == [o \in Pools |-> Stack(o)]
               T == [o \in Pools |-> Pushing(o)]
    <3>1. Stack(p)' = Tail(Stack(p)) /\ \A o \in Pools : o # p => Stack(o)' = Stack(o)
      BY <1>3, <1>5, PopStacks
    <3>2. S' = [S EXCEPT ![p] = Tail(Stack(p))]
      BY <3>1, StackMap
    <3>3. T' = T /\ S[p] = Stack(p)
      BY <2>3
    <3>4. S' = [S EXCEPT !["quarantine"] = Tail(@)] /\ T' = T /\ head[p] = Head(S["quarantine"])
      BY <1>2, <1>6, <3>2, <3>3
    <3> HIDE DEF S, T
    <3> QED BY <1>3, <1>6, <2>1, <2>3, <3>4 DEF Life!SanitizerTake, S, T
  <2>5. r.gen <= generation /\ r.arena = th[t].arena /\ r.blk \in {NoBlock, head[p]}
    BY <1>1, <1>4, <2>2
  <2>6. \A b \in Arenas : arena[b] = Idle => arena'[b] = Idle \/ b = th[t].arena
    BY <2>1
  <2>7. Neat'
    BY <1>3, <1>5, <1>7, <2>1, <2>2, <2>3, <2>5, <2>6, TakenNeat
  <2> QED BY <2>4, <2>7 DEF Life!Next
<1> QED BY <1>9, <1>10

-----------------------------------------------------------------------------
(* The steps that hand a block to a push                                   *)

\* Thread t, in no other push, starts the push of block x to pool p, and no
\* other thread has the block.
HandsOver(t, r, p, x) ==
  /\ GoTo(t, r) /\ UNCHANGED <<head, next, generation>>
  /\ r.pc = "push head" /\ r.gen <= generation /\ r.arena = NoArena /\ r.pool = p /\ r.blk = x
  /\ \A o, y : ~ PushOf(th[t], o, y)
  /\ \A u \in Threads : u # t => Carried(th[u]) # x
  /\ \A b \in Blocks : retired_gen[b] >= 1 => retired_gen'[b] >= 1
  /\ p = "quarantine" => retired_gen'[x] >= 1
  /\ \A a \in Arenas : arena[a] = Idle => arena'[a] = Idle

\* A push that starts is the block's new place.
LEMMA Handed ==
  ASSUME CInv, TInv', NEW t \in Threads, NEW r, NEW p \in Pools, NEW x \in Blocks,
         HandsOver(t, r, p, x)
  PROVE  /\ Neat' /\ (\A o : Stack(o)' = Stack(o))
         /\ Pushing(p)' = Pushing(p) \cup {x} /\ \A o \in Pools : o # p => Pushing(o)' = Pushing(o)
<1>1. /\ GoTo(t, r) /\ UNCHANGED <<head, next, generation>>
      /\ r.pc = "push head" /\ r.gen <= generation /\ r.arena = NoArena /\ r.pool = p /\ r.blk = x
      /\ \A o, y : ~ PushOf(th[t], o, y)
      /\ \A u \in Threads : u # t => Carried(th[u]) # x
      /\ \A b \in Blocks : retired_gen[b] >= 1 => retired_gen'[b] >= 1
      /\ p = "quarantine" => retired_gen'[x] >= 1
      /\ \A a \in Arenas : arena[a] = Idle => arena'[a] = Idle
  BY DEF HandsOver
<1>2. (\A o, y : PushOf(r, o, y) <=> o = p /\ y = x) /\ Carried(r) = x
  BY <1>1 DEF PushOf, PushSteps, Carried
<1>3. \A o, y : y \in Pushing(o)' <=> y \in Pushing(o) \/ (o = p /\ y = x)
  <2>1. \A o, y : y \in Pushing(o)' <=>
          PushOf(r, o, y) \/ \E u \in Threads \ {t} : PushOf(th[u], o, y)
    BY <1>1, HoldersNext DEF CInv
  <2>2. \A o, y : y \in Pushing(o) <=> \E u \in Threads \ {t} : PushOf(th[u], o, y)
    BY <1>1, Holders
  <2> QED BY <1>2, <2>1, <2>2
<1>4. Pushing(p)' = Pushing(p) \cup {x}
  BY <1>3
<1>5. ASSUME NEW o \in Pools, o # p PROVE Pushing(o)' = Pushing(o)
  <2>1. \A y : y \in Pushing(o)' <=> y \in Pushing(o)
    BY <1>3, <1>5
  <2> QED BY <2>1
<1>6. \A o : Stack(o)' = Stack(o)
  BY <1>1, SameStacks
<1>7. Spelled'
  BY <1>1, <1>6 DEF CInv, Neat, Spelled
<1>8. Stamped'
  BY <1>1, <1>3, <1>6 DEF CInv, Neat, Stamped
<1>9. Apart'
  BY <1>1, <1>2, StillApart
<1>10. \A u \in Threads : Fresh(th[u])'
  <2>1. th'[t] = r
    BY <1>1, HoldersNext DEF CInv
  <2>2. Fresh(r)'
    BY <1>1, PoolsAssumption DEF Fresh, PopSteps, SafeSteps
  <2>3. Fresh(th[t])'
    BY <2>1, <2>2 DEF Fresh
  <2>4. \A u \in Threads \ {t} : \A o \in Pools :
          o = th[u].pool /\ th[u].pc \in {"pop next", "pop swap"} => Listed(Stack(o)', th[u].h)
    BY <1>6, StillListed
  <2> QED BY <1>1, <2>3, <2>4, OthersNeat
<1> QED BY <1>4, <1>5, <1>6, <1>7, <1>8, <1>9, <1>10 DEF Neat

\* The block that is washed goes to the push of the L2 pool: Wash.
LEMMA WashHands ==
  ASSUME CInv, TInv', NEW t \in Threads, Wash(t)
  PROVE  Life!Next /\ Neat'
<1>1. PICK q \in ThreadType : q = th[t]
  BY Locally
<1>2. PICK x \in Blocks : x = q.blk
  BY <1>1, Locally DEF Wash, At, Local
<1>3. PICK p \in Pools : p = "l2"
  BY DEF Pools
<1> DEFINE r == [[q EXCEPT !.pc = "push head"] EXCEPT !.pool = "l2"]
<1>4. /\ q.pc = "wash" /\ Local(t, q) /\ Fresh(q) /\ GoTo(t, r)
      /\ residue' = [residue EXCEPT ![x] = {}] /\ flags' = [flags EXCEPT ![x] = ZeroedFlags]
      /\ UNCHANGED <<head, next, arena, retired_gen, generation>>
  BY <1>1, <1>2, Locally DEF Wash, At, Locals
<1>5. /\ r.pc = "push head" /\ r.gen <= generation /\ r.arena = NoArena /\ r.pool = p
      /\ r.blk = x
  BY <1>3, <1>2, <1>4 DEF Local, Fresh, ThreadType
<1> HIDE DEF r
<1>6. /\ \A o, y : ~ PushOf(th[t], o, y)
      /\ \A y : WashOf(q, y) <=> y = x
      /\ Carried(q) = x /\ x # NoBlock
  BY <1>1, <1>2, <1>4, Bounds DEF PushOf, PushSteps, WashOf, Carried
<1>7. \A u \in Threads : u # t => Carried(th[u]) # x
  BY <1>1, <1>6 DEF CInv, Neat, Apart
<1>8. /\ Neat' /\ (\A o : Stack(o)' = Stack(o))
      /\ Pushing(p)' = Pushing(p) \cup {x}
      /\ \A o \in Pools : o # p => Pushing(o)' = Pushing(o)
  <2>1. HandsOver(t, r, p, x)
    BY <1>3, <1>4, <1>5, <1>6, <1>7 DEF HandsOver
  <2> QED BY <2>1, Handed
<1>9. Washing' = Washing \ {x} /\ x \in Washing
  <2>1. \A y : ~ WashOf(r, y)
    BY <1>5 DEF WashOf
  <2>2. \A u \in Threads \ {t} : ~ WashOf(th[u], x)
    BY <1>7 DEF WashOf, Carried
  <2>3. \A y : y \in Washing' <=> \E u \in Threads \ {t} : WashOf(th[u], y)
    BY <1>4, <2>1, HoldersNext DEF CInv
  <2>4. \A y : y \in Washing <=> y = x \/ \E u \in Threads \ {t} : WashOf(th[u], y)
    BY <1>1, <1>6, Holders
  <2>5. \A y : y \in Washing' <=> y \in Washing /\ y # x
    BY <2>2, <2>3, <2>4
  <2>6. Washing' = Washing \ {x}
    BY <2>5
  <2> QED BY <2>4, <2>6
<1>10. Life!Wash(x)
  <2> DEFINE S == [o \in Pools |-> Stack(o)]
             T == [o \in Pools |-> Pushing(o)]
  <2>1. S' = S
    BY <1>8
  <2>2. T' = [T EXCEPT ![p] = Pushing(p) \cup {x}]
    BY <1>8, PushMap
  <2>3. T' = [T EXCEPT !["l2"] = @ \cup {x}]
    BY <1>3, <2>2
  <2> HIDE DEF S, T
  <2> QED BY <1>4, <1>9, <2>1, <2>3, SameNames DEF Life!Wash, S, T
<1> QED BY <1>8, <1>10, SameNames DEF Life!Next

\* The arena's block goes to the push of pool p: HandIn.
LEMMA CloseHands ==
  ASSUME CInv, TInv', NEW t \in Threads, NEW a \in Arenas, NEW p \in Pools, StartPush(t, a, p),
         arena[a].tier \in Tiers, \A b \in Blocks : retired_gen[b] >= 1 => retired_gen'[b] >= 1,
         p = "quarantine" => \A b \in Blocks : b = arena[a].block => retired_gen'[b] >= 1
  PROVE  /\ Neat' /\ Life!HandIn(a, p)
         /\ [o \in Pools |-> Stack(o)]' = [o \in Pools |-> Stack(o)]
<1>1. PICK x \in Blocks : x = arena[a].block
  BY DEF CInv, TInv, SharedOK, Tiers, Idle
<1> DEFINE r == [Resting EXCEPT !.pc = "push head", !.pool = p, !.blk = x]
<1>2. /\ th[t].pc = "idle" /\ GoTo(t, r) /\ arena' = [arena EXCEPT ![a] = Idle]
      /\ UNCHANGED <<head, next, generation>>
  BY <1>1 DEF StartPush, At
<1>3. generation >= 1 /\ 0 <= generation
  <2>1. generation \in 1 .. MaxGen
    BY DEF CInv, TInv, SharedOK
  <2> QED BY <2>1, Bounds
<1>4. r.pc = "push head" /\ r.gen <= generation /\ r.arena = NoArena /\ r.pool = p /\ r.blk = x
  BY <1>3 DEF Resting
<1> HIDE DEF r
<1>5. \A o, y : ~ PushOf(th[t], o, y) /\ ~ WashOf(th[t], y) /\ ~ WashOf(r, y)
  BY <1>2, <1>4 DEF PushOf, PushSteps, WashOf
<1>6. ASSUME NEW u \in Threads, Carried(th[u]) = x PROVE FALSE
  <2>1. x # NoBlock
    BY Bounds
  <2>2. \E o \in Pools : x \in Pushing(o) \/ x \in Washing
    BY <1>6, <2>1, CarriedIsHeld DEF CInv
  <2> QED BY <1>1, <2>2, InArenaOnly DEF CInv
<1>7. p = "quarantine" => retired_gen'[x] >= 1
  BY <1>1
<1>8. \A b \in Arenas : arena[b] = Idle => arena'[b] = Idle
  BY <1>2 DEF CInv, TInv, SharedOK
<1>9. /\ Neat' /\ (\A o : Stack(o)' = Stack(o))
       /\ Pushing(p)' = Pushing(p) \cup {x}
       /\ \A o \in Pools : o # p => Pushing(o)' = Pushing(o)
  <2>1. HandsOver(t, r, p, x)
    BY <1>2, <1>4, <1>5, <1>6, <1>7, <1>8 DEF HandsOver
  <2> QED BY <2>1, Handed
<1>10. Washing' = Washing
  BY <1>2, <1>5, HoldersNext, Holders DEF CInv
<1> DEFINE S == [o \in Pools |-> Stack(o)]
           T == [o \in Pools |-> Pushing(o)]
<1>11. S' = S
  BY <1>9
<1>12. T' = [T EXCEPT ![p] = Pushing(p) \cup {x}]
  BY <1>9, PushMap
<1>13. T' = [T EXCEPT ![p] = @ \cup {x}]
  BY <1>12
<1>14. Life!HandIn(a, p)
  <2> HIDE DEF S, T
  <2> QED BY <1>1, <1>2, <1>10, <1>11, <1>13, SameNames DEF Life!HandIn, S, T
<1> QED BY <1>9, <1>11, <1>14

\* A deinit or deinitAndZero, up to the push it starts, is that step of the
\* life cycle.
LEMMA CloseSteps ==
  ASSUME CInv, TInv', NEW t \in Threads, NEW a \in Arenas,
         CloseTrusted(t, a) \/ CloseUntrusted(t, a) \/ CloseAndZeroUntrusted(t, a)
  PROVE  Life!Next /\ Neat'
<1>1. CASE CloseTrusted(t, a)
  <2>1. PICK p \in Pools : p = "common"
    BY DEF Pools
  <2>2. /\ StartPush(t, a, p) /\ arena[a].tier = "trusted" /\ retired_gen' = retired_gen
        /\ flags' = flags
        /\ \/ residue' = residue
           \/ StrictMode /\ residue' = [residue EXCEPT ![arena[a].block] = {}]
    BY <1>1, <2>1 DEF CloseTrusted
  <2>3. Neat' /\ Life!HandIn(a, p)
    BY <2>1, <2>2, CloseHands DEF Tiers
  <2>4. Life!DeinitTrusted(a) \/ Life!DeinitAndZeroTrusted(a)
    BY <2>1, <2>2, <2>3 DEF Life!DeinitTrusted, Life!DeinitAndZeroTrusted
  <2> QED BY <2>3, <2>4 DEF Life!Next
<1>2. CASE CloseUntrusted(t, a)
  <2>1. PICK p \in Pools : p = "quarantine"
    BY DEF Pools
  <2>2. /\ StartPush(t, a, p) /\ arena[a].tier = "untrusted" /\ residue' = residue
        /\ retired_gen' = [retired_gen EXCEPT ![arena[a].block] = generation]
        /\ flags' = [flags EXCEPT ![arena[a].block].quarantined = TRUE]
    BY <1>2, <2>1 DEF CloseUntrusted
  <2>3. generation >= 1
    <3>1. generation \in 1 .. MaxGen
      BY DEF CInv, TInv, SharedOK
    <3> QED BY <3>1, Bounds
  <2>4. /\ \A b \in Blocks : retired_gen[b] >= 1 => retired_gen'[b] >= 1
        /\ \A b \in Blocks : b = arena[a].block => retired_gen'[b] >= 1
    BY <2>2, <2>3 DEF CInv, TInv, SharedOK
  <2>5. Neat' /\ Life!HandIn(a, p)
    BY <2>1, <2>2, <2>4, CloseHands DEF Tiers
  <2>6. Life!DeinitUntrusted(a)
    BY <2>1, <2>2, <2>5 DEF Life!DeinitUntrusted
  <2> QED BY <2>5, <2>6 DEF Life!Next
<1>3. CASE CloseAndZeroUntrusted(t, a)
  <2>1. PICK p \in Pools : p = "l2"
    BY DEF Pools
  <2>2. /\ StartPush(t, a, p) /\ arena[a].tier = "untrusted" /\ residue' = residue
        /\ retired_gen' = retired_gen /\ StrictMode
        /\ flags' = [flags EXCEPT ![arena[a].block] = ZeroedFlags]
    BY <1>3, <2>1 DEF CloseAndZeroUntrusted
  <2>3. Neat' /\ Life!HandIn(a, p)
    BY <2>1, <2>2, CloseHands DEF Tiers
  <2>4. Life!DeinitAndZeroUntrusted(a)
    BY <2>1, <2>2, <2>3, SameNames DEF Life!DeinitAndZeroUntrusted
  <2> QED BY <2>3, <2>4 DEF Life!Next
<1> QED BY <1>1, <1>2, <1>3

\* The steps that no pool takes part in are those of the same name.
LEMMA OutsideSteps ==
  ASSUME CInv, TInv', (\E a \in Arenas : Alloc(a)) \/ IncrementGeneration
  PROVE  Life!Next /\ Neat'
<1>1. /\ UNCHANGED <<head, next, arena, retired_gen, th>>
      /\ generation' \in {generation, generation + 1}
  BY DEF Alloc, IncrementGeneration
<1>2. /\ \A p : Stack(p)' = Stack(p)
      /\ (\A p : Pushing(p)' = Pushing(p)) /\ Washing' = Washing
  BY <1>1 DEF Stack, Pushing, Washing
<1>3. Neat'
  <2>1. Spelled' /\ Stamped' /\ Apart'
    BY <1>1, <1>2 DEF CInv, Neat, Spelled, Stamped, Apart, Carried
  <2>2. ASSUME NEW u \in Threads PROVE Fresh(th[u])'
    <3>1. PICK q \in ThreadType : q = th[u] /\ Fresh(q)
      BY Locally
    <3>2. q.gen <= generation'
      BY <1>1, <3>1, NotNewer
    <3>3. Fresh(q)'
      BY <1>1, <1>2, <3>1, <3>2 DEF Fresh
    <3>4. th'[u] = q
      BY <1>1, <3>1
    <3> QED BY <3>3, <3>4
  <2> QED BY <2>1, <2>2 DEF Neat
<1>4. Life!Next
  <2> DEFINE S == [o \in Pools |-> Stack(o)]
             T == [o \in Pools |-> Pushing(o)]
  <2>1. S' = S /\ T' = T
    BY <1>2
  <2> HIDE DEF S, T
  <2>2. ASSUME NEW a \in Arenas, Alloc(a) PROVE Life!Alloc(a)
    BY <1>1, <1>2, <2>1, <2>2, SameNames DEF Alloc, Life!Alloc, S, T
  <2>3. IncrementGeneration => Life!IncrementGeneration
    BY <1>1, <1>2, <2>1 DEF IncrementGeneration, Life!IncrementGeneration, S, T
  <2> QED BY <2>2, <2>3 DEF Life!Next
<1> QED BY <1>3, <1>4

-----------------------------------------------------------------------------
(* The pools implement the life cycle                                      *)

\* Every step is one of the life cycle, or none, and keeps the invariant.
LEMMA PoolsStep ==
  ASSUME SafeUse, CInv, [Next]_vars
  PROVE  CInv' /\ (Life!Next \/ UNCHANGED Life!vars)
<1>1. TInv'
  BY TypesStep DEF CInv
<1>2. (Life!Next \/ UNCHANGED Life!vars) /\ Neat'
  <2>1. CASE UNCHANGED vars
    <3>1. UNCHANGED <<head, next, memory, th, retired_gen, generation, arena>>
      BY <2>1 DEF vars, memory
    <3>2. /\ \A p : Stack(p)' = Stack(p)
          /\ (\A p : Pushing(p)' = Pushing(p)) /\ Washing' = Washing
      BY <3>1 DEF Stack, Pushing, Washing
    <3>3. Neat'
      BY <3>1, <3>2 DEF CInv, Neat, Spelled, Stamped, Apart, Carried, Fresh
    <3> QED BY <3>1, <3>2, <3>3, Unseen
  <2>2. ASSUME NEW t \in Threads, Work(t) PROVE (Life!Next \/ UNCHANGED Life!vars) /\ Neat'
    <3>1. CASE PopHead(t) \/ PopNext(t) \/ PopSwap(t)
      BY <1>1, <3>1, PopReads, PopSwapTakes
    <3>2. CASE SafeHead(t) \/ SafeCheck(t) \/ SafeNext(t) \/ SafeStore(t)
      BY <1>1, <3>2, SafeReads, SafeStoreTakes
    <3>3. CASE CountDown(t) \/ CountUp(t) \/ PushHead(t) \/ PushSwap(t)
      BY <1>1, <3>3, PushReads, PushSwapLinks
    <3>4. CASE PushLink(t) \/ Wash(t)
      BY <1>1, <3>4, PushLinkQuiet, WashHands
    <3> QED BY <2>2, <3>1, <3>2, <3>3, <3>4 DEF Work
  <2>3. ASSUME NEW t \in Threads,
               StartSanitize(t) \/ \E a \in Arenas, tier \in Tiers : OpenArena(t, a, tier)
        PROVE  (Life!Next \/ UNCHANGED Life!vars) /\ Neat'
    BY <1>1, <2>3, Begins
  <2>4. ASSUME NEW t \in Threads, NEW a \in Arenas,
               CloseTrusted(t, a) \/ CloseUntrusted(t, a) \/ CloseAndZeroUntrusted(t, a)
        PROVE  (Life!Next \/ UNCHANGED Life!vars) /\ Neat'
    BY <1>1, <2>4, CloseSteps
  <2>5. CASE (\E a \in Arenas : Alloc(a)) \/ IncrementGeneration
    BY <1>1, <2>5, OutsideSteps
  <2> QED BY <2>1, <2>2, <2>3, <2>4, <2>5 DEF Next
<1>3. Life!IInv'
  BY <1>2, LifeGoesOn DEF CInv
<1> QED BY <1>1, <1>2, <1>3 DEF CInv

\* In the beginning the pointers spell the life cycle's first state.
LEMMA PoolsInit == Init => CInv /\ Life!Init
<1> SUFFICES ASSUME Init PROVE CInv /\ Life!Init
  OBVIOUS
<1>1. TInv
  BY TypesInit
<1>2. next \in [Blocks -> Pointers] /\ head \in [Pools -> Pointers]
  BY <1>1 DEF TInv, SharedOK
<1> DEFINE all == [i \in Blocks |-> i]
<1>3. all \in Seq(Blocks) /\ Len(all) = BlockCount /\ Spells(next, all, 1)
  <2>1. all \in Seq(Blocks) /\ Len(all) = BlockCount /\ all # << >> /\ all[1] = 1
    BY Bounds DEF Blocks
  <2>2. ASSUME NEW i \in 1 .. BlockCount
        PROVE  next[all[i]] = IF i = BlockCount THEN NoBlock ELSE all[i + 1]
    <3>1. i \in Blocks /\ all[i] = i /\ next[i] = IF i < BlockCount THEN i + 1 ELSE NoBlock
      BY DEF Init, Blocks
    <3>2. i # BlockCount => i < BlockCount /\ i + 1 \in Blocks
      BY Bounds DEF Blocks
    <3>3. i = BlockCount => ~ (i < BlockCount)
      BY Bounds
    <3> QED BY <3>1, <3>2, <3>3
  <2> HIDE DEF all
  <2> QED BY <2>1, <2>2 DEF Spells
<1>4. Stack("common") = all /\ Spells(next, Stack("common"), head["common"])
  <2>1. head["common"] = 1 /\ 1 \in Pointers
    BY Bounds DEF Init, Pools
  <2>2. Len(all) <= BlockCount
    BY <1>3, Bounds
  <2> HIDE DEF all
  <2>3. Chain(next)[BlockCount][1] = all
    BY <1>2, <1>3, <2>1, <2>2, ChainSpells
  <2> QED BY <1>3, <2>1, <2>3 DEF Stack
<1>5. ASSUME NEW p \in Pools, p # "common"
      PROVE  Stack(p) = << >> /\ Spells(next, Stack(p), head[p])
  <2>1. head[p] = NoBlock
    BY <1>5 DEF Init
  <2>2. << >> \in Seq(Blocks) /\ Len(<< >>) <= BlockCount /\ Spells(next, << >>, NoBlock)
    BY Bounds DEF Spells
  <2>3. Chain(next)[BlockCount][NoBlock] = << >>
    BY <1>2, <2>2, Bounds, ChainSpells
  <2> QED BY <2>1, <2>2, <2>3 DEF Stack
<1>6. (\A p : Pushing(p) = {}) /\ Washing = {}
  BY DEF Init, Resting, Pushing, Washing, PushSteps
<1>7. Life!Init
  <2>1. [p \in Pools |-> Stack(p)] =
          [p \in Pools |-> IF p = "common" THEN [i \in Blocks |-> i] ELSE << >>]
    BY <1>4, <1>5
  <2>2. [p \in Pools |-> Pushing(p)] = [p \in Pools |-> {}]
    BY <1>6
  <2> QED BY <1>6, <2>1, <2>2, SameNames DEF Init, Life!Init
<1>8. Spelled
  BY <1>4, <1>5 DEF Spelled
<1>9. \A t \in Threads : th[t] = Resting
  BY DEF Init
<1>10. \A t \in Threads : Fresh(th[t])
  BY <1>1, <1>9, FreshResting
<1>11. Apart
  BY <1>1, <1>9, FreshResting DEF Apart
<1>12. Stamped
  <2>1. \A b : ~ Listed(<< >>, b)
    BY DEF Listed
  <2>2. Stack("quarantine") = << >>
    BY <1>5 DEF Pools
  <2> QED BY <1>6, <2>1, <2>2 DEF Stamped
<1> QED BY <1>1, <1>7, <1>8, <1>10, <1>11, <1>12, LifeGoesOn DEF CInv, Neat

\* The life cycle that KeepsLifecycle and NoBlockLost name is the one that the
\* lemmas are about.
LEMMA SameLife ==
  /\ Life!Init <=> Lifecycle!Init
  /\ Life!Next <=> Lifecycle!Next
  /\ Life!vars = Lifecycle!vars
  /\ Life!BlockConservation <=> Lifecycle!BlockConservation
  /\ Life!L2PoolClean <=> Lifecycle!L2PoolClean
<1>1. Life!Init <=> Lifecycle!Init
  BY DEF Life!Init, Lifecycle!Init, Life!Pools, Lifecycle!Pools, Life!Blocks, Lifecycle!Blocks,
         Life!Idle, Lifecycle!Idle, Life!NoBlock, Lifecycle!NoBlock, Life!NoFlags, Lifecycle!NoFlags
<1>2. Life!vars = Lifecycle!vars
  BY DEF Life!vars, Lifecycle!vars
<1>3. Life!Next <=> Lifecycle!Next
  BY DEF Life!Next, Lifecycle!Next,
         Life!InitTrusted, Lifecycle!InitTrusted, Life!InitUntrusted, Lifecycle!InitUntrusted,
         Life!Alloc, Lifecycle!Alloc, Life!TakeFrom, Lifecycle!TakeFrom,
         Life!DeinitTrusted, Lifecycle!DeinitTrusted,
         Life!DeinitUntrusted, Lifecycle!DeinitUntrusted,
         Life!DeinitAndZeroTrusted, Lifecycle!DeinitAndZeroTrusted,
         Life!DeinitAndZeroUntrusted, Lifecycle!DeinitAndZeroUntrusted,
         Life!HandIn, Lifecycle!HandIn, Life!Link, Lifecycle!Link,
         Life!SanitizerTake, Lifecycle!SanitizerTake, Life!TopIsSafe, Lifecycle!TopIsSafe,
         Life!Wash, Lifecycle!Wash, Life!IncrementGeneration, Lifecycle!IncrementGeneration,
         Life!Pools, Lifecycle!Pools, Life!Blocks, Lifecycle!Blocks,
         Life!Idle, Lifecycle!Idle, Life!Held, Lifecycle!Held, Life!NoBlock, Lifecycle!NoBlock,
         Life!NoFlags, Lifecycle!NoFlags, Life!DirtyFlags, Lifecycle!DirtyFlags,
         Life!ZeroedFlags, Lifecycle!ZeroedFlags
<1>4. Life!BlockConservation <=> Lifecycle!BlockConservation
  BY DEF Life!BlockConservation, Lifecycle!BlockConservation, Life!NoRepeat, Lifecycle!NoRepeat,
         Life!OneSite, Lifecycle!OneSite, Life!Sites, Lifecycle!Sites, Life!Found, Lifecycle!Found,
         Life!Lists, Lifecycle!Lists, Life!Pools, Lifecycle!Pools, Life!Blocks, Lifecycle!Blocks
<1>5. Life!L2PoolClean <=> Lifecycle!L2PoolClean
  BY DEF Life!L2PoolClean, Lifecycle!L2PoolClean, Life!GivenTo, Lifecycle!GivenTo,
         Life!Found, Lifecycle!Found, Life!Lists, Lifecycle!Lists, Life!Blocks, Lifecycle!Blocks
<1> QED BY <1>1, <1>2, <1>3, <1>4, <1>5

\* The invariant that the pointers and the locals of the threads keep.
LEMMA PoolsInvariant == SafeUse => (Spec => [](CInv /\ SafeUse))
<1>1. SafeUse /\ Init => CInv /\ SafeUse
  BY PoolsInit
<1>2. CInv /\ SafeUse /\ [Next]_vars => (CInv /\ SafeUse)'
  BY PoolsStep DEF SafeUse
<1> QED BY <1>1, <1>2, PTL DEF Spec

\* In the uses that are safe, the loads, stores and compare-and-swaps of the
\* pools are those whole pops and pushes that GqapLifecycle has: every access
\* is one of its steps or none, for any number of blocks and threads.
THEOREM PoolsKeepLifecycle == SafeUse => (Spec => KeepsLifecycle)
<1>1. CInv /\ SafeUse /\ [Next]_vars => [Lifecycle!Next]_(Lifecycle!vars)
  <2> SUFFICES ASSUME CInv, SafeUse, [Next]_vars PROVE [Lifecycle!Next]_(Lifecycle!vars)
    OBVIOUS
  <2>1. Life!Next \/ UNCHANGED Life!vars
    BY PoolsStep
  <2>2. UNCHANGED Life!vars => UNCHANGED Lifecycle!vars
    BY DEF Life!vars, Lifecycle!vars
  <2> QED BY <2>1, <2>2, SameLife
<1>2. Init => Lifecycle!Init
  BY PoolsInit, SameLife
<1> QED BY <1>1, <1>2, PoolsInvariant, PTL DEF Spec, KeepsLifecycle, Lifecycle!Spec

\* No interleaving of the accesses loses a block or gives it to two owners, in
\* the uses that are safe.
THEOREM NoBlockIsLost == SafeUse => (Spec => []NoBlockLost)
<1>1. CInv => NoBlockLost
  BY SameLife DEF CInv, Life!IInv, NoBlockLost
<1> QED BY <1>1, PoolsInvariant, PTL

\* In the uses that are safe, and without deinitAndZero, the L2 pool holds
\* zeroed blocks only, whatever the threads do between two accesses.
THEOREM L2StaysClean == SafeUse /\ ~ StrictMode => (Spec => []L2PoolClean)
<1> DEFINE Clean == Life!L2PoolClean /\ ~ StrictMode
<1>1. ~ StrictMode /\ Init => Clean
  BY SameNames DEF Init, Life!L2PoolClean
<1>2. CInv /\ SafeUse /\ Clean /\ [Next]_vars => Clean'
  <2>1. Life!IInv /\ ~ StrictMode /\ Life!L2PoolClean /\ (Life!Next \/ UNCHANGED Life!vars)
          => Life!L2PoolClean'
    BY SameNames, Life!L2CleanStep
  <2> QED BY <2>1, PoolsStep DEF CInv
<1>3. Clean => L2PoolClean
  BY SameLife DEF L2PoolClean
<1> HIDE DEF Clean
<1> QED BY <1>1, <1>2, <1>3, PoolsInvariant, PTL DEF Spec

\* In the uses that are safe, the pointers keep the tiers apart, the grace
\* period and the quarantined flag, as the comments of sdk_arena_gqap.zig
\* promise ("never mix with common", "RCU safe", "Currently in quarantine").
THEOREM PoolsKeepTiers ==
  SafeUse => (Spec => [](/\ Lifecycle!NeverMixWithCommon
                         /\ Lifecycle!GracePeriodElapsed
                         /\ Lifecycle!QuarantinedFlagExact))
<1>1. Init => Life!Init
  BY PoolsInit
<1>2. CInv /\ SafeUse /\ [Next]_vars => [Life!Next]_(Life!vars)
  BY PoolsStep
<1>3. Life!Spec => []Life!NeverMixWithCommon /\ []Life!GracePeriodElapsed
                     /\ []Life!QuarantinedFlagExact
  BY SameNames, Life!NeverMix, Life!GracePeriod, Life!FlagExact
<1>4. /\ Life!NeverMixWithCommon => Lifecycle!NeverMixWithCommon
      /\ Life!GracePeriodElapsed => Lifecycle!GracePeriodElapsed
      /\ Life!QuarantinedFlagExact => Lifecycle!QuarantinedFlagExact
  BY DEF Life!NeverMixWithCommon, Lifecycle!NeverMixWithCommon,
         Life!GracePeriodElapsed, Lifecycle!GracePeriodElapsed,
         Life!QuarantinedFlagExact, Lifecycle!QuarantinedFlagExact,
         Life!GivenTo, Lifecycle!GivenTo, Life!InUse, Lifecycle!InUse,
         Life!Found, Lifecycle!Found, Life!Lists, Lifecycle!Lists,
         Life!Held, Lifecycle!Held, Life!Blocks, Lifecycle!Blocks
<1> QED BY <1>1, <1>2, <1>3, <1>4, PoolsInvariant, PTL DEF Spec, Life!Spec

-----------------------------------------------------------------------------
(* The counters                                                            *)

\* A counter c with u updates due agrees with a stack of l blocks and d due.
Agree(c, u, l, d) == (c + u) % CountMod = (l + d) % CountMod

\* What keeps a counter in agreement: a push or a pop that takes effect, and
\* each of the updates, which wrap around.
LEMMA AgreeSteps ==
  ASSUME NEW c \in 0 .. CountMod - 1, NEW u \in Nat, NEW l \in Nat, NEW d \in Nat,
         Agree(c, u, l, d)
  PROVE  /\ Agree(c, u + 1, l + 1, d)
         /\ l >= 1 => Agree(c, u, l - 1, d + 1)
         /\ u >= 1 => Agree((c + 1) % CountMod, u - 1, l, d)
         /\ d >= 1 => Agree((c + CountMod - 1) % CountMod, u, l, d - 1)
<1>1. CountMod \in Nat \ {0} /\ c \in Nat
  BY Bounds
<1>2. PICK k \in Int : c + u = l + d + CountMod * k
  <2>1. \A a, b \in Nat : a % CountMod = b % CountMod => \E k \in Int : a = b + CountMod * k
    BY <1>1, SameRemainder
  <2>2. c + u \in Nat /\ l + d \in Nat
    BY <1>1
  <2> QED BY <2>1, <2>2 DEF Agree
<1>3. ASSUME NEW a \in Nat, NEW b \in Nat, NEW j \in Int, a = b + CountMod * j
      PROVE  a % CountMod = b % CountMod
  BY <1>1, <1>3, SameRemainder
<1>4. Agree(c, u + 1, l + 1, d)
  <2>1. c + (u + 1) = (l + 1) + d + CountMod * k /\ c + (u + 1) \in Nat /\ (l + 1) + d \in Nat
    BY <1>1, <1>2
  <2> QED BY <1>3, <2>1 DEF Agree
<1>5. ASSUME l >= 1 PROVE Agree(c, u, l - 1, d + 1)
  <2>1. c + u = (l - 1) + (d + 1) + CountMod * k /\ c + u \in Nat /\ (l - 1) + (d + 1) \in Nat
    BY <1>1, <1>2, <1>5
  <2> QED BY <1>3, <2>1 DEF Agree
<1>6. ASSUME NEW x \in Nat
      PROVE  \E j, n \in Nat : n = x % CountMod /\ x = CountMod * j + n
  <2>1. PICK j, n : j = x \div CountMod /\ n = x % CountMod
    OBVIOUS
  <2>2. x = CountMod * j + n /\ j \in Nat /\ n \in 0 .. CountMod - 1
    BY <1>1, <2>1, Division
  <2>3. n \in Nat
    BY <1>1, <2>2
  <2> QED BY <2>1, <2>2, <2>3
<1>7. ASSUME u >= 1 PROVE Agree((c + 1) % CountMod, u - 1, l, d)
  <2>1. PICK x \in Nat : x = c + 1
    BY <1>1
  <2>2. PICK j \in Nat, n \in Nat : n = x % CountMod /\ x = CountMod * j + n
    BY <1>6
  <2>3. n + (u - 1) = l + d + CountMod * (k - j)
    BY <1>1, <1>2, <2>1, <2>2
  <2>4. n + (u - 1) \in Nat /\ l + d \in Nat /\ k - j \in Int
    BY <1>7
  <2>5. (n + (u - 1)) % CountMod = (l + d) % CountMod
    BY <1>3, <2>3, <2>4
  <2> QED BY <2>1, <2>2, <2>5 DEF Agree
<1>8. ASSUME d >= 1 PROVE Agree((c + CountMod - 1) % CountMod, u, l, d - 1)
  <2>1. PICK x \in Nat : x = c + CountMod - 1
    BY <1>1
  <2>2. PICK j \in Nat, n \in Nat : n = x % CountMod /\ x = CountMod * j + n
    BY <1>6
  <2>3. n + u = l + (d - 1) + CountMod * (k + 1 - j)
    <3>1. n + u = l + (d - 1) + CountMod * k + CountMod - CountMod * j
      BY <1>1, <1>2, <2>1, <2>2
    <3>2. CountMod * (k + 1 - j) = CountMod * k + CountMod - CountMod * j
      BY <1>1
    <3> QED BY <1>1, <3>1, <3>2
  <2>4. n + u \in Nat /\ l + (d - 1) \in Nat /\ k + 1 - j \in Int
    BY <1>8
  <2>5. (n + u) % CountMod = (l + (d - 1)) % CountMod
    BY <1>3, <2>3, <2>4
  <2> QED BY <2>1, <2>2, <2>5 DEF Agree
<1> QED BY <1>4, <1>5, <1>7, <1>8

Counters == {"count up", "count down"}

\* The counters agree with the stacks and the updates that are due.
CountedAt(p) ==
  /\ \A pc \in Counters : IsFiniteSet(CountDue(p, pc))
  /\ Agree(count[p], Cardinality(CountDue(p, "count up")),
           Len(Stack(p)), Cardinality(CountDue(p, "count down")))

Counted == \A p \in Pools : CountedAt(p)

DueAt(r, p, pc) == r.pc = pc /\ r.pool = p

\* The updates that are due after thread t has gone on.
LEMMA DueMoves ==
  ASSUME TInv, NEW t \in Threads, NEW r, GoTo(t, r), NEW p \in Pools, NEW pc,
         IsFiniteSet(CountDue(p, pc))
  PROVE  /\ IsFiniteSet(CountDue(p, pc)') /\ Cardinality(CountDue(p, pc)) \in Nat
         /\ Cardinality(CountDue(p, pc)') \in Nat
         /\ (DueAt(r, p, pc) <=> DueAt(th[t], p, pc))
              => Cardinality(CountDue(p, pc)') = Cardinality(CountDue(p, pc))
         /\ DueAt(r, p, pc) /\ ~ DueAt(th[t], p, pc)
              => Cardinality(CountDue(p, pc)') = Cardinality(CountDue(p, pc)) + 1
         /\ ~ DueAt(r, p, pc) /\ DueAt(th[t], p, pc)
              => /\ Cardinality(CountDue(p, pc)) >= 1
                 /\ Cardinality(CountDue(p, pc)') = Cardinality(CountDue(p, pc)) - 1
<1>1. th'[t] = r /\ \A u \in Threads : u # t => th'[u] = th[u]
  BY HoldersNext
<1>2. PICK D : D = CountDue(p, pc)
  OBVIOUS
<1>3. /\ (DueAt(r, p, pc) <=> DueAt(th[t], p, pc)) => CountDue(p, pc)' = D
      /\ DueAt(r, p, pc) /\ ~ DueAt(th[t], p, pc) => CountDue(p, pc)' = D \cup {t} /\ t \notin D
      /\ ~ DueAt(r, p, pc) /\ DueAt(th[t], p, pc) => CountDue(p, pc)' = D \ {t} /\ t \in D
  BY <1>1, <1>2 DEF CountDue, DueAt
<1>4. /\ IsFiniteSet(D) /\ Cardinality(D) \in Nat
      /\ IsFiniteSet(D \cup {t}) /\ (t \notin D => Cardinality(D \cup {t}) = Cardinality(D) + 1)
      /\ IsFiniteSet(D \ {t}) /\ (t \in D => Cardinality(D \ {t}) = Cardinality(D) - 1)
  BY <1>2, FS_AddElement, FS_RemoveElement, FS_CardinalityType
<1>5. t \in D => Cardinality(D) # 0
  BY <1>4, FS_EmptySet
<1>6. Cardinality(D \cup {t}) \in Nat /\ Cardinality(D \ {t}) \in Nat
  BY <1>4, FS_CardinalityType
<1>7. t \in D => Cardinality(D) >= 1
  BY <1>4, <1>5
<1>8. \/ (DueAt(r, p, pc) <=> DueAt(th[t], p, pc))
      \/ DueAt(r, p, pc) /\ ~ DueAt(th[t], p, pc)
      \/ ~ DueAt(r, p, pc) /\ DueAt(th[t], p, pc)
  OBVIOUS
<1> QED BY <1>2, <1>3, <1>4, <1>6, <1>7, <1>8

\* A step that neither counts nor moves a block of pool p.
LEMMA CountedSame ==
  ASSUME TInv, Counted, NEW t \in Threads, NEW r, GoTo(t, r), NEW p \in Pools,
         count'[p] = count[p], Stack(p)' = Stack(p),
         \A pc \in Counters : ~ DueAt(r, p, pc) /\ ~ DueAt(th[t], p, pc)
  PROVE  CountedAt(p)'
<1>1. \A pc \in Counters : IsFiniteSet(CountDue(p, pc))
  BY DEF Counted, CountedAt
<1>2. \A pc \in Counters : /\ IsFiniteSet(CountDue(p, pc)')
                           /\ Cardinality(CountDue(p, pc)') = Cardinality(CountDue(p, pc))
  BY <1>1, DueMoves
<1> QED BY <1>2 DEF Counted, CountedAt, Counters

\* The lengths of lists, and of lists that are one longer or shorter.
LEMMA Lengths ==
  /\ \A s \in Seq(Blocks) : Len(s) \in Nat
  /\ \A m, l \in Nat : m = l - 1 => l >= 1
  /\ \A s \in Seq(Blocks) : s # << >> => Tail(s) \in Seq(Blocks) /\ Len(Tail(s)) = Len(s) - 1
  /\ \A s \in Seq(Blocks), x \in Blocks :
       <<x>> \o s \in Seq(Blocks) /\ Len(<<x>> \o s) = Len(s) + 1
OBVIOUS

\* A step that moves a block of pool p, or makes up for such a step.
LEMMA CountedMove ==
  ASSUME TInv, Counted, NEW t \in Threads, NEW r, GoTo(t, r), NEW p \in Pools,
         Stack(p) \in Seq(Blocks), Stack(p)' \in Seq(Blocks),
         \/ /\ DueAt(r, p, "count up") /\ th[t].pc \notin Counters
            /\ count'[p] = count[p] /\ Len(Stack(p)') = Len(Stack(p)) + 1
         \/ /\ DueAt(r, p, "count down") /\ th[t].pc \notin Counters
            /\ count'[p] = count[p] /\ Len(Stack(p)') = Len(Stack(p)) - 1
         \/ /\ DueAt(th[t], p, "count up") /\ r.pc \notin Counters
            /\ count'[p] = (count[p] + 1) % CountMod /\ Stack(p)' = Stack(p)
         \/ /\ DueAt(th[t], p, "count down") /\ r.pc \notin Counters
            /\ count'[p] = (count[p] + CountMod - 1) % CountMod /\ Stack(p)' = Stack(p)
  PROVE  CountedAt(p)'
<1> DEFINE U == CountDue(p, "count up")
           D == CountDue(p, "count down")
<1>1. IsFiniteSet(U) /\ IsFiniteSet(D) /\ Agree(count[p], Cardinality(U), Len(Stack(p)), Cardinality(D))
  BY DEF Counted, CountedAt, Counters
<1>2. /\ IsFiniteSet(U') /\ Cardinality(U) \in Nat
      /\ (DueAt(r, p, "count up") <=> DueAt(th[t], p, "count up")) => Cardinality(U') = Cardinality(U)
      /\ DueAt(r, p, "count up") /\ ~ DueAt(th[t], p, "count up")
           => Cardinality(U') = Cardinality(U) + 1
      /\ ~ DueAt(r, p, "count up") /\ DueAt(th[t], p, "count up")
           => Cardinality(U) >= 1 /\ Cardinality(U') = Cardinality(U) - 1
  BY <1>1, DueMoves
<1>3. /\ IsFiniteSet(D') /\ Cardinality(D) \in Nat
      /\ (DueAt(r, p, "count down") <=> DueAt(th[t], p, "count down")) => Cardinality(D') = Cardinality(D)
      /\ DueAt(r, p, "count down") /\ ~ DueAt(th[t], p, "count down")
           => Cardinality(D') = Cardinality(D) + 1
      /\ ~ DueAt(r, p, "count down") /\ DueAt(th[t], p, "count down")
           => Cardinality(D) >= 1 /\ Cardinality(D') = Cardinality(D) - 1
  BY <1>1, DueMoves
<1>4. count[p] \in 0 .. CountMod - 1 /\ Len(Stack(p)) \in Nat /\ Len(Stack(p)') \in Nat
  <2>1. count[p] \in 0 .. CountMod - 1
    BY DEF TInv, SharedOK
  <2> QED BY <2>1, Lengths
<1> HIDE DEF U, D
<1>5. PICK c \in 0 .. CountMod - 1, u \in Nat, l \in Nat, d \in Nat :
        c = count[p] /\ u = Cardinality(U) /\ l = Len(Stack(p)) /\ d = Cardinality(D)
  BY <1>2, <1>3, <1>4
<1>6. /\ Agree(c, u + 1, l + 1, d)
      /\ l >= 1 => Agree(c, u, l - 1, d + 1)
      /\ u >= 1 => Agree((c + 1) % CountMod, u - 1, l, d)
      /\ d >= 1 => Agree((c + CountMod - 1) % CountMod, u, l, d - 1)
  BY <1>1, <1>5, AgreeSteps
<1>7. Agree(count'[p], Cardinality(U'), Len(Stack(p)'), Cardinality(D'))
  <2>1. CASE /\ DueAt(r, p, "count up") /\ th[t].pc \notin Counters
             /\ count'[p] = count[p] /\ Len(Stack(p)') = Len(Stack(p)) + 1
    <3>1. /\ ~ DueAt(th[t], p, "count up") /\ ~ DueAt(th[t], p, "count down")
          /\ ~ DueAt(r, p, "count down")
      BY <2>1 DEF DueAt, Counters
    <3>2. Cardinality(U') = u + 1 /\ Cardinality(D') = d
      BY <1>2, <1>3, <1>5, <2>1, <3>1
    <3> QED BY <1>5, <1>6, <2>1, <3>2
  <2>2. CASE /\ DueAt(r, p, "count down") /\ th[t].pc \notin Counters
             /\ count'[p] = count[p] /\ Len(Stack(p)') = Len(Stack(p)) - 1
    <3>1. /\ ~ DueAt(th[t], p, "count up") /\ ~ DueAt(th[t], p, "count down")
          /\ ~ DueAt(r, p, "count up")
      BY <2>2 DEF DueAt, Counters
    <3>2. Cardinality(U') = u /\ Cardinality(D') = d + 1
      BY <1>2, <1>3, <1>5, <2>2, <3>1
    <3>3. PICK m \in Nat : m = Len(Stack(p)')
      BY <1>4
    <3>4. m = l - 1
      BY <1>5, <2>2, <3>3
    <3>5. l >= 1
      BY <3>4, Lengths
    <3> QED BY <1>5, <1>6, <2>2, <3>2, <3>5
  <2>3. CASE /\ DueAt(th[t], p, "count up") /\ r.pc \notin Counters
             /\ count'[p] = (count[p] + 1) % CountMod /\ Stack(p)' = Stack(p)
    <3>1. /\ ~ DueAt(r, p, "count up") /\ ~ DueAt(r, p, "count down")
          /\ ~ DueAt(th[t], p, "count down")
      BY <2>3 DEF DueAt, Counters
    <3>2. Cardinality(U') = u - 1 /\ u >= 1 /\ Cardinality(D') = d
      BY <1>2, <1>3, <1>5, <2>3, <3>1
    <3> QED BY <1>5, <1>6, <2>3, <3>2
  <2>4. CASE /\ DueAt(th[t], p, "count down") /\ r.pc \notin Counters
             /\ count'[p] = (count[p] + CountMod - 1) % CountMod /\ Stack(p)' = Stack(p)
    <3>1. /\ ~ DueAt(r, p, "count up") /\ ~ DueAt(r, p, "count down")
          /\ ~ DueAt(th[t], p, "count up")
      BY <2>4 DEF DueAt, Counters
    <3>2. Cardinality(U') = u /\ d >= 1 /\ Cardinality(D') = d - 1
      BY <1>2, <1>3, <1>5, <2>4, <3>1
    <3> QED BY <1>5, <1>6, <2>4, <3>2
  <2> QED BY <2>1, <2>2, <2>3, <2>4
<1> QED BY <1>2, <1>3, <1>7 DEF CountedAt, Counters, U, D

\* A step of thread t changes nobody else's locals.
Moves(t) == \A u \in Threads : u # t => th'[u] = th[u]

\* A step that only reads, links the block that it pushes or closes an arena.
LEMMA CountedQuiet ==
  ASSUME TInv, TInv', Counted, NEW t \in Threads, Moves(t), count' = count,
         \A p \in Pools : Stack(p)' = Stack(p), th[t].pc \notin Counters, th'[t].pc \notin Counters
  PROVE  Counted'
<1>1. PICK r : r = th'[t]
  OBVIOUS
<1>2. GoTo(t, r)
  BY <1>1 DEF GoTo, Moves, TInv, ThreadsOK
<1>3. \A p, pc : pc \in Counters => ~ DueAt(r, p, pc) /\ ~ DueAt(th[t], p, pc)
  BY <1>1 DEF DueAt
<1>4. ASSUME NEW p \in Pools PROVE CountedAt(p)'
  BY <1>2, <1>3, CountedSame
<1> QED BY <1>4 DEF Counted

\* The other pools of a step that moves a block of pool p, or makes up for
\* such a step.
LEMMA CountedElsewhere ==
  ASSUME TInv, Counted, NEW t \in Threads, NEW r, GoTo(t, r), NEW p \in Pools,
         NEW o \in Pools, o # p, count'[o] = count[o], Stack(o)' = Stack(o),
         th[t].pc \notin Counters \/ th[t].pool = p, r.pc \notin Counters \/ r.pool = p
  PROVE  CountedAt(o)'
<1>1. \A pc : pc \in Counters => ~ DueAt(r, o, pc) /\ ~ DueAt(th[t], o, pc)
  BY DEF DueAt
<1> QED BY <1>1, CountedSame

\* The swap that takes the top of a stack leaves the counter one too high.
LEMMA CountedTake ==
  ASSUME CInv, CInv', Counted, NEW t \in Threads, NEW r, GoTo(t, r), NEW p \in Pools,
         head[p] # NoBlock, head' = [head EXCEPT ![p] = next[head[p]]], next' = next,
         count' = count, th[t].pc \notin Counters, DueAt(r, p, "count down")
  PROVE  Counted'
<1>1. Stack(p)' = Tail(Stack(p)) /\ \A o \in Pools : o # p => Stack(o)' = Stack(o)
  BY PopStacks DEF CInv
<1>2. Stack(p) \in Seq(Blocks) /\ Stack(p) # << >>
  BY StackFacts, Top DEF CInv
<1>3. Stack(p)' \in Seq(Blocks) /\ Len(Stack(p)') = Len(Stack(p)) - 1
  BY <1>1, <1>2, Lengths
<1>4. CountedAt(p)'
  BY <1>2, <1>3, CountedMove DEF CInv
<1>5. ASSUME NEW o \in Pools, o # p PROVE CountedAt(o)'
  <2>1. r.pool = p
    BY DEF DueAt
  <2> QED BY <1>1, <1>5, <2>1, CountedElsewhere DEF CInv
<1> QED BY <1>4, <1>5 DEF Counted

\* The swap that puts a block on a stack leaves the counter one too low.
LEMMA CountedLink ==
  ASSUME CInv, CInv', Counted, NEW t \in Threads, NEW r, GoTo(t, r), NEW p \in Pools,
         NEW x \in Blocks, next[x] = head[p], ~ Listed(Stack(p), x),
         head' = [head EXCEPT ![p] = x], next' = next,
         count' = count, th[t].pc \notin Counters, DueAt(r, p, "count up")
  PROVE  Counted'
<1>1. Stack(p)' = <<x>> \o Stack(p) /\ \A o \in Pools : o # p => Stack(o)' = Stack(o)
  BY PushStacks DEF CInv
<1>2. Stack(p) \in Seq(Blocks)
  BY StackFacts DEF CInv
<1>3. Stack(p)' \in Seq(Blocks) /\ Len(Stack(p)') = Len(Stack(p)) + 1
  BY <1>1, <1>2, Lengths
<1>4. CountedAt(p)'
  BY <1>2, <1>3, CountedMove DEF CInv
<1>5. ASSUME NEW o \in Pools, o # p PROVE CountedAt(o)'
  <2>1. r.pool = p
    BY DEF DueAt
  <2> QED BY <1>1, <1>5, <2>1, CountedElsewhere DEF CInv
<1> QED BY <1>4, <1>5 DEF Counted

\* The update that was due makes up for it.
LEMMA CountedUpdate ==
  ASSUME CInv, CInv', Counted, NEW t \in Threads, NEW r, GoTo(t, r), NEW p \in Pools,
         UNCHANGED <<head, next>>, r.pc \notin Counters,
         \/ /\ DueAt(th[t], p, "count up")
            /\ count' = [count EXCEPT ![p] = (@ + 1) % CountMod]
         \/ /\ DueAt(th[t], p, "count down")
            /\ count' = [count EXCEPT ![p] = (@ + CountMod - 1) % CountMod]
  PROVE  Counted'
<1>1. \A o : Stack(o)' = Stack(o)
  BY SameStacks
<1>2. Stack(p) \in Seq(Blocks) /\ Stack(p)' \in Seq(Blocks)
  BY <1>1, StackFacts DEF CInv
<1>3. count \in [Pools -> 0 .. CountMod - 1]
  BY DEF CInv, TInv, SharedOK
<1>4. /\ \/ DueAt(th[t], p, "count up") /\ count'[p] = (count[p] + 1) % CountMod
         \/ DueAt(th[t], p, "count down") /\ count'[p] = (count[p] + CountMod - 1) % CountMod
      /\ \A o \in Pools : o # p => count'[o] = count[o]
  BY <1>3
<1>5. CountedAt(p)'
  BY <1>1, <1>2, <1>4, CountedMove DEF CInv
<1>6. ASSUME NEW o \in Pools, o # p PROVE CountedAt(o)'
  <2>1. th[t].pool = p
    BY DEF DueAt
  <2> QED BY <1>1, <1>4, <1>6, <2>1, CountedElsewhere DEF CInv
<1> QED BY <1>5, <1>6 DEF Counted

\* The steps that neither update a counter nor move a block, but for the link
\* of a push.
CountsNothing(t) ==
  \/ PopHead(t) \/ PopNext(t) \/ (PopSwap(t) /\ head[th[t].pool] # th[t].h)
  \/ SafeHead(t) \/ SafeCheck(t) \/ SafeNext(t) \/ Wash(t) \/ PushHead(t)
  \/ (PushSwap(t) /\ head[th[t].pool] # th[t].h) \/ StartSanitize(t)
  \/ \E a \in Arenas, tier \in Tiers : OpenArena(t, a, tier)
  \/ \E a \in Arenas :
       CloseTrusted(t, a) \/ CloseUntrusted(t, a) \/ CloseAndZeroUntrusted(t, a)

\* No update is due after such a step, and none was before it.
LEMMA CountedReads ==
  ASSUME CInv, TInv', Counted, NEW t \in Threads, CountsNothing(t)
  PROVE  Counted'
<1>1. PICK q \in ThreadType : q = th[t]
  BY Locally
<1>2. th \in [Threads -> ThreadType] /\ Resting.pc = "idle"
  BY DEF CInv, TInv, ThreadsOK, Resting
<1>3. UNCHANGED <<head, next, count>> /\ q.pc \notin Counters
  BY <1>1 DEF CountsNothing, PopHead, PopNext, PopSwap, SafeHead, SafeCheck, SafeNext, Wash, PushHead, PushSwap,
              StartSanitize, OpenArena, CloseTrusted, CloseUntrusted, CloseAndZeroUntrusted,
              StartPush, At, Counters
<1>4. Moves(t) /\ th'[t].pc \notin Counters
  <2>1. CASE PopHead(t) \/ PopNext(t) \/ (PopSwap(t) /\ head[th[t].pool] # th[t].h)
    <3>1. CASE PopHead(t)
      <4>1. PICK r \in {[[q EXCEPT !.pc = "pop next"] EXCEPT !.h = head[q.pool]], Resting,
                        [q EXCEPT !.pool = "common"],
                        [[q EXCEPT !.pc = "safe head"] EXCEPT !.pool = "quarantine"]} :
              th' = [th EXCEPT ![t] = r]
        BY <1>1, <3>1 DEF GoTo, PopHead, Locals
      <4>2. r.pc \notin Counters
        BY <1>2, <1>3, <4>1 DEF ThreadType, Counters
      <4> QED BY <1>2, <4>1, <4>2 DEF Moves
    <3>2. CASE PopNext(t)
      BY <1>1, <1>2, <3>2 DEF GoTo, Moves, PopNext, Locals, ThreadType, Counters
    <3>3. CASE PopSwap(t) /\ head[th[t].pool] # th[t].h
      <4>1. GoTo(t, Forget([q EXCEPT !.pc = "pop head"]))
        BY <1>1, <3>3 DEF PopSwap, Locals
      <4> QED BY <1>2, <4>1 DEF GoTo, Moves, Forget, ThreadType, Counters
    <3> QED BY <2>1, <3>1, <3>2, <3>3
  <2>2. CASE SafeHead(t) \/ SafeCheck(t) \/ SafeNext(t)
    <3>1. CASE SafeHead(t)
      BY <1>1, <1>2, <3>1 DEF GoTo, Moves, SafeHead, Locals, Resting, ThreadType, Counters
    <3>2. CASE SafeCheck(t)
      BY <1>1, <1>2, <3>2 DEF GoTo, Moves, SafeCheck, Locals, Resting, ThreadType, Counters
    <3>3. CASE SafeNext(t)
      BY <1>1, <1>2, <3>3 DEF GoTo, Moves, SafeNext, Locals, ThreadType, Counters
    <3> QED BY <2>2, <3>1, <3>2, <3>3
  <2>3. CASE Wash(t) \/ PushHead(t) \/ (PushSwap(t) /\ head[th[t].pool] # th[t].h)
    <3>1. CASE Wash(t)
      BY <1>1, <1>2, <3>1 DEF GoTo, Moves, Wash, Locals, ThreadType, Counters
    <3>2. CASE PushHead(t)
      BY <1>1, <1>2, <3>2 DEF GoTo, Moves, PushHead, Locals, ThreadType, Counters
    <3>3. CASE PushSwap(t) /\ head[th[t].pool] # th[t].h
      <4>1. GoTo(t, Forget([q EXCEPT !.pc = "push head"]))
        BY <1>1, <3>3 DEF PushSwap, Locals
      <4> QED BY <1>2, <4>1 DEF GoTo, Moves, Forget, ThreadType, Counters
    <3> QED BY <2>3, <3>1, <3>2, <3>3
  <2>4. CASE StartSanitize(t)
    BY <1>2, <2>4 DEF GoTo, Moves, StartSanitize, Resting, Counters
  <2>5. ASSUME NEW a \in Arenas, NEW tier \in Tiers, OpenArena(t, a, tier)
        PROVE  Moves(t) /\ th'[t].pc \notin Counters
    BY <1>2, <2>5 DEF GoTo, Moves, OpenArena, Resting, Counters
  <2>6. ASSUME NEW a \in Arenas,
               CloseTrusted(t, a) \/ CloseUntrusted(t, a) \/ CloseAndZeroUntrusted(t, a)
        PROVE  Moves(t) /\ th'[t].pc \notin Counters
    <3>1. \E p : StartPush(t, a, p)
      BY <2>6 DEF CloseTrusted, CloseUntrusted, CloseAndZeroUntrusted
    <3> QED BY <1>2, <3>1 DEF GoTo, Moves, StartPush, Resting, Counters
  <2> QED BY <2>1, <2>2, <2>3, <2>4, <2>5, <2>6 DEF CountsNothing
<1>5. \A p : Stack(p)' = Stack(p)
  BY <1>3, SameStacks
<1>6. th[t].pc \notin Counters
  BY <1>1, <1>3
<1> QED BY <1>3, <1>4, <1>5, <1>6, CountedQuiet DEF CInv

\* The steps that move a block, and the updates that follow them.
LEMMA CountedSwaps ==
  ASSUME CInv, CInv', Counted, NEW t \in Threads,
         \/ PopSwap(t) /\ head[th[t].pool] = th[t].h
         \/ SafeStore(t)
         \/ PushSwap(t) /\ head[th[t].pool] = th[t].h
         \/ CountUp(t) \/ CountDown(t)
  PROVE  Counted'
<1>1. PICK q \in ThreadType : q = th[t]
  BY Locally
<1>2. PICK p \in Pools : p = q.pool
  BY DEF ThreadType
<1>3. Local(t, q) /\ Fresh(q)
  BY <1>1, Locally
<1>4. CASE PopSwap(t) /\ head[th[t].pool] = th[t].h
  <2> DEFINE r == Forget([q EXCEPT !.pc = "count down"])
  <2>1. /\ q.pc = "pop swap" /\ head[p] = q.h /\ head' = [head EXCEPT ![p] = q.n]
        /\ next' = next /\ count' = count /\ GoTo(t, r)
    BY <1>1, <1>2, <1>4 DEF PopSwap, At, Locals
  <2>2. q.h \in Blocks /\ q.n = next[q.h]
    BY <1>3, <2>1 DEF Local, Fresh
  <2>3. DueAt(r, p, "count down") /\ th[t].pc \notin Counters
    BY <1>1, <1>2, <2>1 DEF DueAt, Forget, ThreadType, Counters
  <2>4. head[p] # NoBlock /\ head' = [head EXCEPT ![p] = next[head[p]]]
    BY <2>1, <2>2, Bounds
  <2> HIDE DEF r
  <2> QED BY <2>1, <2>3, <2>4, CountedTake
<1>5. CASE SafeStore(t)
  <2>1. /\ q.pc = "safe store" /\ head' = [head EXCEPT !["quarantine"] = q.n]
        /\ next' = next /\ count' = count
        /\ \E r : GoTo(t, r) /\ r.pc = "count down" /\ r.pool = q.pool
    <3>1. q.pc = "safe store" /\ head' = [head EXCEPT !["quarantine"] = q.n]
          /\ next' = next /\ count' = count
      BY <1>1, <1>5 DEF SafeStore, At
    <3>2. \/ GoTo(t, Forget([q EXCEPT !.pc = "count down"]))
          \/ GoTo(t, Forget([[q EXCEPT !.pc = "count down"] EXCEPT !.blk = q.h]))
      BY <1>1, <1>5 DEF SafeStore, Locals
    <3>3. PICK r, s : /\ r = Forget([q EXCEPT !.pc = "count down"])
                      /\ s = Forget([[q EXCEPT !.pc = "count down"] EXCEPT !.blk = q.h])
      OBVIOUS
    <3>4. r.pc = "count down" /\ r.pool = q.pool /\ s.pc = "count down" /\ s.pool = q.pool
      BY <3>3 DEF Forget, ThreadType
    <3> QED BY <3>1, <3>2, <3>3, <3>4
  <2>2. PICK r : GoTo(t, r) /\ r.pc = "count down" /\ r.pool = q.pool
    BY <2>1
  <2>3. /\ p = "quarantine" /\ q.h \in Blocks /\ q.n = next[q.h] /\ head["quarantine"] = q.h
    BY <1>2, <1>3, <2>1 DEF Local, Fresh, SafeSteps
  <2>4. DueAt(r, p, "count down") /\ th[t].pc \notin Counters
    BY <1>1, <1>2, <2>1, <2>2 DEF DueAt, Counters
  <2>5. head[p] # NoBlock /\ head' = [head EXCEPT ![p] = next[head[p]]]
    BY <2>1, <2>3, Bounds
  <2> QED BY <2>1, <2>2, <2>4, <2>5, CountedTake
<1>6. CASE PushSwap(t) /\ head[th[t].pool] = th[t].h
  <2> DEFINE r == Forget([q EXCEPT !.pc = "count up"])
  <2>1. PICK x \in Blocks : x = q.blk
    BY <1>1, <1>3, <1>6 DEF PushSwap, At, Local, PushSteps
  <2>2. /\ q.pc = "push swap" /\ head[p] = q.h /\ head' = [head EXCEPT ![p] = x]
        /\ next' = next /\ count' = count /\ GoTo(t, r)
    BY <1>1, <1>2, <1>6, <2>1 DEF PushSwap, At, Locals
  <2>3. next[x] = head[p]
    BY <1>3, <2>1, <2>2 DEF Fresh
  <2>4. ~ Listed(Stack(p), x)
    <3>1. x \in Pushing(p)
      BY <1>1, <1>2, <2>1, <2>2, Holders DEF PushOf, PushSteps
    <3> QED BY <3>1, InPushOnly DEF CInv
  <2>5. DueAt(r, p, "count up") /\ th[t].pc \notin Counters
    BY <1>1, <1>2, <2>2 DEF DueAt, Forget, ThreadType, Counters
  <2> HIDE DEF r
  <2> QED BY <2>2, <2>3, <2>4, <2>5, CountedLink
<1>7. CASE CountUp(t)
  <2>1. /\ q.pc = "count up" /\ count' = [count EXCEPT ![p] = (@ + 1) % CountMod]
        /\ UNCHANGED <<head, next>>
    BY <1>1, <1>2, <1>7 DEF CountUp, At
  <2>2. PICK r, s : r = Resting /\ s = [Resting EXCEPT !.pc = "safe head", !.pool = "quarantine",
                                                    !.gen = q.gen]
    OBVIOUS
  <2>3. r.pc \notin Counters /\ s.pc \notin Counters
    BY <2>2 DEF Resting, Counters
  <2>4. GoTo(t, r) \/ GoTo(t, s)
    BY <1>1, <1>7, <2>2 DEF CountUp
  <2> QED BY <1>1, <1>2, <2>1, <2>3, <2>4, CountedUpdate DEF DueAt
<1>8. CASE CountDown(t)
  <2>1. /\ q.pc = "count down" /\ count' = [count EXCEPT ![p] = (@ + CountMod - 1) % CountMod]
        /\ UNCHANGED <<head, next>>
    BY <1>1, <1>2, <1>8 DEF CountDown, At
  <2>2. PICK r, s : r = Resting /\ s = [q EXCEPT !.pc = "wash"]
    OBVIOUS
  <2>3. r.pc \notin Counters /\ s.pc \notin Counters
    BY <2>2 DEF Resting, ThreadType, Counters
  <2>4. GoTo(t, r) \/ GoTo(t, s)
    BY <1>1, <1>8, <2>2 DEF CountDown, Locals
  <2> QED BY <1>1, <1>2, <2>1, <2>3, <2>4, CountedUpdate DEF DueAt
<1> QED BY <1>4, <1>5, <1>6, <1>7, <1>8

\* Every step keeps the counters in agreement with the stacks.
LEMMA CountedStep ==
  ASSUME CInv, CInv', Counted, [Next]_vars PROVE Counted'
<1>1. CASE UNCHANGED vars \/ (\E a \in Arenas : Alloc(a)) \/ IncrementGeneration
  <2>1. UNCHANGED <<head, next, count, th>>
    BY <1>1 DEF vars, Alloc, IncrementGeneration
  <2> QED BY <2>1 DEF Counted, CountedAt, CountDue, Stack, Agree
<1>2. ASSUME NEW t \in Threads, PushLink(t) PROVE Counted'
  <2>1. PICK q \in ThreadType : q = th[t]
    BY Locally
  <2>2. PICK x \in Blocks : x = q.blk
    BY <1>2, <2>1, Locally DEF PushLink, At, Local, PushSteps
  <2>3. /\ q.pc = "push link" /\ next' = [next EXCEPT ![x] = q.h] /\ head' = head /\ count' = count
        /\ GoTo(t, [q EXCEPT !.pc = "push swap"])
    BY <1>2, <2>1, <2>2 DEF PushLink, At, Locals
  <2>4. \A p \in Pools : ~ Listed(Stack(p), x)
    <3>1. PICK o \in Pools : o = q.pool
      BY DEF ThreadType
    <3>2. x \in Pushing(o)
      BY <2>1, <2>2, <2>3, <3>1, Holders DEF PushOf, PushSteps
    <3> QED BY <3>2, InPushOnly DEF CInv
  <2>5. \A p \in Pools : Stack(p)' = Stack(p)
    BY <2>3, <2>4, LinkStacks DEF CInv
  <2>6. Moves(t) /\ th'[t].pc \notin Counters
    BY <2>1, <2>3 DEF GoTo, Moves, CInv, TInv, ThreadsOK, ThreadType, Counters
  <2>7. th[t].pc \notin Counters
    BY <2>1, <2>3 DEF Counters
  <2> QED BY <2>3, <2>5, <2>6, <2>7, CountedQuiet DEF CInv
<1>3. ASSUME NEW t \in Threads, Work(t) PROVE Counted'
  <2>1. TInv'
    BY DEF CInv
  <2>2. CASE PopHead(t) \/ PopNext(t) \/ PopSwap(t) \/ SafeHead(t) \/ SafeCheck(t) \/ SafeNext(t)
    BY <2>2, <2>1, CountedReads, CountedSwaps DEF CountsNothing
  <2>3. CASE SafeStore(t) \/ CountDown(t) \/ CountUp(t)
    BY <2>3, CountedSwaps
  <2>4. CASE Wash(t) \/ PushHead(t) \/ PushSwap(t)
    BY <2>4, <2>1, CountedReads, CountedSwaps DEF CountsNothing
  <2> QED BY <1>2, <1>3, <2>2, <2>3, <2>4 DEF Work
<1>4. ASSUME NEW t \in Threads, NEW a \in Arenas,
             \/ StartSanitize(t)
             \/ \E tier \in Tiers : OpenArena(t, a, tier)
             \/ CloseTrusted(t, a) \/ CloseUntrusted(t, a) \/ CloseAndZeroUntrusted(t, a)
      PROVE  Counted'
  BY <1>4, CountedReads DEF CInv, CountsNothing
<1>5. ASSUME NEW t \in Threads, StartSanitize(t) PROVE Counted'
  BY <1>5, CountedReads DEF CInv, CountsNothing
<1> QED BY <1>1, <1>3, <1>4, <1>5 DEF Next

\* In the beginning all blocks are on the common stack, and counted.
LEMMA CountedInit == Init => Counted
<1> SUFFICES ASSUME Init PROVE Counted
  OBVIOUS
<1>1. ASSUME NEW p \in Pools, NEW pc \in Counters PROVE CountDue(p, pc) = {}
  BY DEF Init, Resting, CountDue, Counters
<1>2. Len(Stack("common")) = BlockCount /\ \A p \in Pools : p # "common" => Stack(p) = << >>
  <2>1. [p \in Pools |-> Stack(p)] =
          [p \in Pools |-> IF p = "common" THEN [i \in Blocks |-> i] ELSE << >>]
    BY PoolsInit, SameNames DEF Life!Init
  <2>2. Stack("common") = [i \in Blocks |-> i]
    <3>1. PICK c \in Pools : c = "common"
      BY DEF Pools
    <3>2. Stack(c) = [i \in Blocks |-> i]
      BY <2>1, <3>1
    <3> QED BY <3>1, <3>2
  <2>3. Len([i \in Blocks |-> i]) = BlockCount
    BY Bounds DEF Blocks
  <2>4. ASSUME NEW p \in Pools, p # "common" PROVE Stack(p) = << >>
    BY <2>1, <2>4
  <2> QED BY <2>2, <2>3, <2>4
<1>3. Agree(BlockCount % CountMod, 0, BlockCount, 0) /\ Agree(0, 0, 0, 0)
  <2>1. \A b \in Nat, m \in Nat \ {0} : ((b % m) + 0) % m = (b + 0) % m
    <3> SUFFICES ASSUME NEW b \in Nat, NEW m \in Nat \ {0} PROVE ((b % m) + 0) % m = (b + 0) % m
      OBVIOUS
    <3>1. b % m \in 0 .. m - 1 /\ b = m * (b \div m) + (b % m) /\ b \div m \in Nat
      BY Division
    <3>2. PICK n \in Nat, j \in Nat : n = b % m /\ j = b \div m
      BY <3>1
    <3>3. b = n + m * j
      BY <3>1, <3>2
    <3>4. \E k \in Int : b = n + m * k
      BY <3>3
    <3>5. b % m = n % m
      BY <3>4, SameRemainder
    <3> QED BY <3>2, <3>5
  <2> QED BY <2>1, Bounds DEF Agree
<1>4. ASSUME NEW p \in Pools PROVE CountedAt(p)
  <2>1. count[p] = IF p = "common" THEN BlockCount % CountMod ELSE 0
    BY <1>4 DEF Init
  <2>2. IsFiniteSet({}) /\ Cardinality({}) = 0 /\ Len(<< >>) = 0
    BY FS_EmptySet
  <2>3. \A pc \in Counters : CountDue(p, pc) = {}
    BY <1>1
  <2>4. CASE p = "common"
    BY <1>2, <1>3, <2>1, <2>2, <2>3, <2>4 DEF CountedAt, Counters
  <2>5. CASE p # "common"
    BY <1>2, <1>3, <2>1, <2>2, <2>3, <2>5 DEF CountedAt, Counters
  <2> QED BY <2>4, <2>5
<1> QED BY <1>4 DEF Counted

\* A counter of free blocks differs from the length of its stack by the
\* updates that are still due, and by nothing else, whatever the order in
\* which the threads swap and count, and although a counter wraps around: what
\* CommonPool, QuarantinePool and L2Pool add and subtract after each swap adds
\* up.
THEOREM CountersBalance == SafeUse => (Spec => []CountsBalance)
<1>1. Init => Counted
  BY CountedInit
<1>2. CInv /\ SafeUse /\ Counted /\ [Next]_vars => Counted'
  BY PoolsStep, CountedStep
<1>3. Counted => CountsBalance
  BY DEF Counted, CountedAt, Agree, CountsBalance
<1> QED BY <1>1, <1>2, <1>3, PoolsInvariant, PTL DEF Spec

=============================================================================
