---------------------------- MODULE CommonLemmas ----------------------------
(***************************************************************************)
(* Lemmas for several components: induction on the natural numbers over    *)
(* sets, which the proofs about recursive functions rest on, what Kept     *)
(* keeps of a list, and division, for counters that wrap around.           *)
(***************************************************************************)
EXTENDS Integers, Lists, FiniteSetTheorems, TLAPS

-----------------------------------------------------------------------------
(* Induction                                                               *)

\* A set of natural numbers has a least one.
LEMMA Least ==
  ASSUME NEW T, T \subseteq Nat, T # {} PROVE \E n \in T : \A m \in T : n <= m
<1> DEFINE R == OpToRel(<, Nat)
<1>1. \A m, n \in Nat : m < n => <<m, n>> \in R
  BY DEF OpToRel
<1>2. IsWellFoundedOn(R, Nat)
  BY NatLessThanWellFounded
<1> HIDE DEF R
<1>3. PICK n \in T : \A m \in T : ~ (<<m, n>> \in R)
  BY <1>2, WFMin
<1>4. \A m \in T : ~ (m < n)
  BY <1>1, <1>3
<1>5. \A m \in T : m \in Nat /\ n \in Nat
  OBVIOUS
<1>6. \A m \in T : n <= m
  BY <1>4, <1>5
<1> QED BY <1>6

\* A set that zero is in, and with each number the next one, has them all.
LEMMA OneByOne ==
  ASSUME NEW A, 0 \in A, \A n \in Nat : n \in A => n + 1 \in A PROVE Nat \subseteq A
<1> SUFFICES ASSUME Nat \ A # {} PROVE FALSE
  OBVIOUS
<1>1. PICK n \in Nat \ A : \A m \in Nat \ A : n <= m
  BY Least
<1>2. n # 0 /\ n - 1 \in Nat /\ (n - 1) + 1 = n
  BY <1>1
<1>3. n - 1 \in A
  BY <1>1, <1>2
<1> QED BY <1>1, <1>2, <1>3

\* The same for the numbers up to N.
LEMMA UpTo ==
  ASSUME NEW N \in Nat, NEW A, 0 \in A, \A n \in 1 .. N : n - 1 \in A => n \in A
  PROVE  0 .. N \subseteq A
<1> DEFINE B == {n \in Nat : n <= N => n \in A}
<1>1. ASSUME NEW n \in Nat, n \in B PROVE n + 1 \in B
  <2>1. n + 1 <= N => n + 1 \in 1 .. N /\ (n + 1) - 1 = n /\ n <= N
    OBVIOUS
  <2> QED BY <1>1, <2>1
<1>2. Nat \subseteq B
  <2>1. 0 \in B
    OBVIOUS
  <2> HIDE DEF B
  <2> QED BY <1>1, <2>1, OneByOne
<1> QED BY <1>2

\* A set of sequences that the empty one is in, and with each sequence those
\* that have one entry more, has them all.
LEMMA EntryByEntry ==
  ASSUME NEW S, NEW Q, << >> \in Q,
         \A s \in Seq(S) : \A x \in S : s \in Q => Append(s, x) \in Q
  PROVE  Seq(S) \subseteq Q
<1> DEFINE A == {n \in Nat : \A s \in Seq(S) : Len(s) = n => s \in Q}
<1>1. 0 \in A
  <2>1. \A s \in Seq(S) : Len(s) = 0 => s = << >>
    OBVIOUS
  <2> QED BY <2>1
<1>2. ASSUME NEW n \in Nat, n \in A PROVE n + 1 \in A
  <2> SUFFICES ASSUME NEW s \in Seq(S), Len(s) = n + 1 PROVE s \in Q
    OBVIOUS
  <2> DEFINE t == [i \in 1 .. n |-> s[i]]
  <2>1. t \in Seq(S) /\ Len(t) = n /\ s[n + 1] \in S
    OBVIOUS
  <2>2. s = Append(t, s[n + 1])
    OBVIOUS
  <2> HIDE DEF t
  <2>3. t \in Q
    BY <1>2, <2>1
  <2> QED BY <2>1, <2>2, <2>3
<1>3. Nat \subseteq A
  <2> HIDE DEF A
  <2> QED BY <1>1, <1>2, OneByOne
<1>4. ASSUME NEW s \in Seq(S) PROVE s \in Q
  <2>1. Len(s) \in A
    BY <1>3
  <2> QED BY <2>1
<1> QED BY <1>4

\* A first value, and how each of N others follows from the one before it,
\* define a function.
LEMMA Recursion ==
  ASSUME NEW S, NEW base \in S, NEW N \in Nat, NEW G \in [1 .. N -> [S -> S]]
  PROVE  \E f \in [0 .. N -> S] : f[0] = base /\ \A n \in 1 .. N : f[n] = G[n][f[n - 1]]
<1> DEFINE Good(f, k) == /\ f \in [0 .. k -> S] /\ f[0] = base
                         /\ \A n \in 1 .. k : f[n] = G[n][f[n - 1]]
           A == {k \in Nat : \E f : Good(f, k)}
<1>1. 0 \in A
  <2>1. Good([n \in 0 .. 0 |-> base], 0)
    OBVIOUS
  <2> QED BY <2>1
<1>2. ASSUME NEW k \in 1 .. N, k - 1 \in A PROVE k \in A
  <2>1. PICK f : Good(f, k - 1)
    <3> HIDE DEF Good
    <3> QED BY <1>2
  <2> DEFINE x == G[k][f[k - 1]]
             g == [n \in 0 .. k |-> IF n = k THEN x ELSE f[n]]
  <2>2. x \in S
    <3>1. f[k - 1] \in S
      BY <2>1
    <3> QED BY <3>1
  <2> HIDE DEF x
  <2>3. g \in [0 .. k -> S]
    BY <2>1, <2>2
  <2>4. g[0] = base /\ g[k] = x /\ \A n \in 0 .. k - 1 : g[n] = f[n]
    BY <2>1
  <2> HIDE DEF g
  <2>5. ASSUME NEW n \in 1 .. k PROVE g[n] = G[n][g[n - 1]]
    <3>1. CASE n = k
      BY <2>4, <3>1 DEF x
    <3>2. CASE n # k
      <4>1. n \in 1 .. k - 1 /\ n \in 0 .. k - 1 /\ n - 1 \in 0 .. k - 1
        BY <3>2
      <4> QED BY <2>1, <2>4, <4>1
    <3> QED BY <3>1, <3>2
  <2>6. Good(g, k)
    BY <2>3, <2>4, <2>5
  <2> QED BY <2>6
<1>3. N \in A
  <2>1. 0 .. N \subseteq A
    <3> HIDE DEF A
    <3> QED BY <1>1, <1>2, UpTo
  <2> QED BY <2>1
<1> QED BY <1>3

\* Two functions that begin alike, and go on alike as long as they are alike,
\* end alike.
LEMMA SameEnd ==
  ASSUME NEW N \in Nat, NEW f, NEW g, f[0] = g[0],
         \A n \in 1 .. N : f[n - 1] = g[n - 1] => f[n] = g[n]
  PROVE  f[N] = g[N]
<1> DEFINE A == {n \in Nat : f[n] = g[n]}
<1>1. 0 .. N \subseteq A
  <2>1. 0 \in A /\ \A n \in 1 .. N : n - 1 \in A => n \in A
    OBVIOUS
  <2> HIDE DEF A
  <2> QED BY <2>1, UpTo
<1> QED BY <1>1

-----------------------------------------------------------------------------
(* What Kept keeps                                                         *)

\* The list after one more entry.
OneMore(before, x, keep) == IF x \in keep THEN Append(before, x) ELSE before

\* Kept is what is left after the last entry.
LEMMA KeptSteps ==
  ASSUME NEW S, NEW list \in Seq(S), NEW keep
  PROVE  \E f \in [0 .. Len(list) -> Seq(S)] :
           /\ f[0] = << >> /\ \A n \in 1 .. Len(list) : f[n] = OneMore(f[n - 1], list[n], keep)
           /\ Kept(list, keep) = f[Len(list)]
<1> DEFINE N == Len(list)
           Eq(f) == f = [n \in 0 .. N |->
                           IF n = 0 THEN << >>
                           ELSE IF list[n] \in keep THEN Append(f[n - 1], list[n]) ELSE f[n - 1]]
           F == CHOOSE f : Eq(f)
           G == [n \in 1 .. N |-> [s \in Seq(S) |-> OneMore(s, list[n], keep)]]
<1>1. Kept(list, keep) = F[N] /\ N \in Nat
  BY DEF Kept
<1>2. ASSUME NEW n \in 1 .. N, NEW s \in Seq(S) PROVE OneMore(s, list[n], keep) \in Seq(S)
  BY DEF OneMore
<1>3. G \in [1 .. N -> [Seq(S) -> Seq(S)]]
  BY <1>2
<1>4. PICK g \in [0 .. N -> Seq(S)] : g[0] = << >> /\ \A n \in 1 .. N : g[n] = G[n][g[n - 1]]
  <2> DEFINE T    == Seq(S)
             base == << >>
  <2>1. base \in T /\ G \in [1 .. N -> [T -> T]] /\ N \in Nat
    BY <1>3
  <2> HIDE DEF G, N, T, base
  <2>2. \E g \in [0 .. N -> T] : g[0] = base /\ \A n \in 1 .. N : g[n] = G[n][g[n - 1]]
    BY <2>1, Recursion
  <2> QED BY <2>2 DEF T, base
<1>5. ASSUME NEW n \in 1 .. N PROVE g[n] = OneMore(g[n - 1], list[n], keep)
  <2>1. g[n - 1] \in Seq(S)
    BY <1>1
  <2> QED BY <1>4, <2>1
<1>6. Eq(g)
  <2>1. \A n \in 0 .. N : n # 0 => n \in 1 .. N
    OBVIOUS
  <2> QED BY <1>4, <1>5, <2>1 DEF OneMore
<1>7. Eq(F)
  <2> HIDE DEF Eq
  <2> QED BY <1>6
<1> HIDE DEF F
<1>8. F[N] = g[N]
  <2>1. F[0] = << >>
    <3>1. 0 \in 0 .. N
      BY <1>1
    <3> QED BY <1>7, <3>1
  <2>2. ASSUME NEW n \in 1 .. N PROVE F[n] = OneMore(F[n - 1], list[n], keep)
    <3>1. n \in 0 .. N /\ n # 0
      OBVIOUS
    <3> QED BY <1>7, <3>1 DEF OneMore
  <2>3. F[0] = g[0] /\ \A n \in 1 .. N : F[n - 1] = g[n - 1] => F[n] = g[n]
    BY <1>4, <1>5, <2>1, <2>2
  <2> HIDE DEF Eq, N, G
  <2> QED BY <1>1, <2>3, SameEnd
<1> QED BY <1>1, <1>4, <1>5, <1>8

\* A sequence with one more entry.
LEMMA Appended ==
  ASSUME NEW S, NEW s \in Seq(S), NEW x \in S
  PROVE  /\ Append(s, x) \in Seq(S) /\ Len(s) \in Nat /\ Len(Append(s, x)) = Len(s) + 1
         /\ DOMAIN s = 1 .. Len(s) /\ DOMAIN Append(s, x) = 1 .. Len(s) + 1
         /\ Append(s, x)[Len(s) + 1] = x
         /\ \A i \in 1 .. Len(s) : Append(s, x)[i] = s[i]
OBVIOUS

\* Kept is a list of the same kind.
LEMMA KeptTyped ==
  ASSUME NEW S, NEW list \in Seq(S), NEW keep PROVE Kept(list, keep) \in Seq(S)
<1>1. PICK f \in [0 .. Len(list) -> Seq(S)] : Kept(list, keep) = f[Len(list)]
  BY KeptSteps
<1> QED BY <1>1

\* Nothing is kept of nothing.
LEMMA KeptEmpty ==
  ASSUME NEW keep PROVE Kept(<< >>, keep) = << >>
<1>1. ASSUME NEW S, NEW list \in Seq(S), Len(list) = 0 PROVE Kept(list, keep) = << >>
  <2>1. PICK f \in [0 .. Len(list) -> Seq(S)] : f[0] = << >> /\ Kept(list, keep) = f[Len(list)]
    BY KeptSteps
  <2> QED BY <1>1, <2>1
<1>2. << >> \in Seq({1}) /\ Len(<< >>) = 0
  OBVIOUS
<1> QED BY <1>1, <1>2, Zenon

\* The last entry decides for itself.
LEMMA KeptAppend ==
  ASSUME NEW S, NEW list \in Seq(S), NEW x \in S, NEW keep
  PROVE  Kept(Append(list, x), keep) = OneMore(Kept(list, keep), x, keep)
<1> DEFINE N    == Len(list)
           more == Append(list, x)
<1>1. /\ more \in Seq(S) /\ N \in Nat /\ Len(more) = N + 1 /\ more[N + 1] = x
      /\ \A i \in 1 .. N : more[i] = list[i]
  OBVIOUS
<1>2. PICK f : /\ f[0] = << >> /\ \A n \in 1 .. N : f[n] = OneMore(f[n - 1], list[n], keep)
               /\ Kept(list, keep) = f[N]
  BY KeptSteps
<1> HIDE DEF more
<1>3. PICK g : /\ g[0] = << >>
               /\ \A n \in 1 .. Len(more) : g[n] = OneMore(g[n - 1], more[n], keep)
               /\ Kept(more, keep) = g[Len(more)]
  BY <1>1, KeptSteps
<1>4. f[N] = g[N]
  <2>1. \A n \in 1 .. N : n \in 1 .. Len(more)
    BY <1>1
  <2>2. f[0] = g[0] /\ \A n \in 1 .. N : f[n - 1] = g[n - 1] => f[n] = g[n]
    BY <1>1, <1>2, <1>3, <2>1
  <2> HIDE DEF N
  <2> QED BY <1>1, <2>2, SameEnd
<1>5. N + 1 \in 1 .. Len(more) /\ (N + 1) - 1 = N
  BY <1>1
<1> QED BY <1>1, <1>2, <1>3, <1>4, <1>5 DEF more

\* What s has is in keep and in list, and list has nothing else in keep.
Selects(s, list, keep) ==
  /\ \A i \in DOMAIN s : s[i] \in keep /\ \E j \in DOMAIN list : s[i] = list[j]
  /\ \A j \in DOMAIN list : list[j] \in keep => \E i \in DOMAIN s : s[i] = list[j]

\* Kept keeps the entries of the list that are in the set, and these alone.
LEMMA KeptSelects ==
  ASSUME NEW S, NEW list \in Seq(S), NEW keep PROVE Selects(Kept(list, keep), list, keep)
<1> DEFINE Q == {s \in Seq(S) : Selects(Kept(s, keep), s, keep)}
<1>1. << >> \in Q
  BY KeptEmpty DEF Selects
<1>2. ASSUME NEW s \in Seq(S), NEW x \in S, s \in Q PROVE Append(s, x) \in Q
  <2> DEFINE more == Append(s, x)
  <2>1. PICK k \in Seq(S) : k = Kept(s, keep)
    BY KeptTyped
  <2>2. /\ \A i \in DOMAIN k : k[i] \in keep /\ \E j \in DOMAIN s : k[i] = s[j]
        /\ \A j \in DOMAIN s : s[j] \in keep => \E i \in DOMAIN k : k[i] = s[j]
    BY <1>2, <2>1 DEF Selects
  <2>3. /\ more \in Seq(S) /\ Len(s) \in Nat /\ DOMAIN s = 1 .. Len(s)
        /\ DOMAIN more = 1 .. Len(s) + 1 /\ more[Len(s) + 1] = x
        /\ \A i \in 1 .. Len(s) : more[i] = s[i]
    BY Appended
  <2> HIDE DEF more
  <2>4. CASE x \notin keep
    <3>1. Kept(more, keep) = k
      BY <2>1, <2>4, KeptAppend DEF OneMore, more
    <3>2. \A i \in DOMAIN k : k[i] \in keep /\ \E j \in DOMAIN more : k[i] = more[j]
      BY <2>2, <2>3
    <3>3. ASSUME NEW j \in DOMAIN more, more[j] \in keep PROVE \E i \in DOMAIN k : k[i] = more[j]
      <4>1. j \in 1 .. Len(s)
        BY <2>3, <2>4, <3>3
      <4> QED BY <2>2, <2>3, <3>3, <4>1
    <3>4. Selects(Kept(more, keep), more, keep)
      BY <3>1, <3>2, <3>3 DEF Selects
    <3> QED BY <2>3, <3>4 DEF more
  <2>5. CASE x \in keep
    <3>1. PICK r : r = Append(k, x)
      OBVIOUS
    <3>2. Kept(more, keep) = r
      BY <2>1, <2>5, <3>1, KeptAppend DEF OneMore, more
    <3>3. /\ Len(k) \in Nat /\ DOMAIN k = 1 .. Len(k) /\ DOMAIN r = 1 .. Len(k) + 1
          /\ r[Len(k) + 1] = x /\ \A i \in 1 .. Len(k) : r[i] = k[i]
      BY <3>1
    <3>4. ASSUME NEW i \in DOMAIN r PROVE r[i] \in keep /\ \E j \in DOMAIN more : r[i] = more[j]
      <4>1. CASE i = Len(k) + 1
        <5>1. Len(s) + 1 \in DOMAIN more
          BY <2>3
        <5> QED BY <2>3, <2>5, <3>3, <4>1, <5>1
      <4>2. CASE i # Len(k) + 1
        <5>1. i \in DOMAIN k
          BY <3>3, <4>2
        <5>2. k[i] \in keep /\ \E j \in DOMAIN s : k[i] = s[j]
          BY <2>2, <5>1
        <5> QED BY <2>3, <3>3, <5>1, <5>2
      <4> QED BY <4>1, <4>2
    <3>5. ASSUME NEW j \in DOMAIN more, more[j] \in keep PROVE \E i \in DOMAIN r : r[i] = more[j]
      <4>1. CASE j = Len(s) + 1
        <5>1. Len(k) + 1 \in DOMAIN r
          BY <3>3
        <5> QED BY <2>3, <3>3, <4>1, <5>1
      <4>2. CASE j # Len(s) + 1
        <5>1. j \in DOMAIN s /\ more[j] = s[j]
          BY <2>3, <4>2
        <5>2. \E i \in DOMAIN k : k[i] = s[j]
          BY <2>2, <3>5, <5>1
        <5> QED BY <3>3, <5>1, <5>2
      <4> QED BY <4>1, <4>2
    <3>6. Selects(Kept(more, keep), more, keep)
      BY <3>2, <3>4, <3>5 DEF Selects
    <3> QED BY <2>3, <3>6 DEF more
  <2> QED BY <2>4, <2>5
<1>3. Seq(S) \subseteq Q
  <2> HIDE DEF Q
  <2> QED BY <1>1, <1>2, EntryByEntry
<1> QED BY <1>3

\* Two entries of s, in their order, are two entries of list in that order.
Follows(s, list) ==
  \A i, j \in DOMAIN s : i < j =>
    \E a, b \in DOMAIN list : a < b /\ s[i] = list[a] /\ s[j] = list[b]

\* Kept keeps the order.
LEMMA KeptFollows ==
  ASSUME NEW S, NEW list \in Seq(S), NEW keep PROVE Follows(Kept(list, keep), list)
<1> DEFINE Q == {s \in Seq(S) : Follows(Kept(s, keep), s)}
<1>1. << >> \in Q
  BY KeptEmpty DEF Follows
<1>2. ASSUME NEW s \in Seq(S), NEW x \in S, s \in Q PROVE Append(s, x) \in Q
  <2> DEFINE more == Append(s, x)
  <2>1. PICK k \in Seq(S) : k = Kept(s, keep)
    BY KeptTyped
  <2>2. /\ \A i \in DOMAIN k : \E j \in DOMAIN s : k[i] = s[j]
        /\ \A i, j \in DOMAIN k : i < j =>
             \E a, b \in DOMAIN s : a < b /\ k[i] = s[a] /\ k[j] = s[b]
    BY <1>2, <2>1, KeptSelects DEF Selects, Follows
  <2>3. /\ more \in Seq(S) /\ Len(s) \in Nat /\ DOMAIN s = 1 .. Len(s)
        /\ DOMAIN more = 1 .. Len(s) + 1 /\ more[Len(s) + 1] = x
        /\ \A i \in 1 .. Len(s) : more[i] = s[i]
    BY Appended
  <2> HIDE DEF more
  <2>4. ASSUME NEW i \in DOMAIN k, NEW j \in DOMAIN k, i < j
        PROVE  \E a, b \in DOMAIN more : a < b /\ k[i] = more[a] /\ k[j] = more[b]
    <3>1. PICK a, b \in DOMAIN s : a < b /\ k[i] = s[a] /\ k[j] = s[b]
      BY <2>2, <2>4
    <3>2. a \in DOMAIN more /\ b \in DOMAIN more /\ more[a] = s[a] /\ more[b] = s[b]
      BY <2>3
    <3> QED BY <3>1, <3>2
  <2>5. CASE x \notin keep
    <3>1. Kept(more, keep) = k
      BY <2>1, <2>5, KeptAppend DEF OneMore, more
    <3>2. Follows(Kept(more, keep), more)
      BY <2>4, <3>1 DEF Follows
    <3> QED BY <2>3, <3>2 DEF more
  <2>6. CASE x \in keep
    <3>1. PICK r : r = Append(k, x)
      OBVIOUS
    <3>2. Kept(more, keep) = r
      BY <2>1, <2>6, <3>1, KeptAppend DEF OneMore, more
    <3>3. /\ Len(k) \in Nat /\ DOMAIN k = 1 .. Len(k) /\ DOMAIN r = 1 .. Len(k) + 1
          /\ r[Len(k) + 1] = x /\ \A i \in 1 .. Len(k) : r[i] = k[i]
      BY <3>1
    <3>4. ASSUME NEW i \in DOMAIN r, NEW j \in DOMAIN r, i < j
          PROVE  \E a, b \in DOMAIN more : a < b /\ r[i] = more[a] /\ r[j] = more[b]
      <4>1. i \in DOMAIN k /\ r[i] = k[i]
        BY <3>3, <3>4
      <4>2. CASE j \in DOMAIN k
        BY <2>4, <3>3, <3>4, <4>1, <4>2
      <4>3. CASE j \notin DOMAIN k
        <5>1. j = Len(k) + 1
          BY <3>3, <4>3
        <5>2. PICK a \in DOMAIN s : k[i] = s[a]
          BY <2>2, <4>1
        <5>3. /\ a \in DOMAIN more /\ Len(s) + 1 \in DOMAIN more /\ a < Len(s) + 1
              /\ more[a] = s[a]
          BY <2>3
        <5> QED BY <2>3, <3>3, <4>1, <5>1, <5>2, <5>3
      <4> QED BY <4>2, <4>3
    <3>5. Follows(Kept(more, keep), more)
      BY <3>2, <3>4 DEF Follows
    <3> QED BY <2>3, <3>5 DEF more
  <2> QED BY <2>5, <2>6
<1>3. Seq(S) \subseteq Q
  <2> HIDE DEF Q
  <2> QED BY <1>1, <1>2, EntryByEntry
<1> QED BY <1>3

\* No entry comes twice.
Unrepeated(list) == \A i, j \in DOMAIN list : list[i] = list[j] => i = j

\* Kept repeats nothing that the list does not repeat.
LEMMA KeptUnrepeated ==
  ASSUME NEW S, NEW list \in Seq(S), NEW keep, Unrepeated(list)
  PROVE  Unrepeated(Kept(list, keep))
<1>1. PICK k \in Seq(S) : k = Kept(list, keep)
  BY KeptTyped
<1>2. ASSUME NEW i \in DOMAIN k, NEW j \in DOMAIN k, i < j PROVE k[i] # k[j]
  <2>1. PICK a, b \in DOMAIN list : a < b /\ k[i] = list[a] /\ k[j] = list[b]
    BY <1>1, <1>2, KeptFollows DEF Follows
  <2>2. a # b
    BY <2>1
  <2> QED BY <2>1, <2>2 DEF Unrepeated
<1>3. \A i, j \in DOMAIN k : i = j \/ i < j \/ j < i
  OBVIOUS
<1> QED BY <1>1, <1>2, <1>3 DEF Unrepeated

\* All is kept when all are in the set.
LEMMA KeptAll ==
  ASSUME NEW S, NEW list \in Seq(S), NEW keep, \A i \in DOMAIN list : list[i] \in keep
  PROVE  Kept(list, keep) = list
<1> DEFINE Q == {s \in Seq(S) : (\A i \in DOMAIN s : s[i] \in keep) => Kept(s, keep) = s}
<1>1. << >> \in Q
  BY KeptEmpty
<1>2. ASSUME NEW s \in Seq(S), NEW x \in S, s \in Q PROVE Append(s, x) \in Q
  <2> SUFFICES ASSUME \A i \in DOMAIN Append(s, x) : Append(s, x)[i] \in keep
               PROVE  Kept(Append(s, x), keep) = Append(s, x)
    BY Appended
  <2>1. /\ Len(s) \in Nat /\ DOMAIN s = 1 .. Len(s) /\ DOMAIN Append(s, x) = 1 .. Len(s) + 1
        /\ Append(s, x)[Len(s) + 1] = x /\ \A i \in 1 .. Len(s) : Append(s, x)[i] = s[i]
    BY Appended
  <2>2. x \in keep
    <3>1. Len(s) + 1 \in DOMAIN Append(s, x)
      BY <2>1
    <3> QED BY <2>1, <3>1
  <2>3. \A i \in DOMAIN s : s[i] \in keep
    <3>1. \A i \in DOMAIN s : i \in DOMAIN Append(s, x)
      BY <2>1
    <3> QED BY <2>1, <3>1
  <2>4. Kept(s, keep) = s
    BY <1>2, <2>3
  <2> QED BY <2>2, <2>4, KeptAppend DEF OneMore
<1>3. Seq(S) \subseteq Q
  <2> HIDE DEF Q
  <2> QED BY <1>1, <1>2, EntryByEntry
<1> QED BY <1>3

\* Nothing is kept when none is in the set.
LEMMA KeptNone ==
  ASSUME NEW S, NEW list \in Seq(S), NEW keep, \A i \in DOMAIN list : list[i] \notin keep
  PROVE  Kept(list, keep) = << >>
<1>1. PICK k \in Seq(S) : k = Kept(list, keep)
  BY KeptTyped
<1>2. ASSUME Len(k) > 0 PROVE FALSE
  <2>1. 1 \in DOMAIN k
    BY <1>2
  <2> QED BY <1>1, <2>1, KeptSelects DEF Selects
<1>3. Len(k) = 0
  BY <1>2
<1> QED BY <1>1, <1>3

\* The first entry stays the first when it is kept.
LEMMA KeptHead ==
  ASSUME NEW S, NEW list \in Seq(S), NEW keep, list # << >>, list[1] \in keep
  PROVE  Kept(list, keep) # << >> /\ Kept(list, keep)[1] = list[1]
<1>1. PICK k \in Seq(S) : k = Kept(list, keep)
  BY KeptTyped
<1>2. Len(list) \in Nat /\ Len(list) > 0 /\ 1 \in DOMAIN list
  OBVIOUS
<1>3. PICK f \in [0 .. Len(list) -> Seq(S)] :
        /\ f[0] = << >> /\ \A n \in 1 .. Len(list) : f[n] = OneMore(f[n - 1], list[n], keep)
        /\ Kept(list, keep) = f[Len(list)]
  BY KeptSteps
<1> DEFINE A == {n \in 0 .. Len(list) : n > 0 => f[n] # << >> /\ f[n][1] = list[1]}
<1>4. 0 \in A
  BY <1>2
<1>5. ASSUME NEW n \in 1 .. Len(list), n - 1 \in A PROVE n \in A
  <2>1. /\ f[n - 1] \in Seq(S) /\ n \in DOMAIN list /\ list[n] \in S /\ n \in 0 .. Len(list)
        /\ f[n] = OneMore(f[n - 1], list[n], keep)
    BY <1>2, <1>3
  <2>2. CASE n = 1
    <3>1. f[0] = << >> /\ f[1] = Append(f[0], list[1])
      BY <1>3, <2>1, <2>2 DEF OneMore
    <3>2. f[n] # << >> /\ f[n][1] = list[1]
      BY <2>1, <2>2, <3>1
    <3> QED BY <2>1, <3>2
  <2>3. CASE n # 1
    <3>1. f[n - 1] # << >> /\ f[n - 1][1] = list[1]
      BY <1>5, <2>3
    <3>2. PICK s \in Seq(S) : s = f[n - 1]
      BY <2>1
    <3>3. Append(s, list[n]) # << >> /\ Append(s, list[n])[1] = s[1]
      <4>1. PICK x \in S : x = list[n]
        BY <2>1
      <4>2. Len(s) \in Nat /\ Len(s) > 0
        BY <3>1, <3>2
      <4>3. 1 \in 1 .. Len(s) /\ Len(Append(s, x)) > 0
        BY <4>2, Appended
      <4>4. Append(s, x)[1] = s[1]
        BY <4>3, Appended
      <4>5. Append(s, x) # << >>
        BY <4>3
      <4> QED BY <4>1, <4>4, <4>5
    <3>4. f[n] # << >> /\ f[n][1] = list[1]
      BY <2>1, <3>1, <3>2, <3>3 DEF OneMore
    <3> QED BY <2>1, <3>4
  <2> QED BY <2>2, <2>3
<1>6. Len(list) \in A
  <2>1. 0 .. Len(list) \subseteq A
    <3> HIDE DEF A
    <3> QED BY <1>2, <1>4, <1>5, UpTo
  <2> QED BY <1>2, <2>1
<1> QED BY <1>2, <1>3, <1>6

\* To keep twice is to keep what is in both sets.
LEMMA KeptTwice ==
  ASSUME NEW S, NEW list \in Seq(S), NEW A, NEW B, NEW C,
         \A i \in DOMAIN list : list[i] \in C <=> list[i] \in A /\ list[i] \in B
  PROVE  Kept(Kept(list, A), B) = Kept(list, C)
<1> DEFINE Both(s) == \A i \in DOMAIN s : s[i] \in C <=> s[i] \in A /\ s[i] \in B
           Q == {s \in Seq(S) : Both(s) => Kept(Kept(s, A), B) = Kept(s, C)}
<1>1. << >> \in Q
  BY KeptEmpty
<1>2. ASSUME NEW s \in Seq(S), NEW x \in S, s \in Q PROVE Append(s, x) \in Q
  <2> SUFFICES ASSUME Both(Append(s, x))
               PROVE  Kept(Kept(Append(s, x), A), B) = Kept(Append(s, x), C)
    BY Appended
  <2>1. /\ Len(s) \in Nat /\ DOMAIN s = 1 .. Len(s) /\ DOMAIN Append(s, x) = 1 .. Len(s) + 1
        /\ Append(s, x)[Len(s) + 1] = x /\ \A i \in 1 .. Len(s) : Append(s, x)[i] = s[i]
    BY Appended
  <2>2. x \in C <=> x \in A /\ x \in B
    <3>1. Len(s) + 1 \in DOMAIN Append(s, x)
      BY <2>1
    <3> QED BY <2>1, <3>1
  <2>3. Both(s)
    <3>1. \A i \in DOMAIN s : i \in DOMAIN Append(s, x)
      BY <2>1
    <3> QED BY <2>1, <3>1
  <2>4. Kept(Kept(s, A), B) = Kept(s, C)
    BY <1>2, <2>3
  <2>5. PICK k \in Seq(S) : k = Kept(s, A)
    BY KeptTyped
  <2>6. Kept(Append(s, x), A) = OneMore(k, x, A) /\ Kept(Append(s, x), C) = OneMore(Kept(k, B), x, C)
    BY <2>4, <2>5, KeptAppend
  <2>7. Kept(Append(k, x), B) = OneMore(Kept(k, B), x, B)
    BY KeptAppend
  <2> QED BY <2>2, <2>6, <2>7 DEF OneMore
<1>3. Seq(S) \subseteq Q
  <2> HIDE DEF Q
  <2> QED BY <1>1, <1>2, EntryByEntry
<1> QED BY <1>3

-----------------------------------------------------------------------------
(* Division                                                                *)

\* Division with a remainder.
LEMMA Division ==
  ASSUME NEW m \in Nat \ {0}, NEW a \in Nat
  PROVE  a = m * (a \div m) + (a % m) /\ a \div m \in Nat /\ a % m \in 0 .. m - 1
OBVIOUS

\* There is one such remainder.
LEMMA OneRemainder ==
  ASSUME NEW m \in Nat \ {0}, NEW p \in Int, NEW q \in Int,
         NEW r \in 0 .. m - 1, NEW s \in 0 .. m - 1, m * p + r = m * q + s
  PROVE  r = s
OBVIOUS

\* Numbers that differ by a multiple of m have the same remainder, and only
\* these.
LEMMA SameRemainder ==
  ASSUME NEW m \in Nat \ {0}, NEW a \in Nat, NEW b \in Nat
  PROVE  a % m = b % m <=> \E k \in Int : a = b + m * k
<1> DEFINE r == a % m
           s == b % m
           p == a \div m
           q == b \div m
<1>1. /\ a = m * p + r /\ b = m * q + s
      /\ p \in Int /\ q \in Int /\ r \in 0 .. m - 1 /\ s \in 0 .. m - 1
  BY Division
<1> HIDE DEF r, s, p, q
<1>2. ASSUME NEW k \in Int, a = b + m * k PROVE r = s
  <2>1. m * p + r = m * (q + k) + s /\ q + k \in Int
    BY <1>1, <1>2
  <2> QED BY <1>1, <2>1, OneRemainder
<1>3. ASSUME r = s PROVE a = b + m * (p - q) /\ p - q \in Int
  BY <1>1, <1>3
<1>4. r = s <=> \E k \in Int : a = b + m * k
  BY <1>2, <1>3
<1> QED BY <1>4 DEF r, s

=============================================================================
