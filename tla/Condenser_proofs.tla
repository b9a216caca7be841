--------------------------- MODULE Condenser_proofs ---------------------------
(***************************************************************************)
(* Proofs about the condenser, for every set of kinds of messages, every   *)
(* setting and conversations of any length.                                *)
(***************************************************************************)
EXTENDS Condenser, CommonLemmas

-----------------------------------------------------------------------------
(* Conversations                                                           *)

\* No two messages were said at once.
Apart(msgs) == \A i, j \in DOMAIN msgs : msgs[i].said = msgs[j].said => i = j

Conversation(msgs) == msgs \in Seq(Messages) /\ Apart(msgs) /\ InOrder(msgs)

\* A selection of messages, in some order.
From(out, msgs) ==
  /\ out \in Seq(Messages) /\ Unrepeated(out)
  /\ \A i \in DOMAIN out : \E j \in DOMAIN msgs : out[i] = msgs[j]

\* Messages cost tokens, have times and scores.
LEMMA MessageTyped ==
  ASSUME NEW m \in Messages
  PROVE  /\ TokensOf(m) \in Nat /\ TokensOf(m) > 0 /\ TimeOf(m) \in Nat /\ m.said \in Nat
         /\ m.kind.importance \in Nat /\ Recency(m) \in Nat /\ Score(m) \in Nat
<1>1. m.kind \in Kinds /\ m.said \in 1 .. MaxMessages /\ MaxMessages \in Nat
  BY CondenserAssumption DEF Messages
<1>2. Granule \in Nat \ {0} /\ Weight \in Nat /\ m.said \in Nat
  BY <1>1, CondenserAssumption
<1>3. m.kind.tokens \in Nat \ {0} /\ m.kind.importance \in Nat /\ m.kind.time \in Nat
  BY <1>1, CondenserAssumption
<1>4. m.kind.time \div Granule \in Nat
  BY <1>2, <1>3, Division
<1>5. Weight * m.kind.importance \in Nat
  BY <1>2, <1>3
<1> QED BY <1>2, <1>3, <1>4, <1>5 DEF TokensOf, TimeOf, Recency, Score

\* A conversation repeats no message.
LEMMA ApartUnrepeated ==
  ASSUME NEW msgs, Apart(msgs) PROVE Unrepeated(msgs)
BY DEF Apart, Unrepeated

\* What is selected of a conversation was said by itself too.
LEMMA FromApart ==
  ASSUME NEW msgs, Apart(msgs), NEW out, From(out, msgs) PROVE Apart(out)
<1>1. ASSUME NEW i \in DOMAIN out, NEW j \in DOMAIN out, out[i].said = out[j].said PROVE i = j
  <2>1. PICK a \in DOMAIN msgs : out[i] = msgs[a]
    BY DEF From
  <2>2. PICK b \in DOMAIN msgs : out[j] = msgs[b]
    BY DEF From
  <2>3. a = b
    BY <1>1, <2>1, <2>2 DEF Apart
  <2> QED BY <2>1, <2>2, <2>3 DEF From, Unrepeated
<1> QED BY <1>1 DEF Apart

\* A conversation is selected of itself, and selections of selections are
\* selections.
LEMMA FromItself ==
  ASSUME NEW msgs, Conversation(msgs) PROVE From(msgs, msgs)
BY ApartUnrepeated DEF From, Conversation

\* Messages that keep their order stay in order.
LEMMA FollowsInOrder ==
  ASSUME NEW msgs, InOrder(msgs), NEW out, Follows(out, msgs) PROVE InOrder(out)
<1>1. ASSUME NEW i \in DOMAIN out, NEW j \in DOMAIN out,
             i < j, Protected(out[i]) <=> Protected(out[j])
      PROVE  MayLead(out[i], out[j])
  <2>1. PICK a, b \in DOMAIN msgs : a < b /\ out[i] = msgs[a] /\ out[j] = msgs[b]
    BY <1>1 DEF Follows
  <2> QED BY <1>1, <2>1 DEF InOrder
<1> QED BY <1>1 DEF InOrder

LEMMA FromFrom ==
  ASSUME NEW msgs, NEW some, NEW few, From(some, msgs), From(few, some) PROVE From(few, msgs)
BY DEF From

\* What is kept of a conversation is selected of it.
LEMMA KeptFrom ==
  ASSUME NEW msgs, Conversation(msgs), NEW keep PROVE From(Kept(msgs, keep), msgs)
<1>1. msgs \in Seq(Messages) /\ Unrepeated(msgs)
  BY ApartUnrepeated DEF Conversation
<1>2. /\ Kept(msgs, keep) \in Seq(Messages) /\ Unrepeated(Kept(msgs, keep))
      /\ Selects(Kept(msgs, keep), msgs, keep)
  BY <1>1, KeptTyped, KeptUnrepeated, KeptSelects
<1> QED BY <1>2 DEF From, Selects

\* It is a conversation.
LEMMA KeptConversation ==
  ASSUME NEW msgs, Conversation(msgs), NEW keep PROVE Conversation(Kept(msgs, keep))
<1>1. msgs \in Seq(Messages) /\ Apart(msgs) /\ InOrder(msgs)
  BY DEF Conversation
<1>2. From(Kept(msgs, keep), msgs) /\ Follows(Kept(msgs, keep), msgs)
  BY <1>1, KeptFrom, KeptFollows
<1> QED BY <1>1, <1>2, FromApart, FollowsInOrder DEF Conversation, From

-----------------------------------------------------------------------------
(* Tokens                                                                  *)

\* Tokens is what has been added up after the last message.
LEMMA TokensSteps ==
  ASSUME NEW msgs \in Seq(Messages)
  PROVE  \E f \in [0 .. Len(msgs) -> Nat] :
           /\ f[0] = 0 /\ \A n \in 1 .. Len(msgs) : f[n] = f[n - 1] + TokensOf(msgs[n])
           /\ Tokens(msgs) = f[Len(msgs)]
<1> DEFINE N == Len(msgs)
           Eq(f) == f = [n \in 0 .. N |-> IF n = 0 THEN 0 ELSE f[n - 1] + TokensOf(msgs[n])]
           F == CHOOSE f : Eq(f)
           G == [n \in 1 .. N |-> [k \in Nat |-> k + TokensOf(msgs[n])]]
<1>1. Tokens(msgs) = F[N] /\ N \in Nat
  BY DEF Tokens
<1>2. ASSUME NEW n \in 1 .. N, NEW k \in Nat PROVE k + TokensOf(msgs[n]) \in Nat
  <2>1. TokensOf(msgs[n]) \in Nat
    BY MessageTyped
  <2> QED BY <2>1
<1>3. G \in [1 .. N -> [Nat -> Nat]]
  BY <1>2
<1>4. PICK g \in [0 .. N -> Nat] : g[0] = 0 /\ \A n \in 1 .. N : g[n] = G[n][g[n - 1]]
  <2> DEFINE T    == Nat
             zero == 0
  <2>1. zero \in T /\ G \in [1 .. N -> [T -> T]]
    BY <1>3
  <2> HIDE DEF G, N, T, zero
  <2>2. \E g \in [0 .. N -> T] : g[0] = zero /\ \A n \in 1 .. N : g[n] = G[n][g[n - 1]]
    BY <1>1, <2>1, Recursion
  <2> QED BY <2>2 DEF T, zero
<1>5. ASSUME NEW n \in 1 .. N PROVE g[n] = g[n - 1] + TokensOf(msgs[n])
  <2>1. g[n - 1] \in Nat
    BY <1>1
  <2> QED BY <1>4, <2>1
<1>6. Eq(g)
  <2>1. \A n \in 0 .. N : n # 0 => n \in 1 .. N
    OBVIOUS
  <2> QED BY <1>4, <1>5, <2>1
<1>7. Eq(F)
  <2> HIDE DEF Eq
  <2> QED BY <1>6
<1> HIDE DEF F
<1>8. F[N] = g[N]
  <2>1. F[0] = 0
    <3>1. 0 \in 0 .. N
      BY <1>1
    <3> QED BY <1>7, <3>1
  <2>2. ASSUME NEW n \in 1 .. N PROVE F[n] = F[n - 1] + TokensOf(msgs[n])
    <3>1. n \in 0 .. N /\ n # 0
      OBVIOUS
    <3> QED BY <1>7, <3>1
  <2>3. F[0] = g[0] /\ \A n \in 1 .. N : F[n - 1] = g[n - 1] => F[n] = g[n]
    BY <1>4, <1>5, <2>1, <2>2
  <2> HIDE DEF Eq, N, G
  <2> QED BY <1>1, <2>3, SameEnd
<1> QED BY <1>1, <1>4, <1>5, <1>8

\* Tokens are natural numbers.
LEMMA TokensTyped ==
  ASSUME NEW msgs \in Seq(Messages) PROVE Tokens(msgs) \in Nat
<1>1. PICK f \in [0 .. Len(msgs) -> Nat] : Tokens(msgs) = f[Len(msgs)]
  BY TokensSteps
<1> QED BY <1>1

\* Nothing costs nothing.
LEMMA TokensEmpty == Tokens(<< >>) = 0
<1>1. ASSUME NEW msgs \in Seq(Messages), Len(msgs) = 0 PROVE Tokens(msgs) = 0
  <2>1. PICK f \in [0 .. Len(msgs) -> Nat] : f[0] = 0 /\ Tokens(msgs) = f[Len(msgs)]
    BY TokensSteps
  <2> QED BY <1>1, <2>1
<1>2. << >> \in Seq(Messages) /\ Len(<< >>) = 0
  OBVIOUS
<1> QED BY <1>1, <1>2, Zenon

\* One more message.
LEMMA TokensAppend ==
  ASSUME NEW msgs \in Seq(Messages), NEW m \in Messages
  PROVE  Tokens(Append(msgs, m)) = Tokens(msgs) + TokensOf(m)
<1> DEFINE N    == Len(msgs)
           more == Append(msgs, m)
<1>1. /\ more \in Seq(Messages) /\ N \in Nat /\ Len(more) = N + 1 /\ more[N + 1] = m
      /\ \A i \in 1 .. N : more[i] = msgs[i]
  BY Appended
<1>2. PICK f : /\ f[0] = 0 /\ \A n \in 1 .. N : f[n] = f[n - 1] + TokensOf(msgs[n])
               /\ Tokens(msgs) = f[N]
  BY TokensSteps
<1> HIDE DEF more
<1>3. PICK g : /\ g[0] = 0 /\ \A n \in 1 .. Len(more) : g[n] = g[n - 1] + TokensOf(more[n])
               /\ Tokens(more) = g[Len(more)]
  BY <1>1, TokensSteps
<1>4. f[N] = g[N]
  <2>1. \A n \in 1 .. N : n \in 1 .. Len(more)
    BY <1>1
  <2>2. f[0] = g[0] /\ \A n \in 1 .. N : f[n - 1] = g[n - 1] => f[n] = g[n]
    BY <1>1, <1>2, <1>3, <2>1
  <2> HIDE DEF N
  <2> QED BY <1>1, <2>2, SameEnd
<1>5. N + 1 \in 1 .. Len(more) /\ (N + 1) - 1 = N
  BY <1>1
<1> QED BY <1>1, <1>2, <1>3, <1>4, <1>5 DEF more

\* A sequence after another.
LEMMA Joined ==
  ASSUME NEW S, NEW s \in Seq(S), NEW t \in Seq(S)
  PROVE  /\ s \o t \in Seq(S) /\ Len(s) \in Nat /\ Len(t) \in Nat
         /\ DOMAIN s = 1 .. Len(s) /\ DOMAIN t = 1 .. Len(t)
         /\ DOMAIN (s \o t) = 1 .. Len(s) + Len(t) /\ Len(s \o t) = Len(s) + Len(t)
         /\ \A i \in DOMAIN s : (s \o t)[i] = s[i]
         /\ \A i \in DOMAIN t : (s \o t)[Len(s) + i] = t[i]
OBVIOUS

\* Each place of such a sequence is a place of the first or of the second.
LEMMA JoinedPlaces ==
  ASSUME NEW S, NEW s \in Seq(S), NEW t \in Seq(S), NEW i \in DOMAIN (s \o t)
  PROVE  \/ i \in DOMAIN s /\ (s \o t)[i] = s[i]
         \/ i - Len(s) \in DOMAIN t /\ i > Len(s) /\ (s \o t)[i] = t[i - Len(s)]
OBVIOUS

\* The tokens of both.
LEMMA TokensJoined ==
  ASSUME NEW s \in Seq(Messages), NEW t \in Seq(Messages)
  PROVE  Tokens(s \o t) = Tokens(s) + Tokens(t)
<1> DEFINE Q == {u \in Seq(Messages) : Tokens(s \o u) = Tokens(s) + Tokens(u)}
<1>1. << >> \in Q
  <2>1. s \o << >> = s /\ << >> \in Seq(Messages)
    OBVIOUS
  <2>2. Tokens(s) \in Nat
    BY TokensTyped
  <2>3. Tokens(s \o << >>) = Tokens(s) + Tokens(<< >>)
    BY <2>1, <2>2, TokensEmpty
  <2> QED BY <2>1, <2>3
<1>2. ASSUME NEW u \in Seq(Messages), NEW m \in Messages, u \in Q PROVE Append(u, m) \in Q
  <2>1. s \o Append(u, m) = Append(s \o u, m) /\ s \o u \in Seq(Messages)
    OBVIOUS
  <2>2. Tokens(Append(s \o u, m)) = Tokens(s \o u) + TokensOf(m)
    BY <2>1, TokensAppend
  <2>3. Tokens(Append(u, m)) = Tokens(u) + TokensOf(m)
    BY TokensAppend
  <2>4. Tokens(s) \in Nat /\ Tokens(u) \in Nat /\ TokensOf(m) \in Nat
    BY TokensTyped, MessageTyped
  <2>5. Tokens(s \o Append(u, m)) = Tokens(s) + Tokens(Append(u, m))
    BY <1>2, <2>1, <2>2, <2>3, <2>4
  <2> QED BY <2>5, Appended
<1>3. Seq(Messages) \subseteq Q
  <2> HIDE DEF Q
  <2> QED BY <1>1, <1>2, EntryByEntry
<1> QED BY <1>3

\* What is kept and what is not have the tokens of all.
LEMMA TokensKept ==
  ASSUME NEW msgs \in Seq(Messages), NEW A, NEW B,
         \A i \in DOMAIN msgs : msgs[i] \in A <=> msgs[i] \notin B
  PROVE  Tokens(msgs) = Tokens(Kept(msgs, A)) + Tokens(Kept(msgs, B))
<1> DEFINE Parts(s) == \A i \in DOMAIN s : s[i] \in A <=> s[i] \notin B
           Sum(s)   == Tokens(s) = Tokens(Kept(s, A)) + Tokens(Kept(s, B))
           Q == {s \in Seq(Messages) : Parts(s) => Sum(s)}
<1>1. << >> \in Q
  BY KeptEmpty, TokensEmpty
<1>2. ASSUME NEW s \in Seq(Messages), NEW m \in Messages, s \in Q PROVE Append(s, m) \in Q
  <2> SUFFICES ASSUME Parts(Append(s, m)) PROVE Sum(Append(s, m))
    BY Appended
  <2>1. /\ Len(s) \in Nat /\ DOMAIN s = 1 .. Len(s) /\ DOMAIN Append(s, m) = 1 .. Len(s) + 1
        /\ Append(s, m)[Len(s) + 1] = m /\ \A i \in 1 .. Len(s) : Append(s, m)[i] = s[i]
    BY Appended
  <2>2. m \in A <=> m \notin B
    <3>1. Len(s) + 1 \in DOMAIN Append(s, m)
      BY <2>1
    <3> QED BY <2>1, <3>1
  <2>3. Parts(s)
    <3>1. \A i \in DOMAIN s : i \in DOMAIN Append(s, m)
      BY <2>1
    <3> QED BY <2>1, <3>1
  <2>4. PICK a \in Seq(Messages) : a = Kept(s, A)
    BY KeptTyped
  <2>5. PICK b \in Seq(Messages) : b = Kept(s, B)
    BY KeptTyped
  <2>6. Tokens(s) = Tokens(a) + Tokens(b)
    BY <1>2, <2>3, <2>4, <2>5
  <2>7. /\ Tokens(Append(s, m)) = Tokens(s) + TokensOf(m)
        /\ Tokens(Append(a, m)) = Tokens(a) + TokensOf(m)
        /\ Tokens(Append(b, m)) = Tokens(b) + TokensOf(m)
        /\ Tokens(a) \in Nat /\ Tokens(b) \in Nat /\ TokensOf(m) \in Nat
    BY TokensAppend, TokensTyped, MessageTyped
  <2>8. Kept(Append(s, m), A) = OneMore(a, m, A) /\ Kept(Append(s, m), B) = OneMore(b, m, B)
    BY <2>4, <2>5, KeptAppend
  <2>9. CASE m \in A
    <3>1. Kept(Append(s, m), A) = Append(a, m) /\ Kept(Append(s, m), B) = b
      BY <2>2, <2>8, <2>9 DEF OneMore
    <3> QED BY <2>6, <2>7, <3>1
  <2>10. CASE m \notin A
    <3>1. Kept(Append(s, m), A) = a /\ Kept(Append(s, m), B) = Append(b, m)
      BY <2>2, <2>8, <2>10 DEF OneMore
    <3> QED BY <2>6, <2>7, <3>1
  <2> QED BY <2>9, <2>10
<1>3. Seq(Messages) \subseteq Q
  <2> HIDE DEF Q
  <2> QED BY <1>1, <1>2, EntryByEntry
<1> QED BY <1>3

\* What is kept costs no more.
LEMMA TokensKeptAtMost ==
  ASSUME NEW msgs \in Seq(Messages), NEW keep PROVE Tokens(Kept(msgs, keep)) <= Tokens(msgs)
<1> DEFINE rest == {m \in Messages : m \notin keep}
<1>1. \A i \in DOMAIN msgs : msgs[i] \in keep <=> msgs[i] \notin rest
  OBVIOUS
<1> HIDE DEF rest
<1>2. Tokens(msgs) = Tokens(Kept(msgs, keep)) + Tokens(Kept(msgs, rest))
  BY <1>1, TokensKept
<1>3. Tokens(Kept(msgs, keep)) \in Nat /\ Tokens(Kept(msgs, rest)) \in Nat
  BY KeptTyped, TokensTyped
<1> QED BY <1>2, <1>3

-----------------------------------------------------------------------------
(* What is in a sequence                                                   *)

LEMMA ToSetAppend ==
  ASSUME NEW S, NEW s \in Seq(S), NEW x \in S
  PROVE  ToSet(Append(s, x)) = ToSet(s) \cup {x}
<1> DEFINE more == Append(s, x)
<1>1. /\ Len(s) \in Nat /\ DOMAIN s = 1 .. Len(s) /\ DOMAIN more = 1 .. Len(s) + 1
      /\ more[Len(s) + 1] = x /\ \A i \in 1 .. Len(s) : more[i] = s[i]
  BY Appended
<1> HIDE DEF more
<1>2. \A i \in DOMAIN more : i = Len(s) + 1 \/ i \in DOMAIN s
  BY <1>1
<1>3. Len(s) + 1 \in DOMAIN more /\ \A i \in DOMAIN s : i \in DOMAIN more
  BY <1>1
<1>4. ToSet(more) = ToSet(s) \cup {x}
  BY <1>1, <1>2, <1>3 DEF ToSet
<1> QED BY <1>4 DEF more

LEMMA ToSetJoined ==
  ASSUME NEW S, NEW s \in Seq(S), NEW t \in Seq(S)
  PROVE  ToSet(s \o t) = ToSet(s) \cup ToSet(t)
<1> DEFINE r == s \o t
<1>1. /\ Len(s) \in Nat /\ Len(t) \in Nat /\ DOMAIN s = 1 .. Len(s) /\ DOMAIN t = 1 .. Len(t)
      /\ DOMAIN r = 1 .. Len(s) + Len(t)
      /\ \A i \in DOMAIN s : r[i] = s[i]
      /\ \A i \in DOMAIN t : r[Len(s) + i] = t[i]
  BY Joined
<1>2. \A i \in DOMAIN r : \/ i \in DOMAIN s /\ r[i] = s[i]
                          \/ i - Len(s) \in DOMAIN t /\ i > Len(s) /\ r[i] = t[i - Len(s)]
  BY JoinedPlaces
<1> HIDE DEF r
<1>3. /\ \A i \in DOMAIN s : i \in DOMAIN r
      /\ \A i \in DOMAIN t : Len(s) + i \in DOMAIN r
  BY <1>1
<1>4. ToSet(r) \subseteq ToSet(s) \cup ToSet(t)
  BY <1>2 DEF ToSet
<1>5. ToSet(s) \subseteq ToSet(r) /\ ToSet(t) \subseteq ToSet(r)
  BY <1>1, <1>3 DEF ToSet
<1> QED BY <1>4, <1>5 DEF r

LEMMA ToSetKept ==
  ASSUME NEW S, NEW s \in Seq(S), NEW keep
  PROVE  ToSet(Kept(s, keep)) = ToSet(s) \cap keep
<1>1. Selects(Kept(s, keep), s, keep)
  BY KeptSelects
<1> QED BY <1>1 DEF Selects, ToSet

\* Each of a sequence's entries is at some place.
LEMMA Placed ==
  ASSUME NEW s, NEW x PROVE x \in ToSet(s) <=> \E i \in DOMAIN s : x = s[i]
BY DEF ToSet

-----------------------------------------------------------------------------
(* The sort by time                                                        *)

\* m is the earlier, or of the same time and the more important or said first.
Sooner(m, n) == TimeOf(m) < TimeOf(n) \/ (TimeOf(m) = TimeOf(n) /\ MayLead(m, n))

Ascending(msgs) == \A i, j \in DOMAIN msgs : i < j => Sooner(msgs[i], msgs[j])

\* Messages of the same time already are in this order.
Tied(msgs) ==
  \A i, j \in DOMAIN msgs :
    i < j /\ TimeOf(msgs[i]) = TimeOf(msgs[j]) => Sooner(msgs[i], msgs[j])

\* What is kept of messages in order is in order.
LEMMA KeptAscending ==
  ASSUME NEW msgs \in Seq(Messages), Ascending(msgs), NEW keep
  PROVE  Ascending(Kept(msgs, keep))
<1>1. ASSUME NEW i \in DOMAIN Kept(msgs, keep), NEW j \in DOMAIN Kept(msgs, keep), i < j
      PROVE  Sooner(Kept(msgs, keep)[i], Kept(msgs, keep)[j])
  <2>1. PICK a, b \in DOMAIN msgs :
          a < b /\ Kept(msgs, keep)[i] = msgs[a] /\ Kept(msgs, keep)[j] = msgs[b]
    BY <1>1, KeptFollows DEF Follows
  <2> QED BY <2>1 DEF Ascending
<1> QED BY <1>1 DEF Ascending

\* Messages in order, then some that are later than they, are in order.
LEMMA AscendingJoined ==
  ASSUME NEW s \in Seq(Messages), NEW t \in Seq(Messages), Ascending(s), Ascending(t),
         \A i \in DOMAIN s : \A j \in DOMAIN t : Sooner(s[i], t[j])
  PROVE  Ascending(s \o t)
<1> DEFINE r == s \o t
<1>1. ASSUME NEW i \in DOMAIN r, NEW j \in DOMAIN r, i < j PROVE Sooner(r[i], r[j])
  <2>1. Len(s) \in Nat /\ DOMAIN s = 1 .. Len(s) /\ DOMAIN r \subseteq Nat
    BY Joined
  <2>2. \/ i \in DOMAIN s /\ r[i] = s[i]
        \/ i - Len(s) \in DOMAIN t /\ i > Len(s) /\ r[i] = t[i - Len(s)]
    BY JoinedPlaces
  <2>3. \/ j \in DOMAIN s /\ r[j] = s[j]
        \/ j - Len(s) \in DOMAIN t /\ j > Len(s) /\ r[j] = t[j - Len(s)]
    BY JoinedPlaces
  <2> HIDE DEF r
  <2>4. CASE i \in DOMAIN s /\ r[i] = s[i] /\ j \in DOMAIN s /\ r[j] = s[j]
    BY <1>1, <2>4 DEF Ascending
  <2>5. CASE i \in DOMAIN s /\ r[i] = s[i] /\ j - Len(s) \in DOMAIN t /\ r[j] = t[j - Len(s)]
    BY <2>5
  <2>6. CASE i > Len(s) /\ j \in DOMAIN s
    BY <1>1, <2>1, <2>6
  <2>7. CASE /\ i - Len(s) \in DOMAIN t /\ r[i] = t[i - Len(s)]
             /\ j - Len(s) \in DOMAIN t /\ r[j] = t[j - Len(s)]
    <3>1. i - Len(s) < j - Len(s)
      BY <1>1, <2>1
    <3> QED BY <2>7, <3>1 DEF Ascending
  <2> QED BY <2>2, <2>3, <2>4, <2>5, <2>6, <2>7
<1> QED BY <1>1 DEF Ascending

\* One message.
LEMMA Single ==
  ASSUME NEW m \in Messages
  PROVE  /\ <<m>> \in Seq(Messages) /\ DOMAIN <<m>> = {1} /\ <<m>>[1] = m /\ ToSet(<<m>>) = {m}
         /\ Tokens(<<m>>) = TokensOf(m) /\ Ascending(<<m>>)
<1> DEFINE one == <<m>>
<1>1. one \in Seq(Messages) /\ DOMAIN one = {1} /\ one[1] = m
  OBVIOUS
<1>2. << >> \in Seq(Messages) /\ one = Append(<< >>, m)
  OBVIOUS
<1>3. Tokens(one) = TokensOf(m)
  <2>1. Tokens(Append(<< >>, m)) = Tokens(<< >>) + TokensOf(m)
    BY <1>2, TokensAppend
  <2>2. TokensOf(m) \in Nat
    BY MessageTyped
  <2> QED BY <1>2, <2>1, <2>2, TokensEmpty
<1> HIDE DEF one
<1>4. ToSet(one) = {m} /\ Ascending(one)
  BY <1>1 DEF ToSet, Ascending
<1> QED BY <1>1, <1>3, <1>4 DEF one

\* Insert makes a sequence of messages of one.
LEMMA InsertTyped ==
  ASSUME NEW msgs \in Seq(Messages), NEW m \in Messages PROVE Insert(msgs, m) \in Seq(Messages)
<1> DEFINE E == {n \in ToSet(msgs) : TimeOf(n) <= TimeOf(m)}
           L == {n \in ToSet(msgs) : TimeOf(n) > TimeOf(m)}
<1>1. Insert(msgs, m) = Kept(msgs, E) \o <<m>> \o Kept(msgs, L)
  BY DEF Insert
<1>2. Kept(msgs, E) \in Seq(Messages) /\ Kept(msgs, L) \in Seq(Messages)
  BY KeptTyped
<1> HIDE DEF E, L
<1>3. Kept(msgs, E) \o <<m>> \in Seq(Messages)
  BY <1>2, Single, Joined
<1> QED BY <1>1, <1>2, <1>3, Joined

\* A message that is no sooner than those of its time is inserted where it belongs.
LEMMA InsertKeeps ==
  ASSUME NEW msgs \in Seq(Messages), Ascending(msgs), NEW m \in Messages,
         \A x \in ToSet(msgs) : TimeOf(x) = TimeOf(m) => Sooner(x, m)
  PROVE  /\ Ascending(Insert(msgs, m)) /\ ToSet(Insert(msgs, m)) = ToSet(msgs) \cup {m}
         /\ Tokens(Insert(msgs, m)) = Tokens(msgs) + TokensOf(m)
<1> DEFINE E   == {n \in ToSet(msgs) : TimeOf(n) <= TimeOf(m)}
           L   == {n \in ToSet(msgs) : TimeOf(n) > TimeOf(m)}
           one == <<m>>
<1>1. PICK early \in Seq(Messages) : early = Kept(msgs, E)
  BY KeptTyped
<1>2. PICK late \in Seq(Messages) : late = Kept(msgs, L)
  BY KeptTyped
<1>3. /\ one \in Seq(Messages) /\ DOMAIN one = {1} /\ one[1] = m /\ ToSet(one) = {m}
      /\ Tokens(one) = TokensOf(m) /\ Ascending(one)
  BY Single
<1>4. Insert(msgs, m) = early \o one \o late
  BY <1>1, <1>2 DEF Insert
<1> HIDE DEF one
<1>5. PICK ahead \in Seq(Messages) : ahead = early \o one
  BY <1>3, Joined
<1>6. TimeOf(m) \in Nat /\ \A x \in ToSet(msgs) : TimeOf(x) \in Nat
  BY MessageTyped DEF ToSet
<1>7. /\ \A x \in E : TimeOf(x) <= TimeOf(m) /\ Sooner(x, m)
      /\ \A x \in L : TimeOf(x) > TimeOf(m)
      /\ E \cup L = ToSet(msgs) /\ E \cap L = {}
  <2>1. \A x \in ToSet(msgs) : \/ TimeOf(x) < TimeOf(m) \/ TimeOf(x) = TimeOf(m)
                               \/ TimeOf(x) > TimeOf(m)
    BY <1>6
  <2>2. \A x \in E : TimeOf(x) < TimeOf(m) \/ TimeOf(x) = TimeOf(m)
    BY <1>6
  <2>3. \A x \in E : Sooner(x, m)
    BY <2>2 DEF Sooner
  <2> QED BY <1>6, <2>1, <2>3
<1> HIDE DEF E, L
<1>8. ToSet(early) = E /\ ToSet(late) = L
  BY <1>1, <1>2, <1>7, ToSetKept
<1>9. ToSet(ahead) = E \cup {m}
  BY <1>3, <1>5, <1>8, ToSetJoined
<1>10. Ascending(early) /\ Ascending(late)
  BY <1>1, <1>2, KeptAscending
<1>11. Ascending(ahead)
  <2>1. \A i \in DOMAIN early : \A j \in DOMAIN one : Sooner(early[i], one[j])
    BY <1>3, <1>7, <1>8, Placed
  <2> QED BY <1>3, <1>5, <1>10, <2>1, AscendingJoined
<1>12. Ascending(ahead \o late)
  <2>1. \A x \in ToSet(ahead) : \A y \in ToSet(late) : TimeOf(x) < TimeOf(y)
    BY <1>6, <1>7, <1>8, <1>9
  <2>2. \A i \in DOMAIN ahead : \A j \in DOMAIN late : Sooner(ahead[i], late[j])
    BY <2>1, Placed DEF Sooner
  <2> QED BY <1>10, <1>11, <2>2, AscendingJoined
<1>13. Tokens(ahead \o late) = Tokens(msgs) + TokensOf(m)
  <2>1. \A i \in DOMAIN msgs : msgs[i] \in E <=> msgs[i] \notin L
    BY <1>7, Placed
  <2>2. Tokens(msgs) = Tokens(early) + Tokens(late)
    BY <1>1, <1>2, <2>1, TokensKept
  <2>3. Tokens(ahead \o late) = (Tokens(early) + Tokens(one)) + Tokens(late)
    BY <1>3, <1>5, TokensJoined
  <2>4. Tokens(early) \in Nat /\ Tokens(late) \in Nat /\ TokensOf(m) \in Nat
    BY TokensTyped, MessageTyped
  <2> QED BY <1>3, <2>2, <2>3, <2>4
<1>14. ToSet(ahead \o late) = ToSet(msgs) \cup {m}
  BY <1>7, <1>8, <1>9, ToSetJoined
<1> QED BY <1>4, <1>5, <1>12, <1>13, <1>14

\* What is sorted is what has been sorted when the last message is inserted.
LEMMA SortSteps ==
  ASSUME NEW msgs \in Seq(Messages)
  PROVE  \E f \in [0 .. Len(msgs) -> Seq(Messages)] :
           /\ f[0] = << >> /\ \A n \in 1 .. Len(msgs) : f[n] = Insert(f[n - 1], msgs[n])
           /\ InOrderOfTime(msgs) = f[Len(msgs)]
<1> DEFINE N == Len(msgs)
           Eq(f) == f = [n \in 0 .. N |-> IF n = 0 THEN << >> ELSE Insert(f[n - 1], msgs[n])]
           F == CHOOSE f : Eq(f)
           G == [n \in 1 .. N |-> [s \in Seq(Messages) |-> Insert(s, msgs[n])]]
<1>1. InOrderOfTime(msgs) = F[N] /\ N \in Nat
  BY DEF InOrderOfTime
<1>2. ASSUME NEW n \in 1 .. N, NEW s \in Seq(Messages) PROVE Insert(s, msgs[n]) \in Seq(Messages)
  BY InsertTyped
<1>3. G \in [1 .. N -> [Seq(Messages) -> Seq(Messages)]]
  BY <1>2
<1>4. PICK g \in [0 .. N -> Seq(Messages)] :
        g[0] = << >> /\ \A n \in 1 .. N : g[n] = G[n][g[n - 1]]
  <2> DEFINE T    == Seq(Messages)
             none == << >>
  <2>1. none \in T /\ G \in [1 .. N -> [T -> T]] /\ N \in Nat
    BY <1>3
  <2> HIDE DEF G, N, T, none
  <2>2. \E g \in [0 .. N -> T] : g[0] = none /\ \A n \in 1 .. N : g[n] = G[n][g[n - 1]]
    BY <2>1, Recursion
  <2> QED BY <2>2 DEF T, none
<1>5. ASSUME NEW n \in 1 .. N PROVE g[n] = Insert(g[n - 1], msgs[n])
  <2>1. g[n - 1] \in Seq(Messages)
    BY <1>1
  <2> QED BY <1>4, <2>1
<1>6. Eq(g)
  <2>1. \A n \in 0 .. N : n # 0 => n \in 1 .. N
    OBVIOUS
  <2> QED BY <1>4, <1>5, <2>1
<1>7. Eq(F)
  <2> HIDE DEF Eq
  <2> QED BY <1>6
<1> HIDE DEF F
<1>8. F[N] = g[N]
  <2>1. F[0] = << >>
    <3>1. 0 \in 0 .. N
      BY <1>1
    <3> QED BY <1>7, <3>1
  <2>2. ASSUME NEW n \in 1 .. N PROVE F[n] = Insert(F[n - 1], msgs[n])
    <3>1. n \in 0 .. N /\ n # 0
      OBVIOUS
    <3> QED BY <1>7, <3>1
  <2>3. F[0] = g[0] /\ \A n \in 1 .. N : F[n - 1] = g[n - 1] => F[n] = g[n]
    BY <1>4, <1>5, <2>1, <2>2
  <2> HIDE DEF Eq, N, G
  <2> QED BY <1>1, <2>3, SameEnd
<1> QED BY <1>1, <1>4, <1>5, <1>8

\* Nothing is in order.
LEMMA SortEmpty == InOrderOfTime(<< >>) = << >>
<1>1. ASSUME NEW msgs \in Seq(Messages), Len(msgs) = 0 PROVE InOrderOfTime(msgs) = << >>
  <2>1. PICK f \in [0 .. Len(msgs) -> Seq(Messages)] :
          f[0] = << >> /\ InOrderOfTime(msgs) = f[Len(msgs)]
    BY SortSteps
  <2> QED BY <1>1, <2>1
<1>2. << >> \in Seq(Messages) /\ Len(<< >>) = 0
  OBVIOUS
<1> QED BY <1>1, <1>2, Zenon

\* The last message is inserted last.
LEMMA SortAppend ==
  ASSUME NEW msgs \in Seq(Messages), NEW m \in Messages
  PROVE  InOrderOfTime(Append(msgs, m)) = Insert(InOrderOfTime(msgs), m)
<1> DEFINE N    == Len(msgs)
           more == Append(msgs, m)
<1>1. /\ more \in Seq(Messages) /\ N \in Nat /\ Len(more) = N + 1 /\ more[N + 1] = m
      /\ \A i \in 1 .. N : more[i] = msgs[i]
  BY Appended
<1>2. PICK f : /\ f[0] = << >> /\ \A n \in 1 .. N : f[n] = Insert(f[n - 1], msgs[n])
               /\ InOrderOfTime(msgs) = f[N]
  BY SortSteps
<1> HIDE DEF more
<1>3. PICK g : /\ g[0] = << >> /\ \A n \in 1 .. Len(more) : g[n] = Insert(g[n - 1], more[n])
               /\ InOrderOfTime(more) = g[Len(more)]
  BY <1>1, SortSteps
<1>4. f[N] = g[N]
  <2>1. \A n \in 1 .. N : n \in 1 .. Len(more)
    BY <1>1
  <2>2. f[0] = g[0] /\ \A n \in 1 .. N : f[n - 1] = g[n - 1] => f[n] = g[n]
    BY <1>1, <1>2, <1>3, <2>1
  <2> HIDE DEF N
  <2> QED BY <1>1, <2>2, SameEnd
<1>5. N + 1 \in 1 .. Len(more) /\ (N + 1) - 1 = N
  BY <1>1
<1> QED BY <1>1, <1>2, <1>3, <1>4, <1>5 DEF more

\* The same messages, in order.
Sorted(out, msgs) ==
  /\ out \in Seq(Messages) /\ Ascending(out)
  /\ ToSet(out) = ToSet(msgs) /\ Tokens(out) = Tokens(msgs)

\* The sort sorts, and is stable.
LEMMA SortIs ==
  ASSUME NEW msgs \in Seq(Messages), Tied(msgs) PROVE Sorted(InOrderOfTime(msgs), msgs)
<1> DEFINE Q == {s \in Seq(Messages) : Tied(s) => Sorted(InOrderOfTime(s), s)}
<1>1. << >> \in Q
  <2>1. << >> \in Seq(Messages) /\ Ascending(<< >>)
    BY DEF Ascending
  <2> QED BY <2>1, SortEmpty DEF Sorted
<1>2. ASSUME NEW s \in Seq(Messages), NEW m \in Messages, s \in Q PROVE Append(s, m) \in Q
  <2> SUFFICES ASSUME Tied(Append(s, m))
               PROVE  Sorted(InOrderOfTime(Append(s, m)), Append(s, m))
    BY Appended
  <2>1. /\ Len(s) \in Nat /\ DOMAIN s = 1 .. Len(s) /\ DOMAIN Append(s, m) = 1 .. Len(s) + 1
        /\ Append(s, m)[Len(s) + 1] = m /\ \A i \in 1 .. Len(s) : Append(s, m)[i] = s[i]
    BY Appended
  <2>2. /\ \A i \in DOMAIN s : i \in DOMAIN Append(s, m) /\ i < Len(s) + 1
        /\ Len(s) + 1 \in DOMAIN Append(s, m)
    BY <2>1
  <2>3. Tied(s)
    BY <2>1, <2>2 DEF Tied
  <2>4. \A i \in DOMAIN s : TimeOf(s[i]) = TimeOf(m) => Sooner(s[i], m)
    BY <2>1, <2>2 DEF Tied
  <2>5. PICK r : r = InOrderOfTime(s)
    OBVIOUS
  <2>6. /\ r \in Seq(Messages) /\ Ascending(r) /\ ToSet(r) = ToSet(s) /\ Tokens(r) = Tokens(s)
    BY <1>2, <2>3, <2>5 DEF Sorted
  <2>7. \A x \in ToSet(r) : TimeOf(x) = TimeOf(m) => Sooner(x, m)
    BY <2>4, <2>6, Placed
  <2>8. /\ Insert(r, m) \in Seq(Messages) /\ Ascending(Insert(r, m))
        /\ ToSet(Insert(r, m)) = ToSet(s) \cup {m} /\ Tokens(Insert(r, m)) = Tokens(s) + TokensOf(m)
    BY <2>6, <2>7, InsertTyped, InsertKeeps
  <2>9. /\ InOrderOfTime(Append(s, m)) = Insert(r, m)
        /\ ToSet(Append(s, m)) = ToSet(s) \cup {m}
        /\ Tokens(Append(s, m)) = Tokens(s) + TokensOf(m)
    BY <2>5, SortAppend, ToSetAppend, TokensAppend
  <2> QED BY <2>8, <2>9 DEF Sorted
<1>3. Seq(Messages) \subseteq Q
  <2> HIDE DEF Q
  <2> QED BY <1>1, <1>2, EntryByEntry
<1> QED BY <1>3

\* What is in order repeats nothing.
LEMMA AscendingUnrepeated ==
  ASSUME NEW msgs \in Seq(Messages), Ascending(msgs) PROVE Unrepeated(msgs)
<1>1. ASSUME NEW i \in DOMAIN msgs PROVE i \in Nat /\ ~ Sooner(msgs[i], msgs[i])
  <2>1. /\ TimeOf(msgs[i]) \in Nat /\ msgs[i].said \in Nat
        /\ msgs[i].kind.importance \in Nat
    BY MessageTyped
  <2> QED BY <2>1 DEF Sooner, MayLead
<1>2. ASSUME NEW i \in DOMAIN msgs, NEW j \in DOMAIN msgs, msgs[i] = msgs[j], i # j PROVE FALSE
  <2>1. i < j \/ j < i
    BY <1>1, <1>2
  <2>2. Sooner(msgs[i], msgs[j]) \/ Sooner(msgs[j], msgs[i])
    BY <2>1 DEF Ascending
  <2> QED BY <1>1, <1>2, <2>2
<1> QED BY <1>2 DEF Unrepeated

-----------------------------------------------------------------------------
(* The loop over the scores                                                *)

\* No two messages of a list have the same place in the order of the scores.
LEMMA PrecedesIsAnOrder ==
  ASSUME NEW msgs \in Seq(Messages),
         NEW i \in DOMAIN msgs, NEW j \in DOMAIN msgs, NEW k \in DOMAIN msgs
  PROVE  /\ i # j => Precedes(msgs, i, j) \/ Precedes(msgs, j, i)
         /\ ~ (Precedes(msgs, i, j) /\ Precedes(msgs, j, i))
         /\ Precedes(msgs, i, j) /\ Precedes(msgs, j, k) => Precedes(msgs, i, k)
<1> DEFINE q(x) == Score(msgs[x])
           Before(x, y) == q(x) > q(y) \/ (q(x) = q(y) /\ x < y)
<1>1. ASSUME NEW x \in DOMAIN msgs PROVE q(x) \in Nat /\ x \in Nat
  <2>1. msgs[x] \in Messages /\ x \in Nat
    OBVIOUS
  <2> QED BY <2>1, MessageTyped
<1>2. ASSUME NEW x \in DOMAIN msgs, NEW y \in DOMAIN msgs
      PROVE  Precedes(msgs, x, y) <=> Before(x, y)
  <2>1. q(x) \in Nat /\ q(y) \in Nat
    BY <1>1
  <2>2. /\ Outranks(msgs[x], msgs[y]) <=> q(x) > q(y)
        /\ Outranks(msgs[y], msgs[x]) <=> q(y) > q(x)
    BY DEF Outranks
  <2> HIDE DEF q
  <2> QED BY <2>1, <2>2 DEF Precedes
<1>3. q(i) \in Nat /\ q(j) \in Nat /\ q(k) \in Nat /\ i \in Nat /\ j \in Nat /\ k \in Nat
  BY <1>1
<1>4. /\ Precedes(msgs, i, j) <=> Before(i, j)
      /\ Precedes(msgs, j, i) <=> Before(j, i)
      /\ Precedes(msgs, j, k) <=> Before(j, k)
      /\ Precedes(msgs, i, k) <=> Before(i, k)
  BY <1>2
<1> HIDE DEF q
<1> QED BY <1>3, <1>4

\* Among some places of a list one is the first in that order.
LEMMA FirstExists ==
  ASSUME NEW msgs \in Seq(Messages), NEW left \in SUBSET DOMAIN msgs, left # {}
  PROVE  \E i \in left : \A j \in left \ {i} : Precedes(msgs, i, j)
<1> DEFINE N == Len(msgs)
           Led(T) == \E i \in T : \A j \in T \ {i} : Precedes(msgs, i, j)
           A == {n \in 0 .. N : \A T \in SUBSET (1 .. n) : T # {} => Led(T)}
<1>1. N \in Nat /\ DOMAIN msgs = 1 .. N
  OBVIOUS
<1>2. 0 \in A
  <2>1. 0 \in 0 .. N /\ 1 .. 0 = {}
    BY <1>1
  <2>2. \A T \in SUBSET (1 .. 0) : T = {}
    BY <2>1
  <2> HIDE DEF N, Led
  <2> QED BY <2>1, <2>2
<1>3. ASSUME NEW n \in 1 .. N, n - 1 \in A PROVE n \in A
  <2> SUFFICES ASSUME NEW T \in SUBSET (1 .. n), T # {} PROVE Led(T)
    BY <1>1
  <2>1. CASE n \notin T
    <3>1. T \in SUBSET (1 .. n - 1)
      BY <2>1
    <3> QED BY <1>3, <3>1
  <2>2. CASE T = {n}
    BY <2>2
  <2>3. CASE n \in T /\ T # {n}
    <3>1. T \ {n} \in SUBSET (1 .. n - 1) /\ T \ {n} # {}
      BY <2>3
    <3>2. Led(T \ {n})
      <4> HIDE DEF Led
      <4> QED BY <1>3, <3>1
    <3>3. PICK i \in T \ {n} : \A j \in (T \ {n}) \ {i} : Precedes(msgs, i, j)
      BY <3>2
    <3>4. i \in DOMAIN msgs /\ n \in DOMAIN msgs /\ T \subseteq DOMAIN msgs /\ i # n
      BY <1>1, <3>3
    <3>5. CASE Precedes(msgs, i, n)
      BY <3>3, <3>5
    <3>6. CASE ~ Precedes(msgs, i, n)
      <4>1. Precedes(msgs, n, i)
        BY <3>4, <3>6, PrecedesIsAnOrder
      <4>2. \A j \in T \ {n} : Precedes(msgs, n, j)
        <5> TAKE j \in T \ {n}
        <5>1. j \in DOMAIN msgs /\ (j = i \/ Precedes(msgs, i, j))
          BY <3>3, <3>4
        <5>2. Precedes(msgs, i, j) => Precedes(msgs, n, j)
          BY <3>4, <4>1, <5>1, PrecedesIsAnOrder
        <5> QED BY <4>1, <5>1, <5>2
      <4> QED BY <2>3, <4>2
    <3> QED BY <3>5, <3>6
  <2> QED BY <2>1, <2>2, <2>3
<1>4. N \in A
  <2>1. 0 .. N \subseteq A
    <3> HIDE DEF A, N
    <3> QED BY <1>1, <1>2, <1>3, UpTo
  <2> QED BY <1>1, <2>1
<1> QED BY <1>1, <1>4

\* Each message ranks before the ones behind it.
Ranked(kept, msgs) ==
  \A a, b \in DOMAIN kept : a < b =>
    \E i, j \in DOMAIN msgs : /\ kept[a] = msgs[i] /\ kept[b] = msgs[j]
                              /\ Precedes(msgs, i, j)

\* What is kept, dropped or left after some turns of the loop.
Considered(msgs, budget, left, used, kept) ==
  /\ left \in SUBSET DOMAIN msgs /\ used \in Nat /\ kept \in Seq(Messages)
  /\ Unrepeated(kept) /\ Ranked(kept, msgs)
  /\ \A x \in ToSet(kept) : \E i \in DOMAIN msgs \ left : x = msgs[i]
  /\ used = Tokens(kept)
  /\ kept = << >> \/ used <= budget
  /\ \A i \in DOMAIN msgs \ left :
       msgs[i] \notin ToSet(kept) => used + TokensOf(msgs[i]) > budget
  /\ \A i \in DOMAIN msgs \ left : \A j \in left : Precedes(msgs, i, j)
  /\ \A i, n \in DOMAIN msgs :
       /\ msgs[i] \notin ToSet(kept) /\ msgs[n] \in ToSet(kept) /\ Precedes(msgs, i, n)
       => TokensOf(msgs[i]) > TokensOf(msgs[n])

AdmitStates(msgs, budget) ==
  {s \in [left : SUBSET DOMAIN msgs, used : Nat, kept : Seq(Messages), over : BOOLEAN] :
     Considered(msgs, budget, s.left, s.used, s.kept)}

\* A message that does not fit is dropped.
LEMMA Dropping ==
  ASSUME NEW msgs, Conversation(msgs), NEW budget \in Int, NEW left, NEW used, NEW kept,
         Considered(msgs, budget, left, used, kept),
         NEW i \in left, \A j \in left \ {i} : Precedes(msgs, i, j),
         used + TokensOf(msgs[i]) > budget
  PROVE  Considered(msgs, budget, left \ {i}, used, kept)
<1>1. msgs \in Seq(Messages) /\ Unrepeated(msgs) /\ i \in DOMAIN msgs
  BY ApartUnrepeated DEF Conversation, Considered
<1>2. /\ left \ {i} \in SUBSET DOMAIN msgs
      /\ DOMAIN msgs \ (left \ {i}) = (DOMAIN msgs \ left) \cup {i}
  BY <1>1 DEF Considered
<1>3. \A x \in ToSet(kept) : \E j \in DOMAIN msgs \ (left \ {i}) : x = msgs[j]
  BY <1>2 DEF Considered
<1>4. \A k \in DOMAIN msgs \ (left \ {i}) :
        msgs[k] \notin ToSet(kept) => used + TokensOf(msgs[k]) > budget
  BY <1>2 DEF Considered
<1>5. \A k \in DOMAIN msgs \ (left \ {i}) : \A j \in left \ {i} : Precedes(msgs, k, j)
  BY <1>2 DEF Considered
<1> QED BY <1>2, <1>3, <1>4, <1>5 DEF Considered

\* A message that fits is kept.
LEMMA Admitting ==
  ASSUME NEW msgs, Conversation(msgs), NEW budget \in Int, NEW left, NEW used, NEW kept,
         Considered(msgs, budget, left, used, kept),
         NEW i \in left, \A j \in left \ {i} : Precedes(msgs, i, j),
         used + TokensOf(msgs[i]) <= budget
  PROVE  Considered(msgs, budget, left \ {i}, used + TokensOf(msgs[i]), Append(kept, msgs[i]))
<1> DEFINE m    == msgs[i]
           rest == left \ {i}
           more == Append(kept, m)
<1>1. /\ msgs \in Seq(Messages) /\ Unrepeated(msgs) /\ i \in DOMAIN msgs /\ m \in Messages
      /\ kept \in Seq(Messages) /\ used \in Nat
  BY ApartUnrepeated DEF Conversation, Considered
<1>2. rest \in SUBSET DOMAIN msgs /\ DOMAIN msgs \ rest = (DOMAIN msgs \ left) \cup {i}
  BY <1>1 DEF Considered
<1>3. /\ TokensOf(m) \in Nat /\ more \in Seq(Messages) /\ ToSet(more) = ToSet(kept) \cup {m}
      /\ Tokens(more) = Tokens(kept) + TokensOf(m)
  BY <1>1, MessageTyped, ToSetAppend, TokensAppend, Appended
<1>4. m \notin ToSet(kept)
  <2>1. \A j \in DOMAIN msgs \ left : j # i /\ m # msgs[j]
    BY <1>1 DEF Unrepeated
  <2> QED BY <2>1 DEF Considered
<1>5. Unrepeated(more)
  <2>1. /\ Len(kept) \in Nat /\ DOMAIN kept = 1 .. Len(kept) /\ DOMAIN more = 1 .. Len(kept) + 1
        /\ more[Len(kept) + 1] = m /\ \A j \in 1 .. Len(kept) : more[j] = kept[j]
    BY <1>1, Appended
  <2>2. \A j \in DOMAIN kept : kept[j] # m
    BY <1>4, Placed
  <2>3. Unrepeated(kept)
    BY DEF Considered
  <2> HIDE DEF more, m
  <2>4. ASSUME NEW a \in DOMAIN more, NEW b \in DOMAIN more, more[a] = more[b] PROVE a = b
    <3>1. a = Len(kept) + 1 \/ a \in DOMAIN kept
      BY <2>1
    <3>2. b = Len(kept) + 1 \/ b \in DOMAIN kept
      BY <2>1
    <3> QED BY <2>1, <2>2, <2>3, <2>4, <3>1, <3>2 DEF Unrepeated
  <2> QED BY <2>4 DEF Unrepeated
<1>6. Ranked(more, msgs)
  <2>1. /\ Len(kept) \in Nat /\ DOMAIN kept = 1 .. Len(kept) /\ DOMAIN more = 1 .. Len(kept) + 1
        /\ more[Len(kept) + 1] = m /\ \A j \in 1 .. Len(kept) : more[j] = kept[j]
    BY <1>1, Appended
  <2> HIDE DEF more
  <2> SUFFICES ASSUME NEW a \in DOMAIN more, NEW b \in DOMAIN more, a < b
               PROVE  \E k, j \in DOMAIN msgs : /\ more[a] = msgs[k] /\ more[b] = msgs[j]
                                                /\ Precedes(msgs, k, j)
    BY DEF Ranked
  <2>2. a \in DOMAIN kept /\ more[a] = kept[a]
    BY <2>1
  <2>3. CASE b \in DOMAIN kept
    <3>1. more[b] = kept[b]
      BY <2>1, <2>3
    <3> QED BY <2>2, <2>3, <3>1 DEF Considered, Ranked
  <2>4. CASE b = Len(kept) + 1
    <3>1. PICK k \in DOMAIN msgs \ left : kept[a] = msgs[k]
      BY <2>2, Placed DEF Considered
    <3>2. Precedes(msgs, k, i)
      BY DEF Considered
    <3> QED BY <1>1, <2>1, <2>2, <2>4, <3>1, <3>2
  <2> QED BY <2>1, <2>3, <2>4
<1>7. \A x \in ToSet(more) : \E j \in DOMAIN msgs \ rest : x = msgs[j]
  BY <1>1, <1>2, <1>3 DEF Considered
<1>8. used + TokensOf(m) \in Nat /\ used + TokensOf(m) = Tokens(more)
  BY <1>1, <1>3 DEF Considered
<1> HIDE DEF more
<1>9. ASSUME NEW k \in DOMAIN msgs \ rest, msgs[k] \notin ToSet(more)
      PROVE  (used + TokensOf(m)) + TokensOf(msgs[k]) > budget
  <2>1. k \in DOMAIN msgs \ left /\ msgs[k] \notin ToSet(kept)
    BY <1>2, <1>3, <1>9
  <2>2. used + TokensOf(msgs[k]) > budget
    BY <2>1 DEF Considered
  <2>3. TokensOf(msgs[k]) \in Nat
    BY <1>1, MessageTyped
  <2> HIDE DEF m
  <2> QED BY <1>1, <1>3, <2>2, <2>3
<1>10. \A k \in DOMAIN msgs \ rest : \A j \in rest : Precedes(msgs, k, j)
  BY <1>2 DEF Considered
<1>11. ASSUME NEW k \in DOMAIN msgs, NEW n \in DOMAIN msgs,
              msgs[k] \notin ToSet(more), msgs[n] \in ToSet(more), Precedes(msgs, k, n)
       PROVE  TokensOf(msgs[k]) > TokensOf(msgs[n])
  <2>1. msgs[k] \notin ToSet(kept) /\ k # i
    BY <1>3, <1>11
  <2>2. CASE msgs[n] \in ToSet(kept)
    BY <1>11, <2>1, <2>2 DEF Considered
  <2>3. CASE msgs[n] \notin ToSet(kept)
    <3>1. n = i
      BY <1>1, <1>3, <1>11, <2>3 DEF Unrepeated
    <3>2. ~ Precedes(msgs, i, k)
      BY <1>1, <1>11, <3>1, PrecedesIsAnOrder
    <3>3. k \notin left
      BY <2>1, <3>2
    <3>4. used + TokensOf(msgs[k]) > budget
      BY <2>1, <3>3 DEF Considered
    <3>5. TokensOf(msgs[k]) \in Nat
      BY <1>1, MessageTyped
    <3> QED BY <1>1, <1>3, <3>1, <3>4, <3>5
  <2> QED BY <2>2, <2>3
<1> HIDE DEF rest, m
<1>12. Considered(msgs, budget, rest, used + TokensOf(m), more)
  BY <1>2, <1>3, <1>5, <1>6, <1>7, <1>8, <1>9, <1>10, <1>11 DEF Considered, m
<1> QED BY <1>12 DEF rest, m, more

\* The place that a turn of the loop looks at.
First(msgs, left) == CHOOSE i \in left : \A j \in left \ {i} : Precedes(msgs, i, j)

\* A turn of the loop.
LEMMA Turn ==
  ASSUME NEW msgs, Conversation(msgs), NEW budget \in Int, NEW s \in AdmitStates(msgs, budget)
  PROVE  Consider(msgs, budget, s) \in AdmitStates(msgs, budget)
<1>1. /\ s.left \in SUBSET DOMAIN msgs /\ s.used \in Nat /\ s.kept \in Seq(Messages)
      /\ s.over \in BOOLEAN /\ Considered(msgs, budget, s.left, s.used, s.kept)
      /\ msgs \in Seq(Messages)
  BY DEF AdmitStates, Conversation
<1>2. CASE s.over \/ s.left = {}
  BY <1>2 DEF Consider
<1>3. CASE ~ (s.over \/ s.left = {})
  <2> DEFINE i == First(msgs, s.left)
  <2>1. i \in s.left /\ \A j \in s.left \ {i} : Precedes(msgs, i, j)
    <3>1. \E k \in s.left : \A j \in s.left \ {k} : Precedes(msgs, k, j)
      BY <1>1, <1>3, FirstExists
    <3> QED BY <3>1 DEF First
  <2> DEFINE cost == TokensOf(msgs[i])
             fits == s.used + cost <= budget
             used == IF fits THEN s.used + cost ELSE s.used
             kept == IF fits THEN Append(s.kept, msgs[i]) ELSE s.kept
             over == Len(kept) >= config.min_messages /\ used * 10 >= budget * 9
  <2>2. Consider(msgs, budget, s) =
          [left |-> s.left \ {i}, used |-> used, kept |-> kept, over |-> over]
    BY <1>3 DEF Consider, First
  <2>3. cost \in Nat
    BY <1>1, <2>1, MessageTyped
  <2>4. Considered(msgs, budget, s.left \ {i}, used, kept)
    <3> HIDE DEF i
    <3>1. CASE fits
      <4>1. Considered(msgs, budget, s.left \ {i}, s.used + cost, Append(s.kept, msgs[i]))
        BY <1>1, <2>1, <3>1, Admitting
      <4> QED BY <3>1, <4>1
    <3>2. CASE ~ fits
      <4>1. s.used + cost > budget
        BY <1>1, <2>3, <3>2
      <4>2. Considered(msgs, budget, s.left \ {i}, s.used, s.kept)
        BY <1>1, <2>1, <4>1, Dropping
      <4> QED BY <3>2, <4>2
    <3> QED BY <3>1, <3>2
  <2>5. over \in BOOLEAN
    OBVIOUS
  <2> HIDE DEF i, used, kept, over
  <2>6. s.left \ {i} \in SUBSET DOMAIN msgs /\ used \in Nat /\ kept \in Seq(Messages)
    BY <2>4 DEF Considered
  <2>7. PICK rest \in SUBSET DOMAIN msgs : rest = s.left \ {i}
    BY <2>6
  <2> DEFINE r == [left |-> rest, used |-> used, kept |-> kept, over |-> over]
  <2>8. /\ r \in [left : SUBSET DOMAIN msgs, used : Nat, kept : Seq(Messages), over : BOOLEAN]
        /\ r.left = rest /\ r.used = used /\ r.kept = kept
    BY <2>5, <2>6
  <2> HIDE DEF r
  <2>9. r \in AdmitStates(msgs, budget)
    BY <2>4, <2>7, <2>8 DEF AdmitStates
  <2> QED BY <2>2, <2>7, <2>9 DEF r
<1> QED BY <1>2, <1>3

\* Before the loop.
LEMMA AtFirst ==
  ASSUME NEW msgs, Conversation(msgs), NEW budget \in Int
  PROVE  [left |-> DOMAIN msgs, used |-> 0, kept |-> << >>, over |-> FALSE]
           \in AdmitStates(msgs, budget)
<1>1. << >> \in Seq(Messages) /\ ToSet(<< >>) = {} /\ Unrepeated(<< >>) /\ Ranked(<< >>, msgs)
  BY DEF ToSet, Unrepeated, Ranked
<1>2. Considered(msgs, budget, DOMAIN msgs, 0, << >>)
  BY <1>1, TokensEmpty DEF Considered
<1> QED BY <1>1, <1>2 DEF AdmitStates

\* What Admit keeps: a selection within the budget, if that leaves room for
\* anything, in which what was dropped took more than what ranks below it.
Admitted(out, msgs, budget) ==
  /\ From(out, msgs)
  /\ out = << >> \/ Tokens(out) <= budget
  /\ \A i, n \in DOMAIN msgs :
       /\ msgs[i] \notin ToSet(out) /\ msgs[n] \in ToSet(out) /\ Precedes(msgs, i, n)
       => TokensOf(msgs[i]) > TokensOf(msgs[n])

LEMMA AdmitIs ==
  ASSUME NEW msgs, Conversation(msgs), NEW budget \in Int
  PROVE  Admitted(Admit(msgs, budget), msgs, budget) /\ Ranked(Admit(msgs, budget), msgs)
<1> DEFINE N == Len(msgs)
           T == AdmitStates(msgs, budget)
           start == [left |-> DOMAIN msgs, used |-> 0, kept |-> << >>, over |-> FALSE]
           Eq(f) == f = [n \in 0 .. N |-> IF n = 0 THEN start ELSE Consider(msgs, budget, f[n - 1])]
           F == CHOOSE f : Eq(f)
           G == [n \in 1 .. N |-> [s \in T |-> Consider(msgs, budget, s)]]
<1>1. Admit(msgs, budget) = F[N].kept
  BY DEF Admit
<1>2. N \in Nat /\ start \in T
  BY AtFirst DEF Conversation
<1>3. \A s \in T : Consider(msgs, budget, s) \in T
  BY Turn
<1> HIDE DEF T, start
<1>4. G \in [1 .. N -> [T -> T]]
  BY <1>3
<1>5. PICK g \in [0 .. N -> T] : g[0] = start /\ \A n \in 1 .. N : g[n] = G[n][g[n - 1]]
  <2> HIDE DEF G, N
  <2> QED BY <1>2, <1>4, Recursion
<1>6. ASSUME NEW n \in 1 .. N PROVE g[n] = Consider(msgs, budget, g[n - 1])
  <2>1. g[n - 1] \in T
    BY <1>2
  <2> QED BY <1>5, <2>1
<1>7. Eq(g)
  <2>1. \A n \in 0 .. N : n # 0 => n \in 1 .. N
    OBVIOUS
  <2> QED BY <1>5, <1>6, <2>1
<1>8. Eq(F)
  <2> HIDE DEF Eq
  <2> QED BY <1>7
<1> HIDE DEF F
<1>9. F[N] = g[N]
  <2>1. F[0] = start
    <3>1. 0 \in 0 .. N
      BY <1>2
    <3> QED BY <1>8, <3>1
  <2>2. ASSUME NEW n \in 1 .. N PROVE F[n] = Consider(msgs, budget, F[n - 1])
    <3>1. n \in 0 .. N /\ n # 0
      OBVIOUS
    <3> QED BY <1>8, <3>1
  <2>3. F[0] = g[0] /\ \A n \in 1 .. N : F[n - 1] = g[n - 1] => F[n] = g[n]
    BY <1>5, <1>6, <2>1, <2>2
  <2> HIDE DEF Eq, N, G
  <2> QED BY <1>2, <2>3, SameEnd
<1>10. PICK s \in AdmitStates(msgs, budget) : Admit(msgs, budget) = s.kept
  <2>1. g[N] \in T
    BY <1>2
  <2> QED BY <1>1, <1>9, <2>1 DEF T
<1> DEFINE out == s.kept
<1>11. Considered(msgs, budget, s.left, s.used, out)
  BY DEF AdmitStates
<1> HIDE DEF out
<1>12. From(out, msgs)
  <2>1. \A i \in DOMAIN out : \E j \in DOMAIN msgs : out[i] = msgs[j]
    BY <1>11, Placed DEF Considered
  <2> QED BY <1>11, <2>1 DEF Considered, From
<1>13. Admitted(out, msgs, budget) /\ Ranked(out, msgs)
  BY <1>11, <1>12 DEF Considered, Admitted
<1> QED BY <1>10, <1>13 DEF out

-----------------------------------------------------------------------------
(* What the steps of the pipeline have in common                           *)

\* A protected message that opens the conversation stays where it is.
Headed(out, msgs) ==
  msgs # << >> /\ Protected(msgs[1]) => out # << >> /\ out[1] = msgs[1]

\* What condensing may do to a conversation.
Condenses(out, msgs) ==
  /\ From(out, msgs)
  /\ Tokens(out) <= Tokens(msgs)
  /\ InOrder(msgs) => InOrder(out)
  /\ Headed(out, msgs)

\* The settings have their types.
LEMMA ConfigTyped ==
  ASSUME config \in Configs
  PROVE  /\ config.max_tokens \in Nat /\ config.min_messages \in Nat
         /\ config.preserve_system \in BOOLEAN /\ config.strategy \in Strategies
BY CondenserAssumption DEF ConfigType

\* To leave a conversation alone is to condense it, and so are two steps that do.
LEMMA CondensesItself ==
  ASSUME NEW msgs, Conversation(msgs) PROVE Condenses(msgs, msgs)
<1>1. From(msgs, msgs)
  BY FromItself
<1>2. Tokens(msgs) \in Nat
  BY TokensTyped DEF Conversation
<1> QED BY <1>1, <1>2 DEF Condenses, Headed

LEMMA CondensesTwice ==
  ASSUME NEW msgs, Conversation(msgs), NEW some, Condenses(some, msgs),
         NEW few, Condenses(few, some)
  PROVE  Condenses(few, msgs)
<1>1. From(some, msgs) /\ From(few, some) /\ From(few, msgs)
  BY FromFrom DEF Condenses
<1>2. Tokens(few) \in Nat /\ Tokens(some) \in Nat /\ Tokens(msgs) \in Nat
  BY <1>1, TokensTyped DEF From, Conversation
<1>3. Tokens(few) <= Tokens(msgs)
  BY <1>2 DEF Condenses
<1>4. Headed(few, msgs)
  BY DEF Condenses, Headed
<1> QED BY <1>1, <1>3, <1>4 DEF Condenses

\* What a conversation is condensed to is one.
LEMMA CondensesConversation ==
  ASSUME NEW msgs, Conversation(msgs), NEW out, Condenses(out, msgs) PROVE Conversation(out)
BY FromApart DEF Condenses, Conversation, From

\* Two sequences with nothing in common that repeat nothing.
LEMMA UnrepeatedJoined ==
  ASSUME NEW S, NEW s \in Seq(S), NEW t \in Seq(S), Unrepeated(s), Unrepeated(t),
         ToSet(s) \cap ToSet(t) = {}
  PROVE  Unrepeated(s \o t)
<1> DEFINE r == s \o t
<1>1. ASSUME NEW i \in DOMAIN r, NEW j \in DOMAIN r, r[i] = r[j] PROVE i = j
  <2>1. Len(s) \in Nat /\ i \in Nat /\ j \in Nat
    BY Joined
  <2>2. \/ i \in DOMAIN s /\ r[i] = s[i]
        \/ i - Len(s) \in DOMAIN t /\ r[i] = t[i - Len(s)]
    BY JoinedPlaces
  <2>3. \/ j \in DOMAIN s /\ r[j] = s[j]
        \/ j - Len(s) \in DOMAIN t /\ r[j] = t[j - Len(s)]
    BY JoinedPlaces
  <2> HIDE DEF r
  <2>4. CASE i \in DOMAIN s /\ r[i] = s[i] /\ j \in DOMAIN s /\ r[j] = s[j]
    BY <1>1, <2>4 DEF Unrepeated
  <2>5. CASE /\ i - Len(s) \in DOMAIN t /\ r[i] = t[i - Len(s)]
             /\ j - Len(s) \in DOMAIN t /\ r[j] = t[j - Len(s)]
    <3>1. i - Len(s) = j - Len(s)
      BY <1>1, <2>5 DEF Unrepeated
    <3> QED BY <2>1, <3>1
  <2>6. CASE i \in DOMAIN s /\ r[i] = s[i] /\ j - Len(s) \in DOMAIN t /\ r[j] = t[j - Len(s)]
    <3>1. r[i] \in ToSet(s) /\ r[i] \in ToSet(t)
      BY <1>1, <2>6, Placed
    <3> QED BY <3>1
  <2>7. CASE j \in DOMAIN s /\ r[j] = s[j] /\ i - Len(s) \in DOMAIN t /\ r[i] = t[i - Len(s)]
    <3>1. r[j] \in ToSet(s) /\ r[j] \in ToSet(t)
      BY <1>1, <2>7, Placed
    <3> QED BY <3>1
  <2> QED BY <2>2, <2>3, <2>4, <2>5, <2>6, <2>7
<1> QED BY <1>1 DEF Unrepeated

-----------------------------------------------------------------------------
(* _dedup                                                                  *)

\* No two messages that compete have the same fingerprint.
NoTwins(msgs) ==
  \A i, j \in DOMAIN msgs :
    Competes(msgs[i]) /\ Fingerprint(msgs[i]) = Fingerprint(msgs[j]) => i = j

\* Messages with the same fingerprint have the same role.
LEMMA SameRole ==
  ASSUME NEW m, NEW n, Fingerprint(m) = Fingerprint(n) PROVE Competes(m) <=> Competes(n)
<1>1. m.kind.role = n.kind.role
  BY DEF Fingerprint
<1> QED BY <1>1 DEF Competes, Protected, IsSystem

\* A selection of messages without twins has none.
LEMMA FromNoTwins ==
  ASSUME NEW msgs, NoTwins(msgs), NEW out, From(out, msgs) PROVE NoTwins(out)
<1>1. ASSUME NEW i \in DOMAIN out, NEW j \in DOMAIN out,
             Competes(out[i]), Fingerprint(out[i]) = Fingerprint(out[j])
      PROVE  i = j
  <2>1. PICK a \in DOMAIN msgs : out[i] = msgs[a]
    BY DEF From
  <2>2. PICK b \in DOMAIN msgs : out[j] = msgs[b]
    BY DEF From
  <2>3. a = b
    BY <1>1, <2>1, <2>2 DEF NoTwins
  <2> QED BY <2>1, <2>2, <2>3 DEF From, Unrepeated
<1> QED BY <1>1 DEF NoTwins

\* The messages that _dedup lets through.
Passed(msgs) ==
  {msgs[i] : i \in {j \in DOMAIN msgs : Protected(msgs[j]) \/ ~ Repeats(msgs, j)}}

LEMMA PassedIs ==
  ASSUME NEW msgs, Conversation(msgs), NEW i \in DOMAIN msgs
  PROVE  msgs[i] \in Passed(msgs) <=> Protected(msgs[i]) \/ ~ Repeats(msgs, i)
BY ApartUnrepeated DEF Conversation, Passed, Unrepeated

\* Without twins, _dedup changes nothing.
LEMMA NoTwinsStay ==
  ASSUME NEW msgs, Conversation(msgs), NoTwins(msgs) PROVE Dedup(msgs) = msgs
<1>1. ASSUME NEW i \in DOMAIN msgs, Repeats(msgs, i), Competes(msgs[i]) PROVE FALSE
  <2>1. PICK j \in 1 .. i - 1 : Fingerprint(msgs[j]) = Fingerprint(msgs[i])
    BY <1>1 DEF Repeats
  <2>2. j \in DOMAIN msgs /\ j # i
    BY DEF Conversation
  <2> QED BY <1>1, <2>1, <2>2 DEF NoTwins
<1>2. \A i \in DOMAIN msgs : msgs[i] \in Passed(msgs)
  BY <1>1, PassedIs DEF Competes
<1>3. Dedup(msgs) = Kept(msgs, Passed(msgs)) /\ msgs \in Seq(Messages)
  BY DEF Dedup, Passed, Conversation
<1> QED BY <1>2, <1>3, KeptAll

\* _dedup drops repetitions, and these alone.
LEMMA DedupIs ==
  ASSUME NEW msgs, Conversation(msgs)
  PROVE  /\ Condenses(Dedup(msgs), msgs) /\ NoTwins(Dedup(msgs))
         /\ SystemOf(Dedup(msgs)) = SystemOf(msgs)
         /\ \A i \in DOMAIN msgs : ~ Repeats(msgs, i) => msgs[i] \in ToSet(Dedup(msgs))
<1> DEFINE D == Dedup(msgs)
<1>1. /\ D = Kept(msgs, Passed(msgs)) /\ msgs \in Seq(Messages)
      /\ Len(msgs) \in Nat /\ DOMAIN msgs = 1 .. Len(msgs)
  BY DEF Dedup, Passed, Conversation
<1> HIDE DEF D
<1>2. From(D, msgs) /\ Follows(D, msgs) /\ Tokens(D) <= Tokens(msgs)
  BY <1>1, KeptFrom, KeptFollows, TokensKeptAtMost
<1>3. ToSet(D) = ToSet(msgs) \cap Passed(msgs)
  BY <1>1, ToSetKept
<1>4. \A i \in DOMAIN msgs : Protected(msgs[i]) \/ ~ Repeats(msgs, i) => msgs[i] \in ToSet(D)
  BY <1>3, PassedIs, Placed
<1>5. InOrder(msgs) => InOrder(D)
  BY <1>2, FollowsInOrder
<1>6. Headed(D, msgs)
  <2> SUFFICES ASSUME msgs # << >>, Protected(msgs[1]) PROVE D # << >> /\ D[1] = msgs[1]
    BY DEF Headed
  <2>1. 1 \in DOMAIN msgs
    BY <1>1
  <2>2. msgs[1] \in Passed(msgs)
    BY <2>1, PassedIs
  <2> QED BY <1>1, <2>2, KeptHead
<1>7. NoTwins(D)
  <2>1. ASSUME NEW i \in DOMAIN D, NEW j \in DOMAIN D, i < j,
               Competes(D[j]), Fingerprint(D[i]) = Fingerprint(D[j])
        PROVE  FALSE
    <3>1. PICK a, b \in DOMAIN msgs : a < b /\ D[i] = msgs[a] /\ D[j] = msgs[b]
      BY <1>2, <2>1 DEF Follows
    <3>2. a \in 1 .. b - 1
      BY <1>1, <3>1
    <3>3. Repeats(msgs, b)
      BY <2>1, <3>1, <3>2 DEF Repeats
    <3>4. msgs[b] \notin Passed(msgs)
      BY <2>1, <3>1, <3>3, PassedIs DEF Competes
    <3> QED BY <1>3, <3>1, <3>4, Placed
  <2>2. \A i, j \in DOMAIN D : i = j \/ i < j \/ j < i
    BY <1>2 DEF From
  <2>3. \A i, j \in DOMAIN D : Fingerprint(D[i]) = Fingerprint(D[j]) =>
                                 (Competes(D[i]) <=> Competes(D[j]))
    BY SameRole
  <2> QED BY <2>1, <2>2, <2>3 DEF NoTwins
<1>8. SystemOf(D) = SystemOf(msgs)
  <2> DEFINE B == {m \in ToSet(D) : Protected(m)}
             C == {m \in ToSet(msgs) : Protected(m)}
  <2>1. SystemOf(D) = Kept(D, B) /\ SystemOf(msgs) = Kept(msgs, C)
    BY DEF SystemOf
  <2>2. \A i \in DOMAIN msgs : msgs[i] \in C <=> msgs[i] \in Passed(msgs) /\ msgs[i] \in B
    BY <1>3, <1>4, Placed
  <2> HIDE DEF B, C
  <2> QED BY <1>1, <2>1, <2>2, KeptTwice
<1> QED BY <1>2, <1>4, <1>5, <1>6, <1>7, <1>8 DEF Condenses, D

-----------------------------------------------------------------------------
(* _sliding_window                                                         *)

\* The messages that are protected and those that compete are all of them.
LEMMA Apportioned ==
  ASSUME NEW msgs, Conversation(msgs)
  PROVE  /\ From(SystemOf(msgs), msgs) /\ From(OthersOf(msgs), msgs)
         /\ Conversation(SystemOf(msgs)) /\ Conversation(OthersOf(msgs))
         /\ ToSet(SystemOf(msgs)) = {m \in ToSet(msgs) : Protected(m)}
         /\ ToSet(OthersOf(msgs)) = {m \in ToSet(msgs) : Competes(m)}
         /\ Tokens(msgs) = Tokens(SystemOf(msgs)) + Tokens(OthersOf(msgs))
         /\ Headed(SystemOf(msgs), msgs)
<1> DEFINE A == {m \in ToSet(msgs) : Protected(m)}
           B == {m \in ToSet(msgs) : Competes(m)}
<1>1. /\ SystemOf(msgs) = Kept(msgs, A) /\ OthersOf(msgs) = Kept(msgs, B)
      /\ msgs \in Seq(Messages) /\ Len(msgs) \in Nat /\ DOMAIN msgs = 1 .. Len(msgs)
  BY DEF SystemOf, OthersOf, Conversation
<1>2. /\ \A i \in DOMAIN msgs : msgs[i] \in A <=> Protected(msgs[i])
      /\ \A i \in DOMAIN msgs : msgs[i] \in A <=> msgs[i] \notin B
  BY Placed DEF Competes
<1>3. A \subseteq ToSet(msgs) /\ B \subseteq ToSet(msgs)
  OBVIOUS
<1> HIDE DEF A, B
<1>4. /\ From(Kept(msgs, A), msgs) /\ From(Kept(msgs, B), msgs)
      /\ Conversation(Kept(msgs, A)) /\ Conversation(Kept(msgs, B))
  BY KeptFrom, KeptConversation
<1>5. ToSet(Kept(msgs, A)) = A /\ ToSet(Kept(msgs, B)) = B
  <2>1. ToSet(Kept(msgs, A)) = ToSet(msgs) \cap A
    BY <1>1, ToSetKept
  <2>2. ToSet(Kept(msgs, B)) = ToSet(msgs) \cap B
    BY <1>1, ToSetKept
  <2> QED BY <1>3, <2>1, <2>2
<1>6. Tokens(msgs) = Tokens(Kept(msgs, A)) + Tokens(Kept(msgs, B))
  BY <1>1, <1>2, TokensKept
<1>7. Headed(Kept(msgs, A), msgs)
  <2> SUFFICES ASSUME msgs # << >>, Protected(msgs[1])
               PROVE  Kept(msgs, A) # << >> /\ Kept(msgs, A)[1] = msgs[1]
    BY DEF Headed
  <2>1. msgs[1] \in A
    BY <1>1, <1>2
  <2> QED BY <1>1, <2>1, KeptHead
<1> QED BY <1>1, <1>4, <1>5, <1>6, <1>7 DEF A, B

\* The budget is a number.
LEMMA BudgetTyped ==
  ASSUME config \in Configs, NEW msgs, Conversation(msgs)
  PROVE  /\ Budget(msgs) \in Int /\ config.max_tokens \in Nat
         /\ Tokens(SystemOf(msgs)) \in Nat /\ Tokens(OthersOf(msgs)) \in Nat
         /\ Tokens(msgs) = Tokens(SystemOf(msgs)) + Tokens(OthersOf(msgs))
         /\ config.max_tokens = Tokens(SystemOf(msgs)) + Budget(msgs)
<1>1. Tokens(SystemOf(msgs)) \in Nat /\ Tokens(OthersOf(msgs)) \in Nat
  BY Apportioned, TokensTyped DEF From
<1>2. config.max_tokens \in Nat
  BY ConfigTyped
<1>3. Tokens(msgs) = Tokens(SystemOf(msgs)) + Tokens(OthersOf(msgs))
  BY Apportioned
<1> QED BY <1>1, <1>2, <1>3 DEF Budget

\* Of two messages the one with the lower score is not the more important one
\* of the same time.
LEMMA Weighed ==
  ASSUME NEW a \in Nat, NEW b \in Nat, a < b
  PROVE  Weight * a \in Nat /\ Weight * b \in Nat /\ Weight * a + Weight <= Weight * b
<1>1. Weight \in Nat /\ b - (a + 1) \in Nat /\ b = (a + 1) + (b - (a + 1))
  BY CondenserAssumption
<1>2. PICK c \in Nat : b = (a + 1) + c
  BY <1>1
<1>3. Weight * b = Weight * a + Weight + Weight * c
  BY <1>1, <1>2
<1>4. Weight * a \in Nat /\ Weight * b \in Nat /\ Weight * c \in Nat
  BY <1>1
<1> QED BY <1>1, <1>3, <1>4

\* Of two messages of the same time the more important one, or else the one said
\* first, ranks before the other.
LEMMA RankedTied ==
  ASSUME NEW msgs, Conversation(msgs), \A i \in DOMAIN msgs : Competes(msgs[i]),
         NEW kept, Ranked(kept, msgs)
  PROVE  Tied(kept)
<1> SUFFICES ASSUME NEW a \in DOMAIN kept, NEW b \in DOMAIN kept, a < b,
                    TimeOf(kept[a]) = TimeOf(kept[b])
             PROVE  Sooner(kept[a], kept[b])
  BY DEF Tied
<1>1. PICK i, j \in DOMAIN msgs :
        kept[a] = msgs[i] /\ kept[b] = msgs[j] /\ Precedes(msgs, i, j)
  BY DEF Ranked
<1> DEFINE m == msgs[i]
           n == msgs[j]
           p == m.kind.importance
           q == n.kind.importance
<1>2. m \in Messages /\ n \in Messages
  BY DEF Conversation
<1>3. /\ p \in Nat /\ q \in Nat /\ Recency(m) \in Nat /\ Recency(n) \in Nat
      /\ Score(m) \in Nat /\ Score(n) \in Nat /\ TimeOf(m) = TimeOf(n)
  BY <1>1, <1>2, MessageTyped
<1>4. Recency(m) = Recency(n)
  BY <1>3 DEF Recency
<1>5. Score(m) > Score(n) \/ (Score(m) = Score(n) /\ i < j)
  BY <1>1, <1>3 DEF Precedes, Outranks
<1>6. i < j => MayLead(m, n)
  <2>1. InOrder(msgs) /\ (Protected(m) <=> Protected(n))
    BY DEF Conversation, Competes
  <2> QED BY <2>1 DEF InOrder
<1>7. Score(m) = Weight * p + Recency(m) /\ Score(n) = Weight * q + Recency(n)
  BY DEF Score
<1>8. p > q \/ i < j
  <2>1. CASE p > q
    BY <2>1
  <2>2. CASE p = q
    BY <1>3, <1>4, <1>5, <1>7, <2>2
  <2>3. CASE p < q
    <3>1. /\ Weight * p \in Nat /\ Weight * q \in Nat
          /\ Weight * p + Weight <= Weight * q /\ Weight \in Nat \ {0}
      BY <1>3, <2>3, Weighed, CondenserAssumption
    <3> QED BY <1>3, <1>4, <1>5, <1>7, <3>1
  <2> QED BY <1>3, <2>1, <2>2, <2>3
<1> QED BY <1>1, <1>3, <1>6, <1>8 DEF Sooner, MayLead

\* The window has what was admitted, in the order of time.
LEMMA WindowIs ==
  ASSUME config \in Configs, NEW msgs, Conversation(msgs)
  PROVE  /\ Admitted(Window(msgs), OthersOf(msgs), Budget(msgs))
         /\ Ascending(Window(msgs))
<1> DEFINE O == OthersOf(msgs)
           b == Budget(msgs)
           K == Admit(O, b)
           W == Window(msgs)
<1>1. W = InOrderOfTime(K)
  BY DEF Window
<1>2. Conversation(O) /\ b \in Int /\ \A i \in DOMAIN O : Competes(O[i])
  BY Apportioned, BudgetTyped, Placed
<1> HIDE DEF O, b, W
<1>3. Admitted(K, O, b) /\ Ranked(K, O)
  BY <1>2, AdmitIs
<1> HIDE DEF K
<1>4. From(K, O) /\ K \in Seq(Messages) /\ Tied(K)
  BY <1>2, <1>3, RankedTied DEF Admitted, From
<1>5. W \in Seq(Messages) /\ Ascending(W) /\ ToSet(W) = ToSet(K) /\ Tokens(W) = Tokens(K)
  BY <1>1, <1>4, SortIs DEF Sorted
<1>6. From(W, O)
  <2>1. Unrepeated(W)
    BY <1>5, AscendingUnrepeated
  <2>2. ASSUME NEW i \in DOMAIN W PROVE \E j \in DOMAIN O : W[i] = O[j]
    <3>1. PICK k \in DOMAIN K : W[i] = K[k]
      BY <1>5, Placed
    <3> QED BY <1>4, <3>1 DEF From
  <2> QED BY <1>5, <2>1, <2>2 DEF From
<1>7. W = << >> \/ Tokens(W) <= b
  <2>1. CASE K = << >>
    BY <1>1, <2>1, SortEmpty
  <2>2. CASE K # << >>
    BY <1>3, <1>5, <2>2 DEF Admitted
  <2> QED BY <2>1, <2>2
<1>8. Admitted(W, O, b)
  BY <1>3, <1>5, <1>6, <1>7 DEF Admitted
<1> QED BY <1>5, <1>8 DEF O, b, W

\* What the window makes of a conversation that is too long.
LEMMA Overflow ==
  ASSUME config \in Configs, NEW msgs, Conversation(msgs), Tokens(msgs) > config.max_tokens
  PROVE  /\ SlidingWindow(msgs) = SystemOf(msgs) \o Window(msgs)
         /\ SystemOf(msgs) \in Seq(Messages) /\ Window(msgs) \in Seq(Messages)
         /\ \A x \in ToSet(SystemOf(msgs)) : Protected(x)
         /\ \A x \in ToSet(Window(msgs)) : Competes(x)
         /\ ToSet(SystemOf(msgs)) \subseteq ToSet(msgs) /\ ToSet(Window(msgs)) \subseteq ToSet(msgs)
<1>1. Tokens(msgs) \in Nat /\ config.max_tokens \in Nat
  BY TokensTyped, ConfigTyped DEF Conversation
<1>2. SlidingWindow(msgs) = SystemOf(msgs) \o Window(msgs)
  BY <1>1 DEF SlidingWindow
<1>3. From(SystemOf(msgs), msgs) /\ From(OthersOf(msgs), msgs) /\ From(Window(msgs), OthersOf(msgs))
  BY Apportioned, WindowIs DEF Admitted
<1>4. ToSet(Window(msgs)) \subseteq ToSet(OthersOf(msgs))
  BY <1>3 DEF From, ToSet
<1> QED BY <1>2, <1>3, <1>4, Apportioned DEF From

\* What the window cannot make any shorter.
Settled(msgs) ==
  \/ Tokens(msgs) <= config.max_tokens
  \/ \A i \in DOMAIN msgs : Protected(msgs[i])

\* The window condenses, as far as it can.
LEMMA SlidingWindowIs ==
  ASSUME config \in Configs, NEW msgs, Conversation(msgs)
  PROVE  /\ Condenses(SlidingWindow(msgs), msgs) /\ Settled(SlidingWindow(msgs))
         /\ Budget(msgs) >= 0 => Tokens(SlidingWindow(msgs)) <= config.max_tokens
<1>1. Tokens(msgs) \in Nat /\ config.max_tokens \in Nat
  BY TokensTyped, ConfigTyped DEF Conversation
<1>2. CASE Tokens(msgs) <= config.max_tokens
  <2>1. SlidingWindow(msgs) = msgs
    BY <1>2 DEF SlidingWindow
  <2> QED BY <1>2, <2>1, CondensesItself DEF Settled
<1>3. CASE Tokens(msgs) > config.max_tokens
  <2> DEFINE s == SystemOf(msgs)
             w == Window(msgs)
             r == s \o w
  <2>1. /\ SlidingWindow(msgs) = r /\ s \in Seq(Messages) /\ w \in Seq(Messages)
        /\ \A x \in ToSet(s) : Protected(x) /\ x \in ToSet(msgs)
        /\ \A x \in ToSet(w) : Competes(x) /\ x \in ToSet(msgs)
    BY <1>3, Overflow
  <2>2. /\ From(s, msgs) /\ Conversation(s) /\ Headed(s, msgs)
        /\ Ascending(w) /\ Unrepeated(w)
        /\ w = << >> \/ Tokens(w) <= Budget(msgs)
    BY Apportioned, WindowIs DEF Admitted, From
  <2>3. /\ Budget(msgs) \in Int /\ Tokens(s) \in Nat
        /\ config.max_tokens = Tokens(s) + Budget(msgs) /\ Tokens(s) <= Tokens(msgs)
    BY BudgetTyped
  <2> HIDE DEF s, w
  <2>4. /\ r \in Seq(Messages) /\ ToSet(r) = ToSet(s) \cup ToSet(w)
        /\ Tokens(r) = Tokens(s) + Tokens(w) /\ Tokens(w) \in Nat
    BY <2>1, Joined, ToSetJoined, TokensJoined, TokensTyped
  <2>5. From(r, msgs)
    <3>1. ToSet(s) \cap ToSet(w) = {}
      BY <2>1 DEF Competes
    <3>2. Unrepeated(r)
      BY <2>1, <2>2, <3>1, UnrepeatedJoined DEF From
    <3>3. \A i \in DOMAIN r : r[i] \in ToSet(msgs)
      BY <2>1, <2>4, Placed
    <3> HIDE DEF r
    <3>4. \A i \in DOMAIN r : \E j \in DOMAIN msgs : r[i] = msgs[j]
      BY <3>3, Placed
    <3> QED BY <2>4, <3>2, <3>4 DEF From
  <2>6. w = << >> => Tokens(w) = 0 /\ r = s
    <3>1. s \o << >> = s
      BY <2>1
    <3> QED BY <3>1, TokensEmpty
  <2>7. Tokens(r) <= Tokens(msgs)
    BY <1>1, <1>3, <2>2, <2>3, <2>4, <2>6
  <2>8. Budget(msgs) >= 0 => Tokens(r) <= config.max_tokens
    BY <1>1, <2>2, <2>3, <2>4, <2>6
  <2>9. InOrder(r)
    <3> SUFFICES ASSUME NEW i \in DOMAIN r, NEW j \in DOMAIN r,
                        i < j, Protected(r[i]) <=> Protected(r[j])
                 PROVE  MayLead(r[i], r[j])
      BY DEF InOrder
    <3>1. Len(s) \in Nat /\ i \in Nat /\ j \in Nat /\ DOMAIN s = 1 .. Len(s)
      BY <2>1, Joined
    <3>2. /\ \A k \in DOMAIN s : Protected(s[k])
          /\ \A k \in DOMAIN w : ~ Protected(w[k])
      BY <2>1, Placed DEF Competes
    <3>3. \/ i \in DOMAIN s /\ r[i] = s[i]
          \/ i - Len(s) \in DOMAIN w /\ r[i] = w[i - Len(s)]
      BY <2>1, JoinedPlaces
    <3>4. \/ j \in DOMAIN s /\ r[j] = s[j]
          \/ j - Len(s) \in DOMAIN w /\ r[j] = w[j - Len(s)]
      BY <2>1, JoinedPlaces
    <3> HIDE DEF r
    <3>5. CASE i \in DOMAIN s /\ r[i] = s[i] /\ j \in DOMAIN s /\ r[j] = s[j]
      <4>1. InOrder(s)
        BY <2>2 DEF Conversation
      <4> QED BY <3>2, <3>5, <4>1 DEF InOrder
    <3>6. CASE /\ i - Len(s) \in DOMAIN w /\ r[i] = w[i - Len(s)]
               /\ j - Len(s) \in DOMAIN w /\ r[j] = w[j - Len(s)]
      <4>1. i - Len(s) < j - Len(s)
        BY <3>1
      <4>2. Sooner(r[i], r[j])
        BY <2>2, <3>6, <4>1 DEF Ascending
      <4> QED BY <4>2 DEF Sooner, MayLead
    <3> QED BY <3>2, <3>3, <3>4, <3>5, <3>6
  <2>10. Headed(r, msgs)
    <3> SUFFICES ASSUME msgs # << >>, Protected(msgs[1]) PROVE r # << >> /\ r[1] = msgs[1]
      BY DEF Headed
    <3>1. s # << >> /\ s[1] = msgs[1]
      BY <2>2 DEF Headed
    <3>2. 1 \in DOMAIN s /\ 1 \in DOMAIN r
      BY <2>1, <3>1
    <3>3. r[1] = s[1]
      BY <2>1, <3>2, Joined
    <3>4. r # << >>
      BY <3>2
    <3> QED BY <3>1, <3>3, <3>4
  <2>11. Settled(r)
    <3>1. CASE Budget(msgs) >= 0
      BY <2>8, <3>1 DEF Settled
    <3>2. CASE Budget(msgs) < 0
      <4>1. w = << >>
        BY <2>2, <2>3, <2>4, <3>2
      <4>2. \A i \in DOMAIN s : Protected(s[i])
        BY <2>1, Placed
      <4> HIDE DEF r
      <4> QED BY <2>6, <4>1, <4>2 DEF Settled
    <3> QED BY <2>3, <3>1, <3>2
  <2> HIDE DEF r
  <2>12. Condenses(r, msgs)
    BY <2>5, <2>7, <2>9, <2>10 DEF Condenses
  <2> QED BY <2>1, <2>8, <2>11, <2>12
<1> QED BY <1>1, <1>2, <1>3

\* What it cannot make any shorter it leaves alone.
LEMMA SettledStays ==
  ASSUME config \in Configs, NEW msgs, Conversation(msgs), Settled(msgs)
  PROVE  SlidingWindow(msgs) = msgs
<1>1. CASE Tokens(msgs) <= config.max_tokens
  BY <1>1 DEF SlidingWindow
<1>2. CASE ~ (Tokens(msgs) <= config.max_tokens)
  <2>1. msgs \in Seq(Messages) /\ \A i \in DOMAIN msgs : Protected(msgs[i])
    BY <1>2 DEF Settled, Conversation
  <2>2. SystemOf(msgs) = msgs
    BY <2>1, KeptAll, Placed DEF SystemOf
  <2>3. From(Window(msgs), OthersOf(msgs)) /\ From(OthersOf(msgs), msgs)
    BY Apportioned, WindowIs DEF Admitted
  <2>4. \A i \in DOMAIN OthersOf(msgs) : FALSE
    <3>1. ToSet(OthersOf(msgs)) = {}
      BY <2>1, Apportioned, Placed DEF Competes
    <3> QED BY <3>1, Placed
  <2>5. Window(msgs) = << >>
    <3>1. Window(msgs) \in Seq(Messages) /\ \A i \in DOMAIN Window(msgs) : FALSE
      BY <2>3, <2>4 DEF From
    <3> HIDE DEF Window
    <3>2. PICK w \in Seq(Messages) : w = Window(msgs)
      BY <3>1
    <3>3. ASSUME w # << >> PROVE FALSE
      <4>1. 1 \in DOMAIN w
        BY <3>3
      <4> QED BY <3>1, <3>2, <4>1
    <3> QED BY <3>2, <3>3
  <2>6. msgs \o << >> = msgs
    BY <2>1
  <2> QED BY <1>2, <2>2, <2>5, <2>6 DEF SlidingWindow
<1> QED BY <1>1, <1>2

\* A message that the window drops took more than those that it keeps although
\* they rank below it.
LEMMA WindowRanks ==
  ASSUME config \in Configs, NEW msgs, Conversation(msgs),
         NEW m \in ToSet(msgs), m \notin ToSet(SlidingWindow(msgs)), Competes(m),
         NEW n \in ToSet(SlidingWindow(msgs)), Competes(n), Outranks(m, n)
  PROVE  TokensOf(m) > TokensOf(n)
<1>1. Tokens(msgs) \in Nat /\ config.max_tokens \in Nat
  BY TokensTyped, ConfigTyped DEF Conversation
<1>2. Tokens(msgs) > config.max_tokens
  BY <1>1 DEF SlidingWindow
<1> DEFINE s == SystemOf(msgs)
           w == Window(msgs)
           O == OthersOf(msgs)
<1>3. /\ SlidingWindow(msgs) = s \o w /\ s \in Seq(Messages) /\ w \in Seq(Messages)
      /\ \A x \in ToSet(s) : Protected(x)
  BY <1>2, Overflow
<1>4. ToSet(O) = {x \in ToSet(msgs) : Competes(x)} /\ Admitted(w, O, Budget(msgs))
  BY Apportioned, WindowIs
<1> HIDE DEF s, w, O
<1>5. n \in ToSet(w) /\ m \notin ToSet(w)
  BY <1>3, ToSetJoined DEF Competes
<1>6. \A x \in ToSet(w) : x \in ToSet(O)
  BY <1>4 DEF Admitted, From, ToSet
<1>7. PICK i \in DOMAIN O : m = O[i]
  BY <1>4, Placed
<1>8. PICK j \in DOMAIN O : n = O[j]
  BY <1>5, <1>6, Placed
<1>9. Precedes(O, i, j)
  BY <1>7, <1>8 DEF Precedes
<1> QED BY <1>4, <1>5, <1>7, <1>8, <1>9 DEF Admitted

-----------------------------------------------------------------------------
(* _summarize_trigger                                                      *)

\* A part of a sequence.
LEMMA Part ==
  ASSUME NEW S, NEW s \in Seq(S), NEW a \in 1 .. Len(s), NEW b \in a - 1 .. Len(s)
  PROVE  /\ SubSeq(s, a, b) \in Seq(S) /\ Len(SubSeq(s, a, b)) = b - a + 1
         /\ DOMAIN SubSeq(s, a, b) = 1 .. b - a + 1
         /\ \A i \in 1 .. b - a + 1 : SubSeq(s, a, b)[i] = s[a + i - 1]
OBVIOUS

\* Two sequences with the same entries are the same.
LEMMA SameEntries ==
  ASSUME NEW S, NEW s \in Seq(S), NEW t \in Seq(S), Len(s) = Len(t),
         \A i \in 1 .. Len(s) : s[i] = t[i]
  PROVE  s = t
OBVIOUS

\* A sequence is its parts.
LEMMA Parts ==
  ASSUME NEW S, NEW s \in Seq(S), Len(s) > 4
  PROVE  s = SubSeq(s, 1, 1) \o SubSeq(s, 2, Len(s) - 3) \o SubSeq(s, Len(s) - 2, Len(s))
<1> DEFINE N == Len(s)
           a == SubSeq(s, 1, 1)
           b == SubSeq(s, 2, N - 3)
           c == SubSeq(s, N - 2, N)
<1>1. N \in Nat /\ N > 4 /\ DOMAIN s = 1 .. N
  OBVIOUS
<1>2. a \in Seq(S) /\ Len(a) = 1 /\ a[1] = s[1]
  OBVIOUS
<1>3. b \in Seq(S) /\ Len(b) = N - 4 /\ \A i \in 1 .. N - 4 : b[i] = s[i + 1]
  OBVIOUS
<1>4. c \in Seq(S) /\ Len(c) = 3 /\ \A i \in 1 .. 3 : c[i] = s[N - 3 + i]
  OBVIOUS
<1> HIDE DEF N, a, b, c
<1>5. /\ a \in Seq(S) /\ b \in Seq(S) /\ c \in Seq(S)
      /\ DOMAIN a = 1 .. Len(a) /\ DOMAIN b = 1 .. Len(b)
  BY <1>2, <1>3, <1>4
<1> DEFINE ab == a \o b
<1>6. /\ ab \in Seq(S) /\ Len(ab) = Len(a) + Len(b) /\ DOMAIN ab = 1 .. Len(a) + Len(b)
      /\ \A i \in DOMAIN a : ab[i] = a[i]
      /\ \A i \in DOMAIN b : ab[Len(a) + i] = b[i]
  BY <1>5, Joined
<1> HIDE DEF ab
<1> DEFINE r == ab \o c
<1>7. /\ r \in Seq(S) /\ Len(r) = Len(ab) + Len(c) /\ DOMAIN c = 1 .. Len(c)
      /\ \A i \in DOMAIN ab : r[i] = ab[i]
      /\ \A i \in DOMAIN c : r[Len(ab) + i] = c[i]
  <2>1. ab \in Seq(S) /\ c \in Seq(S)
    BY <1>5, <1>6
  <2> QED BY <2>1, Joined
<1> HIDE DEF r
<1>8. /\ Len(ab) = N - 3 /\ DOMAIN ab = 1 .. N - 3 /\ Len(r) = N
      /\ DOMAIN a = 1 .. 1 /\ DOMAIN b = 1 .. N - 4 /\ DOMAIN c = 1 .. 3
  BY <1>1, <1>2, <1>3, <1>4, <1>5, <1>6, <1>7
<1>9. ASSUME NEW i \in 1 .. N PROVE r[i] = s[i]
  <2>1. CASE i \in 1 .. N - 3
    <3>1. r[i] = ab[i]
      BY <1>7, <1>8, <2>1
    <3>2. CASE i = 1
      BY <1>2, <1>6, <1>8, <3>1, <3>2
    <3>3. CASE i # 1
      <4>1. i - 1 \in 1 .. N - 4 /\ 1 + (i - 1) = i /\ (i - 1) + 1 = i
        BY <1>1, <2>1, <3>3
      <4>2. ab[1 + (i - 1)] = b[i - 1]
        BY <1>2, <1>6, <1>8, <4>1
      <4> QED BY <1>3, <3>1, <4>1, <4>2
    <3> QED BY <3>2, <3>3
  <2>2. CASE i \notin 1 .. N - 3
    <3>1. i - (N - 3) \in 1 .. 3 /\ (N - 3) + (i - (N - 3)) = i
      BY <1>1, <2>2
    <3>2. r[(N - 3) + (i - (N - 3))] = c[i - (N - 3)]
      BY <1>7, <1>8, <3>1
    <3> QED BY <1>4, <3>1, <3>2
  <2> QED BY <2>1, <2>2
<1>10. r = s
  <2>1. r \in Seq(S) /\ Len(r) = Len(s) /\ \A i \in 1 .. Len(r) : r[i] = s[i]
    BY <1>7, <1>8, <1>9 DEF N
  <2> QED BY <2>1, SameEntries
<1> QED BY <1>10 DEF N, a, b, c, ab, r

\* The place in the conversation of each of the messages that are left.
Origin(N, i) == IF i = 1 THEN 1 ELSE N - 4 + i

\* They keep their order.
LEMMA OriginGrows ==
  ASSUME NEW N \in Nat, N > 4, NEW i \in 1 .. 4, NEW j \in 1 .. 4
  PROVE  /\ i < j => Origin(N, i) < Origin(N, j)
         /\ Origin(N, i) = Origin(N, j) => i = j
         /\ Origin(N, 1) = 1
BY DEF Origin

\* What is left of a conversation that is cut down.
LEMMA CutDown ==
  ASSUME NEW msgs \in Seq(Messages), Tokens(msgs) > config.max_tokens, Len(msgs) > 4,
         config.max_tokens \in Nat
  PROVE  /\ Summarize(msgs) \in Seq(Messages) /\ DOMAIN Summarize(msgs) = 1 .. 4
         /\ Len(Summarize(msgs)) = 4
         /\ \A i \in 1 .. 4 : /\ Summarize(msgs)[i] = msgs[Origin(Len(msgs), i)]
                              /\ Origin(Len(msgs), i) \in DOMAIN msgs
         /\ Tokens(Summarize(msgs)) <= Tokens(msgs)
<1> DEFINE N == Len(msgs)
           a == SubSeq(msgs, 1, 1)
           b == SubSeq(msgs, 2, N - 3)
           c == SubSeq(msgs, N - 2, N)
           r == a \o c
<1>1. Summarize(msgs) = r
  <2>1. Tokens(msgs) \in Nat /\ N \in Nat
    BY TokensTyped
  <2> QED BY <2>1 DEF Summarize
<1>2. N \in Nat /\ N > 4 /\ DOMAIN msgs = 1 .. N
  OBVIOUS
<1>3. a \in Seq(Messages) /\ Len(a) = 1 /\ DOMAIN a = {1} /\ a[1] = msgs[1]
  OBVIOUS
<1>4. b \in Seq(Messages)
  OBVIOUS
<1>5. /\ c \in Seq(Messages) /\ Len(c) = 3 /\ DOMAIN c = 1 .. 3
      /\ \A i \in 1 .. 3 : c[i] = msgs[N - 3 + i]
  OBVIOUS
<1>6. msgs = a \o b \o c
  BY Parts
<1> HIDE DEF a, b, c, N
<1>7. r \in Seq(Messages) /\ DOMAIN r = 1 .. 4 /\ Len(r) = 4
  <2>1. a \in Seq(Messages) /\ c \in Seq(Messages)
    BY <1>3, <1>5
  <2>2. r \in Seq(Messages) /\ Len(r) = Len(a) + Len(c) /\ DOMAIN r = 1 .. Len(a) + Len(c)
    BY <2>1, Joined
  <2> HIDE DEF r
  <2> QED BY <1>3, <1>5, <2>2
<1>8. r[1] = a[1] /\ \A i \in 1 .. 3 : r[1 + i] = c[i]
  <2>1. a \in Seq(Messages) /\ c \in Seq(Messages)
    BY <1>3, <1>5
  <2>2. \A i \in DOMAIN a : r[i] = a[i]
    BY <2>1, Joined
  <2>3. \A i \in DOMAIN c : r[Len(a) + i] = c[i]
    BY <2>1, Joined
  <2> HIDE DEF r
  <2> QED BY <1>3, <1>5, <2>2, <2>3
<1>9. ASSUME NEW i \in 1 .. 4 PROVE r[i] = msgs[Origin(N, i)] /\ Origin(N, i) \in DOMAIN msgs
  <2>1. CASE i = 1
    BY <1>2, <1>3, <1>8, <2>1 DEF Origin
  <2>2. CASE i # 1
    <3>1. i - 1 \in 1 .. 3 /\ 1 + (i - 1) = i /\ N - 3 + (i - 1) = N - 4 + i
      BY <1>2, <2>2
    <3>2. r[i] = msgs[N - 4 + i]
      BY <1>5, <1>8, <3>1
    <3> QED BY <1>2, <2>2, <3>2 DEF Origin
  <2> QED BY <2>1, <2>2
<1>10. Tokens(r) <= Tokens(msgs)
  <2>1. a \o b \in Seq(Messages) /\ Tokens(a \o b) = Tokens(a) + Tokens(b)
    BY <1>3, <1>4, Joined, TokensJoined
  <2>2. Tokens(msgs) = (Tokens(a) + Tokens(b)) + Tokens(c)
    BY <1>5, <1>6, <2>1, TokensJoined
  <2>3. Tokens(r) = Tokens(a) + Tokens(c)
    BY <1>3, <1>5, TokensJoined
  <2>4. Tokens(a) \in Nat /\ Tokens(b) \in Nat /\ Tokens(c) \in Nat
    BY <1>3, <1>4, <1>5, TokensTyped
  <2> HIDE DEF r
  <2> QED BY <2>2, <2>3, <2>4
<1> QED BY <1>1, <1>7, <1>9, <1>10 DEF N

\* What cannot be cut down any further.
Short(msgs) == Tokens(msgs) <= config.max_tokens \/ Len(msgs) <= 4

\* The truncation condenses.
LEMMA SummarizeIs ==
  ASSUME config \in Configs, NEW msgs, Conversation(msgs)
  PROVE  /\ Condenses(Summarize(msgs), msgs) /\ Short(Summarize(msgs))
         /\ Short(msgs) => Summarize(msgs) = msgs
<1>1. /\ Tokens(msgs) \in Nat /\ config.max_tokens \in Nat /\ msgs \in Seq(Messages)
      /\ Len(msgs) \in Nat /\ Unrepeated(msgs)
  BY TokensTyped, ConfigTyped, ApartUnrepeated DEF Conversation
<1>2. CASE Short(msgs)
  <2>1. Summarize(msgs) = msgs
    BY <1>2 DEF Short, Summarize
  <2> QED BY <1>2, <2>1, CondensesItself
<1>3. CASE ~ Short(msgs)
  <2> DEFINE r == Summarize(msgs)
             p(i) == Origin(Len(msgs), i)
  <2>1. Tokens(msgs) > config.max_tokens /\ Len(msgs) > 4
    BY <1>1, <1>3 DEF Short
  <2>2. /\ r \in Seq(Messages) /\ DOMAIN r = 1 .. 4 /\ Len(r) = 4
        /\ \A i \in 1 .. 4 : r[i] = msgs[p(i)] /\ p(i) \in DOMAIN msgs
        /\ Tokens(r) <= Tokens(msgs)
    BY <1>1, <2>1, CutDown
  <2>3. /\ \A i, j \in 1 .. 4 : i < j => p(i) < p(j)
        /\ \A i, j \in 1 .. 4 : p(i) = p(j) => i = j
        /\ p(1) = 1
    BY <1>1, <2>1, OriginGrows
  <2> HIDE DEF r, p
  <2>4. Follows(r, msgs)
    BY <2>2, <2>3 DEF Follows
  <2>5. Unrepeated(r)
    BY <1>1, <2>2, <2>3 DEF Unrepeated
  <2>6. From(r, msgs)
    BY <2>2, <2>5 DEF From
  <2>7. Headed(r, msgs)
    <3>1. 1 \in DOMAIN r
      BY <2>2
    <3>2. r # << >>
      BY <3>1
    <3>3. r[1] = msgs[1]
      BY <2>2, <2>3, <3>1
    <3> QED BY <3>2, <3>3 DEF Headed
  <2>8. Condenses(r, msgs)
    BY <2>2, <2>4, <2>6, <2>7, FollowsInOrder DEF Condenses
  <2>9. Short(r)
    BY <2>2 DEF Short
  <2> QED BY <1>3, <2>8, <2>9 DEF r
<1> QED BY <1>2, <1>3

-----------------------------------------------------------------------------
(* condense                                                                *)

UsesDedup     == Uses({"dedup", "hybrid"})
UsesSummarize == Uses({"summarize", "hybrid"})

\* The conversation after _dedup, and after the window.
Deduped(msgs)  == IF UsesDedup THEN Dedup(msgs) ELSE msgs
Windowed(msgs) == IF UsesWindow THEN SlidingWindow(Deduped(msgs)) ELSE Deduped(msgs)

LEMMA Pipeline ==
  ASSUME NEW msgs
  PROVE  Condensed(msgs) = IF UsesSummarize THEN Summarize(Windowed(msgs)) ELSE Windowed(msgs)
BY DEF Condensed, Windowed, Deduped, UsesDedup, UsesSummarize, UsesWindow

\* Every step condenses what the one before it left.
LEMMA StepsCondense ==
  ASSUME config \in Configs, NEW msgs, Conversation(msgs)
  PROVE  /\ Condenses(Deduped(msgs), msgs) /\ Conversation(Deduped(msgs))
         /\ Condenses(Windowed(msgs), Deduped(msgs)) /\ Conversation(Windowed(msgs))
         /\ Condenses(Condensed(msgs), Windowed(msgs)) /\ Conversation(Condensed(msgs))
<1> DEFINE d == Deduped(msgs)
           w == Windowed(msgs)
           c == Condensed(msgs)
<1>1. Condenses(d, msgs)
  BY DedupIs, CondensesItself DEF Deduped
<1>2. Conversation(d)
  BY <1>1, CondensesConversation
<1>3. Condenses(w, d)
  <2> HIDE DEF d
  <2>1. w = IF UsesWindow THEN SlidingWindow(d) ELSE d
    BY DEF Windowed, d
  <2> HIDE DEF w
  <2> QED BY <1>2, <2>1, SlidingWindowIs, CondensesItself
<1>4. Conversation(w)
  BY <1>2, <1>3, CondensesConversation
<1>5. Condenses(c, w)
  <2> HIDE DEF w
  <2>1. c = IF UsesSummarize THEN Summarize(w) ELSE w
    BY Pipeline DEF w
  <2> HIDE DEF c
  <2> QED BY <1>4, <2>1, SummarizeIs, CondensesItself
<1>6. Conversation(c)
  BY <1>4, <1>5, CondensesConversation
<1> QED BY <1>1, <1>2, <1>3, <1>4, <1>5, <1>6

\* condense condenses.
LEMMA CondensedIs ==
  ASSUME config \in Configs, NEW msgs, Conversation(msgs)
  PROVE  Condenses(Condensed(msgs), msgs) /\ Conversation(Condensed(msgs))
<1>1. /\ Condenses(Deduped(msgs), msgs)
      /\ Condenses(Windowed(msgs), Deduped(msgs)) /\ Conversation(Deduped(msgs))
      /\ Condenses(Condensed(msgs), Windowed(msgs)) /\ Conversation(Condensed(msgs))
  BY StepsCondense
<1>2. Condenses(Windowed(msgs), msgs)
  BY <1>1, CondensesTwice
<1>3. Condenses(Condensed(msgs), msgs)
  BY <1>1, <1>2, CondensesTwice
<1> QED BY <1>1, <1>3

\* After the window, a conversation that still has competing messages fits; so
\* the truncation that follows leaves it alone.
LEMMA WindowDecides ==
  ASSUME config \in Configs, NEW msgs, Conversation(msgs), UsesWindow
  PROVE  /\ Settled(Windowed(msgs)) /\ Settled(Condensed(msgs))
         /\ \/ Condensed(msgs) = Windowed(msgs)
            \/ \A x \in ToSet(Condensed(msgs)) : Protected(x)
<1> DEFINE w == Windowed(msgs)
           c == Condensed(msgs)
<1>1. Conversation(w) /\ Condenses(c, w)
  BY StepsCondense
<1>2. Settled(w)
  BY StepsCondense, SlidingWindowIs DEF Windowed
<1>3. c = w \/ c = Summarize(w)
  BY Pipeline
<1> HIDE DEF w, c
<1>4. CASE Tokens(w) <= config.max_tokens
  <2>1. c = w
    BY <1>1, <1>3, <1>4, SummarizeIs DEF Short
  <2> QED BY <1>2, <2>1 DEF w, c
<1>5. CASE \A i \in DOMAIN w : Protected(w[i])
  <2>1. \A i \in DOMAIN c : Protected(c[i])
    BY <1>1, <1>5 DEF Condenses, From
  <2>2. \A x \in ToSet(c) : Protected(x)
    BY <2>1, Placed
  <2>3. Settled(c)
    BY <2>1 DEF Settled
  <2> QED BY <1>2, <2>2, <2>3 DEF w, c
<1> QED BY <1>2, <1>4, <1>5 DEF Settled

\* What was condensed is condensed.
LEMMA CondensedStays ==
  ASSUME config \in Configs, NEW msgs, Conversation(msgs)
  PROVE  Condensed(Condensed(msgs)) = Condensed(msgs)
<1> DEFINE d == Deduped(msgs)
           w == Windowed(msgs)
           c == Condensed(msgs)
<1>1. /\ Conversation(d) /\ Conversation(w) /\ Conversation(c)
      /\ Condenses(w, d) /\ Condenses(c, w)
  BY StepsCondense
<1>2. UsesDedup => NoTwins(d)
  BY DedupIs DEF Deduped
<1>3. UsesWindow => Settled(c)
  BY WindowDecides
<1>4. UsesSummarize => c = Summarize(w)
  BY Pipeline
<1> HIDE DEF d, w, c
<1>5. UsesDedup => Dedup(c) = c
  <2>1. From(c, d)
    BY <1>1, FromFrom DEF Condenses
  <2> QED BY <1>1, <1>2, <2>1, FromNoTwins, NoTwinsStay
<1>6. UsesWindow => SlidingWindow(c) = c
  BY <1>1, <1>3, SettledStays
<1>7. UsesSummarize => Summarize(c) = c
  <2> SUFFICES ASSUME UsesSummarize PROVE Summarize(c) = c
    OBVIOUS
  <2>1. Short(c)
    BY <1>1, <1>4, SummarizeIs
  <2> QED BY <1>1, <2>1, SummarizeIs
<1>8. Deduped(c) = c
  BY <1>5 DEF Deduped
<1>9. Windowed(c) = c
  BY <1>6, <1>8 DEF Windowed
<1>10. Condensed(c) = c
  BY <1>7, <1>9, Pipeline
<1> QED BY <1>10 DEF c

\* The system messages take as much after _dedup as before.
LEMMA FitsBudget ==
  ASSUME config \in Configs, NEW msgs, Conversation(msgs), UsesWindow, Budget(msgs) >= 0
  PROVE  Tokens(Condensed(msgs)) <= config.max_tokens
<1> DEFINE d == Deduped(msgs)
           w == Windowed(msgs)
           c == Condensed(msgs)
<1>1. Conversation(d) /\ Conversation(w) /\ Conversation(c) /\ Condenses(c, w)
  BY StepsCondense
<1>2. Budget(d) = Budget(msgs)
  BY DedupIs DEF Deduped, Budget
<1>3. w = SlidingWindow(d)
  BY DEF Windowed
<1> HIDE DEF d, w, c
<1>4. Tokens(w) <= config.max_tokens
  BY <1>1, <1>2, <1>3, SlidingWindowIs
<1>5. Tokens(c) <= Tokens(w)
  BY <1>1 DEF Condenses
<1>6. Tokens(c) \in Nat /\ Tokens(w) \in Nat /\ config.max_tokens \in Nat
  BY <1>1, TokensTyped, ConfigTyped DEF Conversation
<1>7. Tokens(c) <= config.max_tokens
  BY <1>4, <1>5, <1>6
<1> QED BY <1>7 DEF c

\* What is above in importance and age has a higher score.
LEMMA AboveOutranks ==
  ASSUME NEW m \in Messages, NEW n \in Messages, Above(m, n) PROVE Outranks(m, n)
<1> DEFINE p == m.kind.importance
           q == n.kind.importance
<1>1. /\ TimeOf(m) \in Nat /\ TimeOf(n) \in Nat /\ Recency(m) \in Nat /\ Recency(n) \in Nat
      /\ Granule \in Nat \ {0} /\ Weight \in Nat \ {0} /\ p \in Nat /\ q \in Nat
  BY MessageTyped, CondenserAssumption
<1>2. Score(m) = Weight * p + Recency(m) /\ Score(n) = Weight * q + Recency(n)
  BY DEF Score
<1> HIDE DEF p, q
<1>3. CASE p > q /\ Recency(n) < Recency(m) + Weight
  <2>1. Weight * q \in Nat /\ Weight * p \in Nat /\ Weight * q + Weight <= Weight * p
    BY <1>1, <1>3, Weighed
  <2> QED BY <1>1, <1>2, <1>3, <2>1 DEF Outranks
<1>4. CASE p = q /\ TimeOf(m) >= TimeOf(n) + Granule
  <2>1. /\ TimeOf(m) = Granule * Recency(m) + (TimeOf(m) % Granule)
        /\ TimeOf(n) = Granule * Recency(n) + (TimeOf(n) % Granule)
        /\ TimeOf(m) % Granule \in 0 .. Granule - 1
        /\ TimeOf(n) % Granule \in 0 .. Granule - 1
    BY <1>1, Division DEF Recency
  <2>2. PICK a \in Nat : a = Recency(m)
    BY <1>1
  <2>3. PICK b \in Nat : b = Recency(n)
    BY <1>1
  <2>4. a > b
    <3>1. ASSUME a <= b PROVE FALSE
      <4>1. Granule * a <= Granule * b
        BY <1>1, <3>1
      <4>2. Granule * a \in Nat /\ Granule * b \in Nat
        BY <1>1
      <4> QED BY <1>1, <1>4, <2>1, <2>2, <2>3, <4>1, <4>2
    <3> QED BY <3>1
  <2>5. Weight * p \in Nat
    BY <1>1
  <2> QED BY <1>2, <1>4, <2>2, <2>3, <2>4, <2>5 DEF Outranks
<1> QED BY <1>3, <1>4 DEF Above, p, q

\* What was dropped for the budget took more than what was kept below it.
LEMMA DroppedForBudget ==
  ASSUME config \in Configs, NEW msgs, Conversation(msgs), UsesWindow,
         NEW i \in DOMAIN msgs, msgs[i] \notin ToSet(Condensed(msgs)),
         config.strategy = "hybrid" => ~ Repeats(msgs, i),
         NEW n \in ToSet(Condensed(msgs)), Competes(msgs[i]), Competes(n), Above(msgs[i], n)
  PROVE  TokensOf(msgs[i]) > TokensOf(n)
<1> DEFINE d == Deduped(msgs)
           w == Windowed(msgs)
           m == msgs[i]
<1>1. Conversation(d) /\ w = SlidingWindow(d)
  BY StepsCondense DEF Windowed
<1>2. Condensed(msgs) = w
  BY WindowDecides DEF Competes
<1>3. m \in ToSet(d)
  <2>1. CASE UsesDedup
    <3>1. config.strategy = "hybrid"
      BY <2>1 DEF UsesDedup, UsesWindow, Uses
    <3> QED BY <2>1, <3>1, DedupIs DEF Deduped
  <2>2. CASE ~ UsesDedup
    BY <2>2, Placed DEF Deduped
  <2> QED BY <2>1, <2>2
<1>4. m \in Messages /\ n \in Messages
  <2>1. msgs \in Seq(Messages) /\ Condensed(msgs) \in Seq(Messages)
    BY CondensedIs DEF Conversation
  <2> QED BY <2>1 DEF ToSet
<1>5. Outranks(m, n)
  BY <1>4, AboveOutranks
<1> HIDE DEF d, w
<1> QED BY <1>1, <1>2, <1>3, <1>5, WindowRanks

-----------------------------------------------------------------------------
(* The theorems                                                            *)

\* What was not said yet is not in the conversation.
IInv ==
  /\ TypeOK
  /\ Conversation(history)
  /\ \A i \in DOMAIN history : history[i].said <= said

LEMMA InitInv == Init => IInv
<1> SUFFICES ASSUME Init PROVE IInv
  OBVIOUS
<1>1. history \in Seq(Messages) /\ DOMAIN history = {}
  BY DEF Init
<1>2. TypeOK
  BY <1>1, CondenserAssumption DEF Init, TypeOK
<1> QED BY <1>1, <1>2 DEF IInv, Conversation, Apart, InOrder

\* One more message was said after all others.
LEMMA SayKeeps == ASSUME IInv, NEW kind \in Kinds, Say(kind) PROVE IInv'
<1> DEFINE m    == Message(kind, said')
           more == Append(history, m)
<1>1. /\ history' = more /\ said' = said + 1
      /\ said \in Nat /\ said < MaxMessages /\ MaxMessages \in Nat
      /\ config' = config /\ total_compressed' = total_compressed /\ total_saved' = total_saved
      /\ history \in Seq(Messages)
  BY CondenserAssumption DEF Say, IInv, TypeOK
<1>2. m \in Messages /\ m.said = said'
  BY <1>1 DEF Message, Messages
<1> HIDE DEF m
<1>3. /\ more \in Seq(Messages) /\ Len(history) \in Nat /\ DOMAIN history = 1 .. Len(history)
      /\ DOMAIN more = 1 .. Len(history) + 1
      /\ more[Len(history) + 1] = m /\ \A i \in 1 .. Len(history) : more[i] = history[i]
  BY <1>1, <1>2, Appended
<1> HIDE DEF more
<1>4. ASSUME NEW i \in DOMAIN more
      PROVE  \/ i \in DOMAIN history /\ more[i] = history[i]
             \/ i = Len(history) + 1 /\ more[i] = m
  BY <1>3
<1>5. \A i \in DOMAIN history : /\ history[i].said \in Nat /\ history[i].said < m.said
                                /\ i < Len(history) + 1
  <2> TAKE i \in DOMAIN history
  <2>1. history[i].said <= said /\ history[i].said \in Nat
    BY <1>1, MessageTyped DEF IInv
  <2> QED BY <1>1, <1>2, <1>3, <2>1
<1>6. TypeOK'
  <2>1. said' \in 0 .. MaxMessages
    BY <1>1
  <2> QED BY <1>1, <1>3, <2>1 DEF IInv, TypeOK
<1>7. Apart(more)
  <2> SUFFICES ASSUME NEW i \in DOMAIN more, NEW j \in DOMAIN more, more[i].said = more[j].said
               PROVE  i = j
    BY DEF Apart
  <2>1. ~ (i \in DOMAIN history /\ j = Len(history) + 1 /\ more[i] = history[i] /\ more[j] = m)
    BY <1>5
  <2>2. ~ (j \in DOMAIN history /\ i = Len(history) + 1 /\ more[j] = history[j] /\ more[i] = m)
    BY <1>5
  <2>3. i \in DOMAIN history /\ j \in DOMAIN history /\ more[i] = history[i] /\ more[j] = history[j]
        => i = j
    BY DEF IInv, Conversation, Apart
  <2> QED BY <1>4, <2>1, <2>2, <2>3
<1>8. ASSUME NEW i \in DOMAIN more PROVE more[i].said <= said'
  <2>1. CASE more[i] = m
    BY <1>1, <1>2, <2>1
  <2>2. CASE i \in DOMAIN history /\ more[i] = history[i]
    BY <1>1, <1>2, <1>5, <2>2
  <2> QED BY <1>4, <2>1, <2>2
<1>9. InOrder(more)
  <2> SUFFICES ASSUME NEW i \in DOMAIN more, NEW j \in DOMAIN more,
                      i < j, Protected(more[i]) <=> Protected(more[j])
               PROVE  MayLead(more[i], more[j])
    BY DEF InOrder
  <2>1. i \in DOMAIN history /\ more[i] = history[i]
    BY <1>3
  <2>2. CASE j \in DOMAIN history /\ more[j] = history[j]
    BY <2>1, <2>2 DEF IInv, Conversation, InOrder
  <2>3. CASE more[j] = m
    BY <1>5, <2>1, <2>3 DEF MayLead
  <2> QED BY <1>4, <2>2, <2>3
<1>10. history' = more
  BY <1>1
<1>11. Conversation(history)'
  BY <1>1, <1>3, <1>7, <1>9, <1>10 DEF Conversation, Apart, InOrder, Protected
<1>12. \A i \in DOMAIN history' : history'[i].said <= said'
  BY <1>8, <1>10
<1> QED BY <1>6, <1>11, <1>12 DEF IInv

\* What condense makes of a conversation is one, and saves tokens or none.
LEMMA CondenseKeeps ==
  ASSUME IInv, Condense
  PROVE  /\ IInv'
         /\ history' = Condensed(history) /\ Condenses(history', history)
         /\ config' = config /\ config \in Configs
         /\ Conversation(history) /\ Conversation(history')
<1>1. /\ config \in Configs /\ Conversation(history)
      /\ history \in Seq(Messages) /\ said \in 0 .. MaxMessages /\ total_saved \in Nat
      /\ total_compressed \in 0 .. MaxCondensed /\ MaxCondensed \in Nat
  BY CondenserAssumption DEF IInv, TypeOK
<1>2. /\ history' = Condensed(history) /\ total_compressed < MaxCondensed
      /\ total_compressed' = total_compressed + 1
      /\ total_saved' = total_saved + Saving(history, history')
      /\ config' = config /\ said' = said
  BY DEF Condense
<1>3. Condenses(history', history) /\ Conversation(history')
  BY <1>1, <1>2, CondensedIs
<1>4. From(history', history) /\ Tokens(history') <= Tokens(history)
  BY <1>1, <1>3 DEF Condenses
<1>5. history' \in Seq(Messages) /\ Tokens(history') \in Nat /\ Tokens(history) \in Nat
  BY <1>1, <1>4, TokensTyped DEF From
<1>6. total_saved' \in Nat
  <2>1. Saving(history, history') \in Nat
    BY <1>4, <1>5 DEF Saving
  <2> QED BY <1>1, <1>2, <2>1
<1>7. total_compressed' \in 0 .. MaxCondensed
  BY <1>1, <1>2
<1>8. TypeOK'
  BY <1>1, <1>2, <1>5, <1>6, <1>7 DEF TypeOK
<1>9. \A i \in DOMAIN history' : history'[i].said <= said'
  <2> TAKE i \in DOMAIN history'
  <2>1. PICK j \in DOMAIN history : history'[i] = history[j]
    BY <1>4 DEF From
  <2> QED BY <1>2, <2>1 DEF IInv
<1>10. Conversation(history)'
  BY <1>2, <1>3 DEF Conversation, Apart, InOrder, Protected
<1>11. IInv'
  BY <1>8, <1>9, <1>10 DEF IInv
<1> QED BY <1>1, <1>2, <1>3, <1>11

LEMMA StepInv == IInv /\ [Next]_vars => IInv'
<1> SUFFICES ASSUME IInv, [Next]_vars PROVE IInv'
  OBVIOUS
<1>1. CASE Condense
  BY <1>1, CondenseKeeps
<1>2. ASSUME NEW kind \in Kinds, Say(kind) PROVE IInv'
  BY <1>2, SayKeeps
<1>3. CASE UNCHANGED vars
  BY <1>3 DEF vars, IInv, TypeOK, Conversation, Apart, InOrder, Protected
<1> QED BY <1>1, <1>2, <1>3 DEF Next

\* The inductive invariant holds in every state.
THEOREM InductiveInvariant == Spec => []IInv
BY InitInv, StepInv, PTL DEF Spec

\* Every variable has its type; above all, what was saved in all is never
\* negative: condense never makes a conversation longer.
THEOREM NothingGrows == Spec => []TypeOK
<1>1. IInv => TypeOK
  BY DEF IInv
<1> QED BY <1>1, InductiveInvariant, PTL

\* A step that counts a condensing is one.
LEMMA OnlyCondense ==
  ASSUME IInv, [Next]_vars, Condensing
  PROVE  /\ history' = Condensed(history) /\ Condenses(history', history)
         /\ config' = config /\ config \in Configs
         /\ Conversation(history) /\ Conversation(history')
<1>1. Condense
  BY DEF Next, Say, Condensing, vars
<1> QED BY <1>1, CondenseKeeps

\* condense selects messages, and two of them change places only if their
\* timestamps, or their importance at the same time, ask for it, whatever the
\* strategy and however the clock went.
THEOREM Selecting == Spec => OnlySelects
<1> DEFINE A == Condensing => /\ ToSet(history') \subseteq ToSet(history)
                              /\ IsInjective(history')
                              /\ InOrder(history')
<1>1. IInv /\ [Next]_vars => [A]_vars
  <2> SUFFICES ASSUME IInv, [Next]_vars, Condensing
               PROVE  /\ ToSet(history') \subseteq ToSet(history)
                      /\ IsInjective(history')
                      /\ InOrder(history')
    OBVIOUS
  <2>1. From(history', history) /\ InOrder(history')
    BY OnlyCondense DEF Condenses, Conversation
  <2>2. ToSet(history') \subseteq ToSet(history)
    BY <2>1 DEF From, ToSet
  <2>3. IsInjective(history')
    BY <2>1 DEF From, Unrepeated, IsInjective
  <2> QED BY <2>1, <2>2, <2>3
<1> QED BY <1>1, InductiveInvariant, PTL DEF Spec, OnlySelects

\* The sliding window keeps within max_tokens whenever the system messages
\* leave room for anything, after duplicates were dropped and before the
\* truncation too.
THEOREM WindowFits == Spec => WithinBudget
<1> DEFINE A == Condensing /\ UsesWindow /\ Budget(history) >= 0
                  => Tokens(history') <= config.max_tokens
<1>1. IInv /\ [Next]_vars => [A]_vars
  BY OnlyCondense, FitsBudget
<1> QED BY <1>1, InductiveInvariant, PTL DEF Spec, WithinBudget

\* To condense what was condensed changes nothing.
THEOREM CondensedOnce == Spec => Stable
<1> DEFINE A == Condensing => Condensed(history') = history'
<1>1. IInv /\ [Next]_vars => [A]_vars
  BY OnlyCondense, CondensedStays
<1> QED BY <1>1, InductiveInvariant, PTL DEF Spec, Stable

\* The loop over the scores drops a message for the budget only if it takes
\* more tokens than all that it keeps and that rank below it.
THEOREM BudgetDecides == Spec => ImportanceFirst
<1> DEFINE A == Condensing /\ UsesWindow =>
                  \A i \in DOMAIN history : \A n \in ToSet(history') :
                    /\ history[i] \in Dropped
                    /\ config.strategy = "hybrid" => ~ Repeats(history, i)
                    /\ Competes(history[i]) /\ Competes(n)
                    /\ Above(history[i], n)
                    => TokensOf(history[i]) > TokensOf(n)
<1>1. IInv /\ [Next]_vars => [A]_vars
  <2> SUFFICES ASSUME IInv, [Next]_vars, Condensing, UsesWindow,
                      NEW i \in DOMAIN history, NEW n \in ToSet(history'),
                      history[i] \in Dropped,
                      config.strategy = "hybrid" => ~ Repeats(history, i),
                      Competes(history[i]), Competes(n), Above(history[i], n)
               PROVE  TokensOf(history[i]) > TokensOf(n)
    OBVIOUS
  <2>1. history' = Condensed(history) /\ config \in Configs /\ Conversation(history)
    BY OnlyCondense
  <2>2. history[i] \notin ToSet(Condensed(history)) /\ n \in ToSet(Condensed(history))
    BY <2>1 DEF Dropped
  <2> QED BY <2>1, <2>2, DroppedForBudget
<1> QED BY <1>1, InductiveInvariant, PTL DEF Spec, ImportanceFirst

\* The system prompt still opens the conversation after every strategy.
THEOREM PromptKept == Spec => PromptStaysFirst
<1> DEFINE A == /\ Condensing /\ config.preserve_system
                /\ history # << >> /\ IsSystem(Head(history))
                => history' # << >> /\ Head(history') = Head(history)
<1>1. IInv /\ [Next]_vars => [A]_vars
  <2> SUFFICES ASSUME IInv, [Next]_vars, Condensing, config.preserve_system,
                      history # << >>, IsSystem(Head(history))
               PROVE  history' # << >> /\ Head(history') = Head(history)
    OBVIOUS
  <2>1. Headed(history', history) /\ From(history', history) /\ history \in Seq(Messages)
    BY OnlyCondense DEF Condenses, Conversation
  <2>2. Head(history) = history[1] /\ Head(history') = history'[1]
    OBVIOUS
  <2>3. Protected(history[1])
    BY <2>2 DEF Protected
  <2> QED BY <2>1, <2>2, <2>3 DEF Headed
<1> QED BY <1>1, InductiveInvariant, PTL DEF Spec, PromptStaysFirst

=============================================================================
