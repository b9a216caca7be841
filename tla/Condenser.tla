------------------------------ MODULE Condenser ------------------------------
(***************************************************************************)
(* The context condenser, python/condenser.py.  A conversation grows by    *)
(* messages and is replaced, every now and then, by what condense makes of *)
(* it: duplicates dropped, then a sliding window over the most important   *)
(* and most recent messages, then a blunt truncation.                      *)
(***************************************************************************)
EXTENDS Integers, Lists, SequencesExt

CONSTANTS
  Kinds,        \* what can be said: role, content, timestamp, token_count, importance
  Configs,      \* the settings of a condenser and of its inputs
  Weight,       \* what one unit of importance adds to a score
  Granule,      \* so many consecutive timestamps make no difference to a score
  MaxMessages,  \* bound on the messages of a conversation
  MaxCondensed  \* bound on total_compressed

Strategies == {"none", "dedup", "sliding_window", "summarize", "hybrid"}

\* CompressionStrategy of the Condenser, and the fields of CondenserInput.
\* inp.strategy is read nowhere.
ConfigType == [strategy : Strategies, max_tokens : Nat, preserve_system : BOOLEAN,
               min_messages : Nat]

ASSUME CondenserAssumption ==
  /\ Configs \subseteq ConfigType
  /\ \A k \in Kinds : k.tokens \in Nat \ {0} /\ k.importance \in Nat /\ k.time \in Nat
  /\ Weight \in Nat \ {0} /\ Granule \in Nat \ {0}
  /\ MaxMessages \in Nat /\ MaxCondensed \in Nat

VARIABLES
  config,
  history,           \* the conversation
  said,              \* how many messages were ever said
  total_compressed,
  total_saved

vars == <<config, history, said, total_compressed, total_saved>>

\* A message is an object, told from its equals by when it was made; its
\* timestamp is what the clock or the caller said.
Message(kind, number) == [kind |-> kind, said |-> number]

Init ==
  /\ config \in Configs
  /\ history = << >>
  /\ said = 0
  /\ total_compressed = 0 /\ total_saved = 0

TokensOf(m)  == m.kind.tokens
TimeOf(m)    == m.kind.time
Tokens(msgs) ==
  LET sum[n \in 0 .. Len(msgs)] == IF n = 0 THEN 0 ELSE sum[n - 1] + TokensOf(msgs[n])
  IN sum[Len(msgs)]
IsSystem(m)  == m.kind.role = "system"

\* What the condenser sets apart from the messages that compete.
Protected(m) == config.preserve_system /\ IsSystem(m)
Competes(m)  == ~Protected(m)

\* system_msgs and other_msgs.
SystemOf(msgs) == Kept(msgs, {m \in ToSet(msgs) : Protected(m)})
OthersOf(msgs) == Kept(msgs, {m \in ToSet(msgs) : Competes(m)})

-----------------------------------------------------------------------------
(* _dedup                                                                  *)

Fingerprint(m) == <<m.kind.role, m.kind.content>>

\* The fingerprint was seen before.
Repeats(msgs, i) == \E j \in 1 .. i - 1 : Fingerprint(msgs[j]) = Fingerprint(msgs[i])

\* No message is in a conversation twice: a set of messages says which stay.
Dedup(msgs) ==
  Kept(msgs, {msgs[i] : i \in {j \in DOMAIN msgs : Protected(msgs[j]) \/ ~Repeats(msgs, j)}})

-----------------------------------------------------------------------------
(* _sliding_window                                                         *)

\* The score is a double near 0.6 to which a timestamp adds so little that
\* two close ones round to the same; two distant ones can outweigh a difference
\* in importance.
Recency(m) == TimeOf(m) \div Granule
Score(m)   == Weight * m.kind.importance + Recency(m)

\* Fault: the newest first, whatever the importance.
NewerFirst(m, n) == Recency(m) > Recency(n)

Outranks(m, n) == Score(m) > Score(n)

\* By descending score; the sort is stable, so that ties stay as they were.
Precedes(msgs, i, j) ==
  Outranks(msgs[i], msgs[j]) \/ (~Outranks(msgs[j], msgs[i]) /\ i < j)

\* Fault: what the system messages take is not set aside.
BudgetBesideNothing(msgs) == config.max_tokens

\* Below zero when the system messages alone are too many.
Budget(msgs) == config.max_tokens - Tokens(SystemOf(msgs))

\* One turn of the loop over the scores, which skips what does not fit and ends
\* when both the minimum of messages and nine tenths of the budget are reached.
Consider(msgs, budget, s) ==
  LET i    == CHOOSE i \in s.left : \A j \in s.left \ {i} : Precedes(msgs, i, j)
      fits == s.used + TokensOf(msgs[i]) <= budget
      used == IF fits THEN s.used + TokensOf(msgs[i]) ELSE s.used
      kept == IF fits THEN Append(s.kept, msgs[i]) ELSE s.kept
  IN IF s.over \/ s.left = {} THEN s
     ELSE [left |-> s.left \ {i}, used |-> used, kept |-> kept,
           over |-> Len(kept) >= config.min_messages /\ used * 10 >= budget * 9]

\* What is kept, in the order of the scores.
Admit(msgs, budget) ==
  LET loop[n \in 0 .. Len(msgs)] ==
        IF n = 0 THEN [left |-> DOMAIN msgs, used |-> 0, kept |-> << >>, over |-> FALSE]
        ELSE Consider(msgs, budget, loop[n - 1])
  IN loop[Len(msgs)].kept

\* Fault: the messages stay in the order of their scores.
InOrderOfScore(msgs) == msgs

\* After those that are not later.
Insert(msgs, m) ==
  Kept(msgs, {n \in ToSet(msgs) : TimeOf(n) <= TimeOf(m)}) \o <<m>>
    \o Kept(msgs, {n \in ToSet(msgs) : TimeOf(n) > TimeOf(m)})

\* kept.sort by timestamp.
InOrderOfTime(msgs) ==
  LET sorted[n \in 0 .. Len(msgs)] == IF n = 0 THEN << >> ELSE Insert(sorted[n - 1], msgs[n])
  IN sorted[Len(msgs)]

\* The loop over what competes, and kept.sort.
Window(msgs) == InOrderOfTime(Admit(OthersOf(msgs), Budget(msgs)))

\* Fault: the system messages come last.
WindowBeforeSystem(msgs) ==
  IF Tokens(msgs) <= config.max_tokens THEN msgs ELSE Window(msgs) \o SystemOf(msgs)

SlidingWindow(msgs) ==
  IF Tokens(msgs) <= config.max_tokens THEN msgs ELSE SystemOf(msgs) \o Window(msgs)

-----------------------------------------------------------------------------
(* _summarize_trigger, a placeholder that truncates                        *)

\* Fault: a short conversation is put together from itself.
SummarizeShort(msgs) ==
  IF Tokens(msgs) <= config.max_tokens THEN msgs
  ELSE SubSeq(msgs, 1, 1) \o SubSeq(msgs, IF Len(msgs) < 3 THEN 1 ELSE Len(msgs) - 2, Len(msgs))

\* The first message and the last three.
Summarize(msgs) ==
  IF Tokens(msgs) <= config.max_tokens \/ Len(msgs) <= 4 THEN msgs
  ELSE SubSeq(msgs, 1, 1) \o SubSeq(msgs, Len(msgs) - 2, Len(msgs))

-----------------------------------------------------------------------------
(* condense                                                                *)

Uses(strategies) == config.strategy \in strategies

Condensed(msgs) ==
  LET deduped  == IF Uses({"dedup", "hybrid"}) THEN Dedup(msgs) ELSE msgs
      windowed == IF Uses({"sliding_window", "hybrid"}) THEN SlidingWindow(deduped) ELSE deduped
  IN IF Uses({"summarize", "hybrid"}) THEN Summarize(windowed) ELSE windowed

\* Fault: the difference the wrong way round.
SavingBackwards(before, after) == Tokens(after) - Tokens(before)

Saving(before, after) == Tokens(before) - Tokens(after)

\* The conversation goes on with the output.
Condense ==
  /\ total_compressed < MaxCondensed
  /\ history' = Condensed(history)
  /\ total_compressed' = total_compressed + 1
  /\ total_saved' = total_saved + Saving(history, history')
  /\ UNCHANGED <<config, said>>

\* Message(role, content, ...), and the conversation that holds it.  Timestamps
\* need not ascend: time.time() repeats and steps back, and callers give their own.
Say(kind) ==
  /\ said < MaxMessages
  /\ said' = said + 1
  /\ history' = Append(history, Message(kind, said'))
  /\ UNCHANGED <<config, total_compressed, total_saved>>

Next == Condense \/ \E kind \in Kinds : Say(kind)

Spec == Init /\ [][Next]_vars

-----------------------------------------------------------------------------
(* Properties                                                              *)

Messages == [kind : Kinds, said : 1 .. MaxMessages]

\* Every variable has its type: what was saved in all is never negative, so
\* no condensing ever made a conversation longer.
TypeOK ==
  /\ config \in Configs
  /\ history \in Seq(Messages)
  /\ said \in 0 .. MaxMessages
  /\ total_compressed \in 0 .. MaxCondensed
  /\ total_saved \in Nat

Condensing    == total_compressed' # total_compressed
UsesWindow    == Uses({"sliding_window", "hybrid"})
Dropped       == ToSet(history) \ ToSet(history')

\* m may come before n: it was said before n, or the clock says so, or the clock
\* says that they are of the same time and m is more important.
MayLead(m, n) ==
  \/ m.said < n.said
  \/ TimeOf(m) < TimeOf(n)
  \/ TimeOf(m) = TimeOf(n) /\ m.kind.importance > n.kind.importance

\* What is protected and what competes are two conversations of their own.
InOrder(msgs) ==
  \A i, j \in DOMAIN msgs :
    i < j /\ (Protected(msgs[i]) <=> Protected(msgs[j])) => MayLead(msgs[i], msgs[j])

\* Whatever the steps of the pipeline do to each other's results, and however
\* often they do it, condense selects: it invents and repeats nothing, and two
\* messages change places only if their timestamps, or their importance at the
\* same time, ask for it.  While the clock ascends, what was said stays in the
\* order in which it was said.
OnlySelects ==
  [][Condensing =>
       /\ ToSet(history') \subseteq ToSet(history)
       /\ IsInjective(history')
       /\ InOrder(history')]_vars

\* The window keeps within max_tokens whenever the system messages leave room
\* for anything at all.
WithinBudget ==
  [][Condensing /\ UsesWindow /\ Budget(history) >= 0 =>
       Tokens(history') <= config.max_tokens]_vars

\* What was condensed is condensed: to condense it again, with nothing said in
\* between, changes nothing, for every strategy and every overflow.
Stable == [][Condensing => Condensed(history') = history']_vars

\* m is more important, and what n is newer by does not outweigh it; or m is as
\* important, and newer by what a score can tell.
Above(m, n) ==
  \/ m.kind.importance > n.kind.importance /\ Recency(n) < Recency(m) + Weight
  \/ m.kind.importance = n.kind.importance /\ TimeOf(m) >= TimeOf(n) + Granule

\* "Keep most recent + important messages": a message that was dropped for the
\* budget took more tokens than any that was kept although it is below it in
\* importance and age.
ImportanceFirst ==
  [][Condensing /\ UsesWindow =>
       \A i \in DOMAIN history : \A n \in ToSet(history') :
         /\ history[i] \in Dropped
         /\ config.strategy = "hybrid" => ~Repeats(history, i)
         /\ Competes(history[i]) /\ Competes(n)
         /\ Above(history[i], n)
         => TokensOf(history[i]) > TokensOf(n)]_vars

\* A system prompt that opens the conversation still opens it afterwards, if
\* system messages are to be preserved, however far the conversation overflows.
PromptStaysFirst ==
  [][/\ Condensing /\ config.preserve_system
     /\ history # << >> /\ IsSystem(Head(history))
     => history' # << >> /\ Head(history') = Head(history)]_vars

=============================================================================
