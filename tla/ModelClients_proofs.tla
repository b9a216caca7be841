------------------------- MODULE ModelClients_proofs -------------------------
(***************************************************************************)
(* Proofs about the provider clients, for any number of calls at a time    *)
(* and whatever they ask.                                                  *)
(***************************************************************************)
EXTENDS ModelClients, CommonLemmas, SequenceTheorems

CallType ==
  [pc : Places,
   attempt : 0 .. Attempts - 1, last_err : {"none", "server", "timeout"},
   response : [success : BOOLEAN, tokens : Nat, cost : Nat, error : Errors]]

\* The types, but for the number of posts, which needs the attempts.
Types ==
  /\ ask \in Workloads
  /\ call \in [Calls -> CallType]
  /\ outcomes \in [Calls -> Seq(Outcomes)]
  /\ served \in [Calls -> Nat]
  /\ open \subseteq Calls
  /\ loop \in Calls \cup {Free}

\* What last_err is after those outcomes.
Tracks(e, heard) ==
  \/ e = "none" /\ \A i \in DOMAIN heard : heard[i] = "limited"
  \/ \E i \in DOMAIN heard :
       e = heard[i] /\ e # "limited" /\ \A j \in i + 1 .. Len(heard) : heard[j] = "limited"

\* The response of c is made; c may post again; c is past its posts.
Decided(c) == call[c].pc \in {"closing", "ended"}
Posting(c) == call[c].pc \in {"posting", "sleeping"}
Over(c)    == Decided(c) \/ Abandoned(c)

\* The loop of _post and _apost: how far it is, and what it has heard.
LoopInv(c) ==
  /\ At(c, "new") \/ At(c, "created") \/ At(c, "refused") =>
       outcomes[c] = << >> /\ call[c].attempt = 0 /\ call[c].last_err = "none" /\ served[c] = 0
  /\ ~At(c, "new") /\ ~At(c, "refused") => ask[c].name \in DOMAIN PROVIDERS
  /\ At(c, "posting") => Len(outcomes[c]) = call[c].attempt
  /\ At(c, "sleeping") => Len(outcomes[c]) = call[c].attempt + 1
  /\ Len(outcomes[c]) <= 3
  /\ ~Over(c) => \A i \in DOMAIN outcomes[c] : outcomes[c][i] \in Retried
  /\ Posting(c) => Tracks(call[c].last_err, outcomes[c])

\* The response of one call: VerdictOfOutcomes.
Verdict(c) ==
  Decided(c) =>
    LET heard == outcomes[c]
        last  == heard[Len(heard)]
        reply == call[c].response
    IN /\ \A i \in 1 .. Len(heard) - 1 : heard[i] \in {"limited", "server", "timeout"}
       /\ reply.success <=> last \in {"ok", "unmetered"}
       /\ reply.success => reply.error = "none"
       /\ ~reply.success => reply.cost = 0 /\ reply.error = LastError(heard)
       /\ last \in {"limited", "server", "timeout"} => Len(heard) = 3

\* What the provider has answered and the call has heard: BilledAsHeard, and
\* what bounds it while the call is under way.
Bill(c) ==
  /\ ~Over(c) => Heard(c, Answered) = 0
  /\ Heard(c, Answered) <= 1
  /\ Heard(c, Answered) <= served[c]
  /\ Heard(c, Answered \cup Ambiguous) \in Nat
  /\ served[c] <= Heard(c, Answered \cup Ambiguous) + (IF Abandoned(c) THEN 1 ELSE 0)
  /\ ~Abandoned(c) => served[c] <= Len(outcomes[c])
  /\ served[c] <= 3

CallInv(c) == LoopInv(c) /\ Verdict(c) /\ Bill(c)

IInv == Types /\ (\A c \in Calls : CallInv(c)) /\ NothingLeftBehind

-----------------------------------------------------------------------------
(* Lemmas about the operators                                              *)

ClientType ==
  [price : Nat, assumed : Nat, shape : Shapes, keyed : BOOLEAN, blocking : BOOLEAN]

\* Every client of the table PROVIDERS has a price and an assumed usage.
LEMMA ClientsTyped ==
  \A name \in DOMAIN PROVIDERS : PROVIDERS[name] \in ClientType
<1>1. /\ OpenAI \in ClientType /\ Anthropic \in ClientType /\ Google \in ClientType
      /\ DeepSeek \in ClientType /\ Ollama \in ClientType /\ Moonshot \in ClientType
  BY DEF ClientType, Shapes, Chat, Local, OpenAI, Anthropic, Google, DeepSeek, Ollama, Moonshot
<1>2. /\ Zhipuai \in ClientType /\ Groq \in ClientType /\ Together \in ClientType
      /\ Cohere \in ClientType /\ Qwen \in ClientType /\ Mistral \in ClientType
  BY DEF ClientType, Shapes, Chat, Local, Zhipuai, Groq, Together, Cohere, Qwen, Mistral
<1>3. /\ Perplexity \in ClientType /\ Baichuan \in ClientType /\ Minimax \in ClientType
      /\ Fireworks \in ClientType /\ Vllm \in ClientType /\ Huggingface \in ClientType
  BY DEF ClientType, Shapes, Chat, Local, Perplexity, Baichuan, Minimax, Fireworks, Vllm, Huggingface
<1> HIDE DEF ClientType
<1> QED BY <1>1, <1>2, <1>3 DEF PROVIDERS

ResponseType == [success : BOOLEAN, tokens : Nat, cost : Nat, error : Errors]

\* The response of a failure has its type.
LEMMA FailureTyped ==
  ASSUME NEW e \in Errors PROVE Failure(e) \in ResponseType
BY DEF Failure, ResponseType

\* A response that complete makes has its type.
LEMMA ResponseTyped ==
  ASSUME NEW c \in Calls, NEW outcome \in Outcomes, ask[c].name \in DOMAIN PROVIDERS
  PROVE  Response(c, outcome) \in [success : BOOLEAN, tokens : Nat, cost : Nat, error : Errors]
<1>1. Client(c).price \in Nat /\ Client(c).assumed \in Nat
  BY ClientsTyped DEF Client, ClientType
<1> DEFINE tokens == IF outcome = "ok" THEN UsageReported ELSE Client(c).assumed
<1>2. tokens \in Nat
  BY <1>1 DEF UsageReported
<1>3. Client(c).price * tokens \in Nat
  BY <1>1, <1>2
<1>4. [success |-> TRUE, tokens |-> tokens, cost |-> Client(c).price * tokens, error |-> "none"]
        \in [success : BOOLEAN, tokens : Nat, cost : Nat, error : Errors]
  BY <1>2, <1>3 DEF Errors
<1>5. Failure(outcome) \in [success : BOOLEAN, tokens : Nat, cost : Nat, error : Errors]
  BY FailureTyped DEF Errors, ResponseType
<1> QED BY <1>4, <1>5 DEF Response

\* What a response says: a success costs, a failure names its outcome.
LEMMA ResponseSays ==
  ASSUME NEW c \in Calls, NEW outcome \in Outcomes
  PROVE  /\ Response(c, outcome).success <=> outcome \in {"ok", "unmetered"}
         /\ Response(c, outcome).success => Response(c, outcome).error = "none"
         /\ ~Response(c, outcome).success =>
              Response(c, outcome).cost = 0 /\ Response(c, outcome).error = outcome
<1>1. CASE outcome \in {"ok", "unmetered"}
  BY <1>1 DEF Response
<1>2. CASE outcome \notin {"ok", "unmetered"}
  <2>1. Response(c, outcome) = [success |-> FALSE, tokens |-> 0, cost |-> 0, error |-> outcome]
    BY <1>2 DEF Response, Failure
  <2> QED BY <1>2, <2>1
<1> QED BY <1>1, <1>2

\* How many outcomes of some kinds a sequence has.
CountIn(heard, kinds) == Cardinality({i \in DOMAIN heard : heard[i] \in kinds})

\* One more outcome counts for its kind and no other.
LEMMA CountAppend ==
  ASSUME NEW heard \in Seq(Outcomes), NEW outcome \in Outcomes, NEW kinds
  PROVE  /\ CountIn(heard, kinds) \in Nat
         /\ CountIn(Append(heard, outcome), kinds)
              = CountIn(heard, kinds) + (IF outcome \in kinds THEN 1 ELSE 0)
<1> DEFINE old  == {i \in DOMAIN heard : heard[i] \in kinds}
           more == Append(heard, outcome)
           new  == {i \in DOMAIN more : more[i] \in kinds}
           n    == Len(heard) + 1
<1>1. /\ n \in Nat /\ n \notin old
      /\ DOMAIN heard = 1 .. Len(heard) /\ DOMAIN more = 1 .. n
      /\ more[n] = outcome
      /\ \A i \in 1 .. Len(heard) : more[i] = heard[i]
  OBVIOUS
<1>2. IsFiniteSet(old)
  <2>1. IsFiniteSet(1 .. Len(heard))
    BY FS_Interval
  <2> QED BY <1>1, <2>1, FS_Subset
<1>3. CountIn(heard, kinds) = Cardinality(old) /\ CountIn(more, kinds) = Cardinality(new)
  BY DEF CountIn
<1>4. outcome \in kinds => new = old \cup {n}
  BY <1>1
<1>5. outcome \notin kinds => new = old
  BY <1>1
<1>6. Cardinality(old \cup {n}) = Cardinality(old) + 1 /\ Cardinality(old) \in Nat
  BY <1>1, <1>2, FS_AddElement, FS_CardinalityType
<1>7. /\ CountIn(heard, kinds) \in Nat
      /\ CountIn(more, kinds) = CountIn(heard, kinds) + (IF outcome \in kinds THEN 1 ELSE 0)
  <2> HIDE DEF old, new, more, n
  <2>1. CASE outcome \in kinds BY <1>3, <1>4, <1>6, <2>1
  <2>2. CASE outcome \notin kinds BY <1>3, <1>5, <1>6, <2>2
  <2> QED BY <2>1, <2>2
<1> QED BY <1>7, Zenon

\* Nothing was heard yet.
LEMMA CountEmpty ==
  ASSUME NEW kinds PROVE CountIn(<< >>, kinds) = 0
<1>1. {i \in DOMAIN << >> : << >>[i] \in kinds} = {}
  OBVIOUS
<1> QED BY <1>1, FS_EmptySet DEF CountIn

\* An outcome after which there were only rate limits is the LastError.
LEMMA LastErrorIs ==
  ASSUME NEW heard \in Seq(Outcomes), NEW i \in DOMAIN heard, heard[i] # "limited",
         \A j \in i + 1 .. Len(heard) : heard[j] = "limited"
  PROVE  LastError(heard) = heard[i]
<1> DEFINE Is(k) == heard[k] # "limited" /\ \A j \in k + 1 .. Len(heard) : heard[j] = "limited"
           k == CHOOSE m \in DOMAIN heard : Is(m)
<1>1. k \in DOMAIN heard /\ Is(k)
  OBVIOUS
<1>2. k = i
  <2> HIDE DEF k
  <2>1. DOMAIN heard = 1 .. Len(heard) /\ Len(heard) \in Nat
    OBVIOUS
  <2>2. ~(k < i) /\ ~(i < k)
    BY <1>1, <2>1
  <2> QED BY <1>1, <2>1, <2>2
<1>3. LastError(heard) = heard[k]
  BY DEF LastError
<1> QED BY <1>2, <1>3

\* What last_err tracks is what the caller is told when the attempts are over.
LEMMA TracksLastError ==
  ASSUME NEW heard \in Seq(Outcomes), NEW e, Tracks(e, heard)
  PROVE  LastError(heard) = IF e = "none" THEN "max retries" ELSE e
<1>1. CASE e = "none" /\ \A i \in DOMAIN heard : heard[i] = "limited"
  BY <1>1 DEF LastError
<1>2. ASSUME NEW i \in DOMAIN heard, e = heard[i], e # "limited",
             \A j \in i + 1 .. Len(heard) : heard[j] = "limited"
      PROVE  LastError(heard) = IF e = "none" THEN "max retries" ELSE e
  <2>1. LastError(heard) = heard[i]
    BY <1>2, LastErrorIs
  <2>2. heard[i] \in Outcomes
    OBVIOUS
  <2> QED BY <1>2, <2>1, <2>2 DEF Outcomes, Answered, Ambiguous
<1> QED BY <1>1, <1>2 DEF Tracks

\* A rate limit leaves last_err, and any other error replaces it.
LEMMA TracksAppend ==
  ASSUME NEW heard \in Seq(Outcomes), NEW e, Tracks(e, heard), NEW outcome \in Outcomes
  PROVE  Tracks(IF outcome = "limited" THEN e ELSE outcome, Append(heard, outcome))
<1> DEFINE more == Append(heard, outcome)
           n    == Len(heard) + 1
<1>1. /\ Len(heard) \in Nat /\ Len(more) = n
      /\ DOMAIN heard = 1 .. Len(heard) /\ DOMAIN more = 1 .. n
      /\ more[n] = outcome
      /\ \A i \in 1 .. Len(heard) : more[i] = heard[i]
  OBVIOUS
<1> HIDE DEF more
<1>2. CASE outcome # "limited"
  <2>1. n \in DOMAIN more /\ \A j \in n + 1 .. Len(more) : more[j] = "limited"
    BY <1>1
  <2> QED BY <1>1, <1>2, <2>1 DEF Tracks, more
<1>3. CASE outcome = "limited" /\ e = "none" /\ \A i \in DOMAIN heard : heard[i] = "limited"
  <2>1. \A i \in DOMAIN more : more[i] = "limited"
    BY <1>1, <1>3
  <2> QED BY <1>3, <2>1 DEF Tracks, more
<1>4. ASSUME outcome = "limited", NEW i \in DOMAIN heard, e = heard[i], e # "limited",
             \A j \in i + 1 .. Len(heard) : heard[j] = "limited"
      PROVE  Tracks(e, more)
  <2>1. i \in DOMAIN more /\ e = more[i] /\ \A j \in i + 1 .. Len(more) : more[j] = "limited"
    BY <1>1, <1>4
  <2> QED BY <1>4, <2>1 DEF Tracks
<1> QED BY <1>2, <1>3, <1>4 DEF Tracks, more

\* CountAppend for a call that hears one more outcome.
LEMMA HeardAppend ==
  ASSUME NEW c \in Calls, outcomes[c] \in Seq(Outcomes), NEW outcome \in Outcomes,
         outcomes'[c] = Append(outcomes[c], outcome), NEW kinds
  PROVE  /\ Heard(c, kinds) \in Nat
         /\ Heard(c, kinds)' = Heard(c, kinds) + (IF outcome \in kinds THEN 1 ELSE 0)
<1>1. Heard(c, kinds) = CountIn(outcomes[c], kinds)
  BY DEF Heard, CountIn
<1>2. Heard(c, kinds)' = CountIn(Append(outcomes[c], outcome), kinds)
  BY DEF Heard, CountIn
<1>3. /\ CountIn(outcomes[c], kinds) \in Nat
      /\ CountIn(Append(outcomes[c], outcome), kinds)
           = CountIn(outcomes[c], kinds) + (IF outcome \in kinds THEN 1 ELSE 0)
  BY CountAppend
<1> QED BY <1>1, <1>2, <1>3, Zenon

-----------------------------------------------------------------------------
(* The payloads                                                            *)

Message == [role : Roles, content : Nat \ {0}]

\* What a payload says in turns that are not the assistant's.
Says(sent) == {t.content : t \in {u \in ToSet(sent.turns) : u.role # "assistant"}}

\* LastTurnsReach for one conversation.
Reaches(shape, msgs) ==
  LET sent == Payload(shape, msgs) IN
  /\ LastOf(msgs, {"user"}) \in Says(sent) \cup {0}
  /\ LastOf(msgs, {"system"}) \in Says(sent) \cup {sent.system, 0}

\* A turn that is not the assistant's is what its payload says.
LEMMA SaysTurn ==
  ASSUME NEW sent, NEW i \in DOMAIN sent.turns, sent.turns[i].role # "assistant"
  PROVE  sent.turns[i].content \in Says(sent)
BY DEF Says, ToSet

\* Of keeps the messages of those roles and no others.
LEMMA OfKeeps ==
  ASSUME NEW msgs \in Seq(Message), NEW roles
  PROVE  /\ Of(msgs, roles) \in Seq(Message)
         /\ \A i \in DOMAIN Of(msgs, roles) :
              \E j \in DOMAIN msgs : msgs[j].role \in roles /\ Of(msgs, roles)[i] = msgs[j]
         /\ \A j \in DOMAIN msgs : msgs[j].role \in roles =>
              \E i \in DOMAIN Of(msgs, roles) : Of(msgs, roles)[i] = msgs[j]
<1> DEFINE keep == {m \in ToSet(msgs) : m.role \in roles}
<1>1. Of(msgs, roles) = Kept(msgs, keep)
  BY DEF Of
<1>2. \A j \in DOMAIN msgs : msgs[j] \in keep <=> msgs[j].role \in roles
  BY DEF ToSet
<1> HIDE DEF keep
<1>3. Kept(msgs, keep) \in Seq(Message) /\ Selects(Kept(msgs, keep), msgs, keep)
  BY KeptTyped, KeptSelects
<1> QED BY <1>1, <1>2, <1>3 DEF Selects

\* LastOf is what one of those messages says, or the empty string.
LEMMA LastOfSays ==
  ASSUME NEW msgs \in Seq(Message), NEW roles
  PROVE  \/ LastOf(msgs, roles) = 0
         \/ \E j \in DOMAIN msgs : msgs[j].role \in roles /\ LastOf(msgs, roles) = msgs[j].content
<1>1. CASE Of(msgs, roles) = << >>
  BY <1>1 DEF LastOf
<1>2. CASE Of(msgs, roles) # << >>
  <2>1. PICK s \in Seq(Message) : s = Of(msgs, roles)
    BY OfKeeps
  <2>2. Len(s) \in DOMAIN s
    BY <1>2, <2>1
  <2>3. PICK j \in DOMAIN msgs : msgs[j].role \in roles /\ s[Len(s)] = msgs[j]
    BY <2>1, <2>2, OfKeeps
  <2> QED BY <1>2, <2>1, <2>3 DEF LastOf, Last
<1> QED BY <1>1, <1>2

\* A payload whose turns say what each of the messages of a role says, says
\* what the last of them says.
LEMMA TurnsReach ==
  ASSUME NEW msgs \in Seq(Message), NEW role, NEW sent,
         \A j \in DOMAIN msgs : msgs[j].role = role =>
           \E i \in DOMAIN sent.turns :
             sent.turns[i].role # "assistant" /\ sent.turns[i].content = msgs[j].content
  PROVE  LastOf(msgs, {role}) \in Says(sent) \cup {0}
<1>1. CASE LastOf(msgs, {role}) = 0
  BY <1>1
<1>2. ASSUME NEW j \in DOMAIN msgs, msgs[j].role \in {role}, LastOf(msgs, {role}) = msgs[j].content
      PROVE  LastOf(msgs, {role}) \in Says(sent)
  <2>1. PICK i \in DOMAIN sent.turns :
          sent.turns[i].role # "assistant" /\ sent.turns[i].content = msgs[j].content
    BY <1>2
  <2> QED BY <1>2, <2>1, SaysTurn
<1> QED BY <1>1, <1>2, LastOfSays

\* The messages go out as they are.
LEMMA ChatReaches ==
  ASSUME NEW msgs \in Seq(Message) PROVE Reaches("chat", msgs)
<1> DEFINE sent == Payload("chat", msgs)
<1>1. sent.turns = msgs
  BY DEF Payload
<1> HIDE DEF sent
<1>2. LastOf(msgs, {"user"}) \in Says(sent) \cup {0} /\ LastOf(msgs, {"system"}) \in Says(sent) \cup {0}
  BY <1>1, TurnsReach
<1> QED BY <1>2 DEF Reaches, sent

\* What the system said last goes out beside the turns of the others.
LEMMA AnthropicReaches ==
  ASSUME NEW msgs \in Seq(Message) PROVE Reaches("anthropic", msgs)
<1> DEFINE sent == Payload("anthropic", msgs)
<1>1. sent.turns = Of(msgs, Roles \ {"system"}) /\ sent.system = LastOf(msgs, {"system"})
  BY DEF Payload, AnthropicLayout
<1> HIDE DEF sent
<1>2. ASSUME NEW j \in DOMAIN msgs, msgs[j].role = "user"
      PROVE  \E i \in DOMAIN sent.turns :
               sent.turns[i].role # "assistant" /\ sent.turns[i].content = msgs[j].content
  <2>1. msgs[j].role \in Roles \ {"system"}
    BY <1>2 DEF Roles
  <2>2. PICK i \in DOMAIN sent.turns : sent.turns[i] = msgs[j]
    BY <1>1, <2>1, OfKeeps
  <2> QED BY <1>2, <2>2
<1>3. LastOf(msgs, {"user"}) \in Says(sent) \cup {0}
  BY <1>2, TurnsReach
<1> QED BY <1>1, <1>3 DEF Reaches, sent

\* The system's messages and the user's are both turns of the user.
LEMMA GoogleReaches ==
  ASSUME NEW msgs \in Seq(Message) PROVE Reaches("google", msgs)
<1> DEFINE sent == Payload("google", msgs)
<1>1. sent.turns = [i \in DOMAIN msgs |->
        Turn(IF msgs[i].role \in {"user", "system"} THEN "user" ELSE "assistant", msgs[i].content)]
  BY DEF Payload, GoogleLayout
<1> HIDE DEF sent
<1>2. ASSUME NEW j \in DOMAIN msgs, msgs[j].role \in {"user", "system"}
      PROVE  \E i \in DOMAIN sent.turns :
               sent.turns[i].role # "assistant" /\ sent.turns[i].content = msgs[j].content
  <2>1. j \in DOMAIN sent.turns /\ sent.turns[j] = Turn("user", msgs[j].content)
    BY <1>1, <1>2
  <2> QED BY <2>1 DEF Turn
<1>3. LastOf(msgs, {"user"}) \in Says(sent) \cup {0} /\ LastOf(msgs, {"system"}) \in Says(sent) \cup {0}
  BY <1>2, TurnsReach
<1> QED BY <1>3 DEF Reaches, sent

\* Of what is neither the system's nor the assistant's the last goes out: the
\* user's, when there are no tools.
LEMMA CohereReaches ==
  ASSUME NEW msgs \in Seq(Message), Of(msgs, {"tool"}) = << >> PROVE Reaches("cohere", msgs)
<1> DEFINE sent    == Payload("cohere", msgs)
           history == Of(msgs, {"system", "assistant"})
           message == Turn("user", LastOf(msgs, {"user"}))
<1>1. ASSUME NEW m \in ToSet(msgs) PROVE m.role # "tool"
  <2>1. PICK j \in DOMAIN msgs : m = msgs[j]
    BY <1>1 DEF ToSet
  <2> QED BY <2>1, OfKeeps
<1>2. Of(msgs, {"user", "tool"}) = Of(msgs, {"user"})
  <2>1. {m \in ToSet(msgs) : m.role \in {"user", "tool"}} = {m \in ToSet(msgs) : m.role \in {"user"}}
    BY <1>1
  <2> QED BY <2>1 DEF Of
<1>3. sent.turns = Append(history, message)
  BY <1>2 DEF Payload, CohereLayout, LastOf
<1>4. history \in Seq(Message)
  BY OfKeeps
<1> DEFINE turns == Append(history, message)
<1>5. /\ DOMAIN turns = 1 .. Len(history) + 1 /\ DOMAIN history = 1 .. Len(history)
      /\ Len(history) \in Nat /\ turns[Len(history) + 1] = message
      /\ \A i \in DOMAIN history : turns[i] = history[i]
  <2> HIDE DEF message
  <2>1. PICK s \in Seq(Message) : s = history
    BY <1>4
  <2> QED BY <2>1
<1>6. message.role = "user" /\ message.content = LastOf(msgs, {"user"})
  BY DEF Turn
<1>7. ASSUME NEW j \in DOMAIN msgs, msgs[j].role = "system"
      PROVE  \E i \in DOMAIN turns :
               turns[i].role # "assistant" /\ turns[i].content = msgs[j].content
  <2>1. PICK i \in DOMAIN history : history[i] = msgs[j]
    <3>1. \A k \in DOMAIN msgs : msgs[k].role \in {"system", "assistant"} =>
            \E i \in DOMAIN history : history[i] = msgs[k]
      <4> DEFINE roles == {"system", "assistant"}
      <4> SUFFICES \A k \in DOMAIN msgs : msgs[k].role \in roles =>
                     \E i \in DOMAIN Of(msgs, roles) : Of(msgs, roles)[i] = msgs[k]
        OBVIOUS
      <4> HIDE DEF roles, sent, message, turns, history
      <4> QED BY OfKeeps
    <3> HIDE DEF history
    <3> QED BY <1>7, <3>1
  <2>2. i \in DOMAIN turns /\ turns[i] = msgs[j]
    BY <1>5, <2>1
  <2> QED BY <1>7, <2>2
<1> HIDE DEF history, message, sent, turns
<1>8. sent.turns = turns
  BY <1>3 DEF turns
<1>9. LastOf(msgs, {"user"}) \in Says(sent)
  <2>1. Len(history) + 1 \in DOMAIN sent.turns
    BY <1>5, <1>8
  <2>2. sent.turns[Len(history) + 1] = message
    BY <1>5, <1>8
  <2> QED BY <1>6, <2>1, <2>2, SaysTurn
<1>10. LastOf(msgs, {"system"}) \in Says(sent) \cup {0}
  BY <1>7, <1>8, TurnsReach
<1> QED BY <1>9, <1>10 DEF Reaches, sent

-----------------------------------------------------------------------------
(* The inductive invariant                                                 *)

\* What one call does leaves the other calls as they were.
LEMMA OthersKeep ==
  ASSUME Types, NEW c \in Calls, CallInv(c),
         ask' = ask, call'[c] = call[c], outcomes'[c] = outcomes[c], served'[c] = served[c]
  PROVE  CallInv(c)'
<1>1. UNCHANGED <<ask, call[c], outcomes[c], served[c]>>
  OBVIOUS
<1> QED BY <1>1 DEF CallInv, LoopInv, Verdict, Bill, At, Underway, Heard, Decided, Posting, Over, Abandoned

\* Initially no call has begun.
LEMMA InitInv == Init => IInv
<1> SUFFICES ASSUME Init PROVE IInv
  OBVIOUS
<1>1. Types
  BY DEF Init, Types, CallType, Places, NoResponse, Failure, Errors, Attempts
<1>2. ASSUME NEW c \in Calls PROVE CallInv(c)
  <2>1. At(c, "new") /\ call[c].pc = "new" /\ outcomes[c] = << >> /\ served[c] = 0
        /\ call[c].attempt = 0 /\ call[c].last_err = "none"
    BY DEF Init, At
  <2>2. \A kinds : Heard(c, kinds) = 0
    BY <2>1, CountEmpty DEF Heard, CountIn
  <2>3. LoopInv(c)
    BY <2>1 DEF LoopInv, At, Underway, Posting
  <2>4. Verdict(c)
    BY <2>1 DEF Verdict, Decided
  <2>5. Bill(c)
    BY <2>1, <2>2 DEF Bill
  <2> QED BY <2>3, <2>4, <2>5 DEF CallInv
<1>3. NothingLeftBehind
  BY ClientsAssumption DEF Init, NothingLeftBehind, Underway
<1> QED BY <1>1, <1>2, <1>3 DEF IInv

\* A step of one call keeps the invariant if that call keeps its part.
LEMMA StepOfOne ==
  ASSUME IInv, NEW c \in Calls, Types', ask' = ask, CallInv(c)', NothingLeftBehind',
         \A d \in Calls \ {c} : /\ call'[d] = call[d] /\ outcomes'[d] = outcomes[d]
                                /\ served'[d] = served[d]
  PROVE  IInv'
<1>1. ASSUME NEW d \in Calls PROVE CallInv(d)'
  <2>1. CASE d = c
    BY <2>1
  <2>2. CASE d # c
    <3>1. Types /\ CallInv(d) /\ ask' = ask
      BY DEF IInv
    <3>2. call'[d] = call[d] /\ outcomes'[d] = outcomes[d] /\ served'[d] = served[d]
      BY <2>2
    <3> QED BY <3>1, <3>2, OthersKeep
  <2> QED BY <2>1, <2>2
<1> QED BY <1>1 DEF IInv

\* A call whose posts are over gives the loop back, and is under way while its
\* client closes.
LEMMA EndLeavesNothing ==
  ASSUME Types, NothingLeftBehind, NEW c \in Calls, Posting(c), NEW pc \in {"ended", "cancelled"},
         NEW response \in ResponseType, End(c, pc, response), ask' = ask
  PROVE  /\ NothingLeftBehind'
         /\ call' \in [Calls -> CallType] /\ open' \subseteq Calls /\ loop' \in Calls \cup {Free}
         /\ pc = "ended" => call'[c].pc \in {"closing", "ended"}
         /\ pc = "cancelled" => call'[c].pc \in {"unwinding", "cancelled"}
         /\ call'[c].response = response
         /\ \A d \in Calls \ {c} : call'[d] = call[d]
<1> DEFINE new == IF Cooperates(c) THEN Leaving[pc] ELSE pc
<1>1. /\ call' = [call EXCEPT ![c].pc = new, ![c].response = response]
      /\ open' = open
      /\ loop' = IF loop = c THEN Free ELSE loop
  BY DEF End
<1>2. /\ pc = "ended" => new \in {"closing", "ended"}
      /\ pc = "cancelled" => new \in {"unwinding", "cancelled"}
      /\ Cooperates(c) => new \in {"closing", "unwinding"}
      /\ ~Cooperates(c) => new \in {"ended", "cancelled"}
  BY DEF Leaving
<1> HIDE DEF new
<1>3. /\ call' \in [Calls -> CallType]
      /\ call'[c].pc = new /\ call'[c].response = response
      /\ \A d \in Calls \ {c} : call'[d] = call[d]
  <2>1. new \in Places
    BY <1>2 DEF Places
  <2> QED BY <1>1, <2>1 DEF Types, CallType, ResponseType
<1>4. open' \subseteq Calls /\ loop' \in Calls \cup {Free}
  BY <1>1 DEF Types
<1>5. open' = {d \in Calls : Cooperates(d)' /\ Underway(d)'}
  BY <1>1, <1>2, <1>3 DEF NothingLeftBehind, Cooperates, OnLoop, Client, Underway, Posting
<1>6. loop' # Free => Blocks(loop)' /\ Underway(loop)'
  BY <1>1, <1>3 DEF NothingLeftBehind, Blocks, OnLoop, Client, Underway, Types
<1> QED BY <1>2, <1>3, <1>4, <1>5, <1>6 DEF NothingLeftBehind

\* Once the client has closed, or its closing was cancelled, nothing is left.
LEMMA CloseLeavesNothing ==
  ASSUME Types, NothingLeftBehind, NEW c \in Calls, ~Underway(c)', open' = open \ {c},
         loop = Free, loop' = loop, ask' = ask, \A d \in Calls \ {c} : call'[d] = call[d]
  PROVE  NothingLeftBehind'
<1>1. open' = {d \in Calls : Cooperates(d)' /\ Underway(d)'}
  BY DEF NothingLeftBehind, Cooperates, OnLoop, Client, Underway
<1> QED BY <1>1 DEF NothingLeftBehind

\* A call that stays on its side of its first and last post disturbs nobody.
LEMMA StaysLeavesNothing ==
  ASSUME Types, Types', NothingLeftBehind, NEW c \in Calls, Underway(c)' <=> Underway(c),
         ask' = ask, open' = open, loop' = loop,
         \A d \in Calls \ {c} : call'[d] = call[d]
  PROVE  NothingLeftBehind'
<1>1. \A d \in Calls : Underway(d)' <=> Underway(d)
  BY DEF Underway
<1>2. \A d \in Calls : (Cooperates(d)' <=> Cooperates(d)) /\ (Blocks(d)' <=> Blocks(d))
  BY DEF Cooperates, Blocks, OnLoop, Client
<1>3. loop' # Free => Blocks(loop)' /\ Underway(loop)'
  <2>1. loop # Free => loop \in Calls
    BY DEF Types
  <2> QED BY <1>1, <1>2, <2>1 DEF NothingLeftBehind, Blocks, Underway, OnLoop, Client
<1>4. open' = {d \in Calls : Cooperates(d)' /\ Underway(d)'}
  BY <1>1, <1>2 DEF NothingLeftBehind
<1> QED BY <1>3, <1>4 DEF NothingLeftBehind

\* A call that only goes elsewhere keeps its type.
LEMMA NewPcTyped ==
  ASSUME call \in [Calls -> CallType], NEW c \in Calls,
         NEW pc \in Places,
         call' = [call EXCEPT ![c].pc = pc]
  PROVE  call' \in [Calls -> CallType]
<1>1. PICK r : r = call[c]
  OBVIOUS
<1> DEFINE new == [r EXCEPT !.pc = pc]
<1>2. r \in CallType
  BY <1>1
<1>3. new \in CallType
  BY <1>2 DEF CallType
<1>4. call' = [call EXCEPT ![c] = new]
  BY <1>1
<1> HIDE DEF new
<1> QED BY <1>3, <1>4

\* create_provider: nothing is posted yet.
LEMMA CreateKeeps ==
  ASSUME IInv, NEW c \in Calls, Create(c) PROVE IInv'
<1> DEFINE made == ask[c].name \in DOMAIN PROVIDERS /\ Client(c).keyed = ask[c].keyed
<1> DEFINE pc == IF made THEN "created" ELSE "refused"
<1>1. /\ call' = [call EXCEPT ![c].pc = pc]
      /\ pc \in {"created", "refused"} /\ (pc = "created" => ask[c].name \in DOMAIN PROVIDERS)
  BY DEF Create
<1> HIDE DEF pc
<1>2. Types'
  <2>1. call' \in [Calls -> CallType]
    BY <1>1, NewPcTyped DEF IInv, Types, Places
  <2> QED BY <2>1 DEF IInv, Types, Create
<1>3. /\ call'[c].pc \in {"created", "refused"}
      /\ call'[c].pc = "created" => ask[c].name \in DOMAIN PROVIDERS
      /\ call'[c].attempt = call[c].attempt /\ call'[c].last_err = call[c].last_err
      /\ At(c, "new")
      /\ \A d \in Calls \ {c} : call'[d] = call[d]
  BY <1>1 DEF IInv, Types, CallType, Create, At
<1>4. ask' = ask /\ outcomes' = outcomes /\ served' = served /\ open' = open /\ loop' = loop
  BY DEF Create
<1>5. LoopInv(c)'
  BY <1>3, <1>4 DEF IInv, CallInv, LoopInv, At, Underway, Posting, Over, Decided, Abandoned
<1>6. Verdict(c)'
  BY <1>3 DEF Verdict, Decided
<1>7. Bill(c)'
  <2>1. Bill(c) /\ ~Over(c) /\ ~Abandoned(c) /\ ~Over(c)' /\ ~Abandoned(c)'
    BY <1>3 DEF IInv, CallInv, At, Over, Decided, Abandoned
  <2>2. \A kinds : Heard(c, kinds)' = Heard(c, kinds)
    BY <1>4 DEF Heard
  <2> QED BY <1>4, <2>1, <2>2 DEF Bill
<1>8. NothingLeftBehind'
  BY <1>2, <1>3, <1>4, StaysLeavesNothing DEF IInv, Underway, At
<1> QED BY <1>2, <1>3, <1>4, <1>5, <1>6, <1>7, <1>8, StepOfOne DEF CallInv

\* The first post: the client is opened, or the loop is taken.
LEMMA BeginKeeps ==
  ASSUME IInv, NEW c \in Calls, Begin(c) PROVE IInv'
<1>1. Types'
  <2>1. call' = [call EXCEPT ![c].pc = "posting"]
    BY DEF Begin
  <2>2. call' \in [Calls -> CallType]
    BY <2>1, NewPcTyped DEF IInv, Types, Places
  <2>3. open' \subseteq Calls /\ loop' \in Calls \cup {Free}
    BY DEF IInv, Types, Begin
  <2> QED BY <2>2, <2>3 DEF IInv, Types, Begin
<1>2. /\ call'[c].pc = "posting"
      /\ call'[c].attempt = call[c].attempt /\ call'[c].last_err = call[c].last_err
      /\ At(c, "created")
      /\ \A d \in Calls \ {c} : call'[d] = call[d]
  BY DEF IInv, Types, CallType, Places, Begin, At
<1>3. ask' = ask /\ outcomes' = outcomes /\ served' = served
  BY DEF Begin
<1>4. LoopInv(c)'
  <2>1. Tracks("none", << >>)
    BY DEF Tracks
  <2>2. /\ outcomes[c] = << >> /\ call[c].attempt = 0 /\ call[c].last_err = "none"
        /\ ask[c].name \in DOMAIN PROVIDERS
    BY <1>2 DEF IInv, CallInv, LoopInv, At
  <2> QED BY <1>2, <1>3, <2>1, <2>2 DEF LoopInv, At, Underway, Posting, Over, Decided, Abandoned
<1>5. Verdict(c)'
  BY <1>2 DEF Verdict, Decided
<1>6. Bill(c)'
  <2>1. Bill(c) /\ ~Over(c) /\ ~Abandoned(c) /\ ~Over(c)' /\ ~Abandoned(c)'
    BY <1>2 DEF IInv, CallInv, At, Over, Decided, Abandoned
  <2>2. \A kinds : Heard(c, kinds)' = Heard(c, kinds)
    BY <1>3 DEF Heard
  <2> QED BY <1>3, <2>1, <2>2 DEF Bill
<1>7. NothingLeftBehind'
  <2>1. Types /\ NothingLeftBehind /\ ~Underway(c)
    BY <1>2 DEF IInv, Underway, At
  <2>2. open' = IF Cooperates(c) THEN open \cup {c} ELSE open
    BY DEF Begin
  <2>3. loop' = IF Blocks(c) THEN c ELSE loop
    BY DEF Begin
  <2>4. open' = {d \in Calls : Cooperates(d)' /\ Underway(d)'}
    BY <1>2, <1>3, <2>1, <2>2 DEF NothingLeftBehind, Cooperates, OnLoop, Client, Underway
  <2>5. loop' # Free => Blocks(loop)' /\ Underway(loop)'
    BY <1>2, <1>3, <2>1, <2>3 DEF NothingLeftBehind, Blocks, OnLoop, Client, Underway, Types
  <2> QED BY <2>4, <2>5 DEF NothingLeftBehind
<1> QED BY <1>1, <1>2, <1>3, <1>4, <1>5, <1>6, <1>7, StepOfOne DEF CallInv

\* A call that sleeps with some last_err has its type.
LEMMA SleepTyped ==
  ASSUME NEW f \in [Calls -> CallType], NEW c \in Calls, NEW e \in {"none", "server", "timeout"}
  PROVE  [f EXCEPT ![c].pc = "sleeping", ![c].last_err = e] \in [Calls -> CallType]
<1>1. f[c] \in CallType
  OBVIOUS
<1>2. [f[c] EXCEPT !.pc = "sleeping"] \in CallType
  BY <1>1 DEF CallType, Places
<1>3. [[f[c] EXCEPT !.pc = "sleeping"] EXCEPT !.last_err = e] \in CallType
  BY <1>2 DEF CallType
<1> QED BY <1>3 DEF CallType

\* A post that is tried again: one more outcome, and last_err tracks it.
LEMMA PostAgainKeeps ==
  ASSUME IInv, NEW c \in Calls, NEW outcome \in Retried, Post(c, outcome) PROVE IInv'
<1>1. /\ At(c, "posting") /\ Types /\ CallInv(c) /\ outcome \in Outcomes
      /\ call' = [call EXCEPT ![c].pc = "sleeping",
                              ![c].last_err = IF outcome = "limited" THEN @ ELSE outcome]
      /\ outcomes' = [outcomes EXCEPT ![c] = Append(@, outcome)]
      /\ UNCHANGED <<ask, open, loop>>
  BY DEF IInv, Post, Retried, Outcomes, Answered, Ambiguous
<1>2. PICK n \in Billed(outcome) : served' = [served EXCEPT ![c] = @ + n]
  BY DEF Post
<1>3. n \in {0, 1} /\ (outcome = "limited" => n = 0)
  BY DEF Billed, Retried, Answered, Ambiguous
<1>4. Types'
  <2> DEFINE e == IF outcome = "limited" THEN call[c].last_err ELSE outcome
  <2>1. call' = [call EXCEPT ![c].pc = "sleeping", ![c].last_err = e]
    BY <1>1
  <2>2. e \in {"none", "server", "timeout"}
    BY <1>1 DEF Types, CallType, Retried
  <2> HIDE DEF e
  <2>3. call \in [Calls -> CallType]
    BY <1>1 DEF Types
  <2>4. call' \in [Calls -> CallType]
    BY <2>1, <2>2, <2>3, SleepTyped
  <2> QED BY <1>1, <1>2, <1>3, <2>4 DEF Types
<1>5. /\ call'[c].pc = "sleeping" /\ call'[c].attempt = call[c].attempt
      /\ call'[c].last_err = IF outcome = "limited" THEN call[c].last_err ELSE outcome
      /\ outcomes'[c] = Append(outcomes[c], outcome) /\ served'[c] = served[c] + n
      /\ \A d \in Calls \ {c} : /\ call'[d] = call[d] /\ outcomes'[d] = outcomes[d]
                                /\ served'[d] = served[d]
  BY <1>1, <1>2 DEF Types, CallType
<1>6. /\ outcomes[c] \in Seq(Outcomes) /\ Len(outcomes'[c]) = Len(outcomes[c]) + 1
      /\ outcomes'[c][Len(outcomes[c]) + 1] = outcome
      /\ \A i \in 1 .. Len(outcomes[c]) : outcomes'[c][i] = outcomes[c][i]
      /\ DOMAIN outcomes'[c] = 1 .. Len(outcomes[c]) + 1
      /\ DOMAIN outcomes[c] = 1 .. Len(outcomes[c]) /\ Len(outcomes[c]) \in Nat
  BY <1>1, <1>5 DEF Types
<1>7. /\ Len(outcomes[c]) = call[c].attempt /\ call[c].attempt \in 0 .. 2
      /\ \A i \in DOMAIN outcomes[c] : outcomes[c][i] \in Retried
      /\ Tracks(call[c].last_err, outcomes[c]) /\ ask[c].name \in DOMAIN PROVIDERS
  BY <1>1 DEF CallInv, LoopInv, At, Underway, Posting, Over, Decided, Abandoned,
              Types, CallType, Attempts
<1>8. Tracks(call'[c].last_err, outcomes'[c])
  BY <1>1, <1>5, <1>6, <1>7, TracksAppend
<1>9. LoopInv(c)'
  BY <1>1, <1>5, <1>6, <1>7, <1>8
     DEF LoopInv, At, Underway, Posting, Over, Decided, Abandoned, Retried
<1>10. Verdict(c)'
  BY <1>5 DEF Verdict, Decided
<1>11. Bill(c)'
  <2>1. Bill(c) /\ ~Over(c) /\ ~Abandoned(c) /\ ~Over(c)' /\ ~Abandoned(c)'
    BY <1>1, <1>5 DEF CallInv, At, Over, Decided, Abandoned
  <2>2. \A kinds : /\ Heard(c, kinds) \in Nat
                   /\ Heard(c, kinds)' = Heard(c, kinds) + (IF outcome \in kinds THEN 1 ELSE 0)
    BY <1>1, <1>5, <1>6, HeardAppend
  <2>3. outcome \notin Answered /\ (outcome \in Answered \cup Ambiguous <=> outcome # "limited")
    BY DEF Answered, Ambiguous, Retried
  <2>4. Heard(c, Answered)' = Heard(c, Answered) /\ Heard(c, Answered) \in Nat
    BY <2>2, <2>3
  <2>5. /\ Heard(c, Answered \cup Ambiguous) \in Nat
        /\ Heard(c, Answered \cup Ambiguous)'
             = Heard(c, Answered \cup Ambiguous) + (IF outcome # "limited" THEN 1 ELSE 0)
    BY <2>2, <2>3
  <2>6. served[c] \in Nat /\ served'[c] <= Len(outcomes'[c]) /\ served'[c] <= 3
    BY <1>1, <1>3, <1>5, <1>6, <1>7, <2>1 DEF Bill, Types
  <2> QED BY <1>3, <1>5, <2>1, <2>4, <2>5, <2>6 DEF Bill
<1>12. NothingLeftBehind'
  BY <1>1, <1>4, <1>5, StaysLeavesNothing DEF IInv, Underway, At
<1> QED BY <1>1, <1>4, <1>5, <1>9, <1>10, <1>11, <1>12, StepOfOne DEF CallInv

\* A post that ends the call: the response is made of its outcome.
LEMMA PostLastKeeps ==
  ASSUME IInv, NEW c \in Calls, NEW outcome \in Outcomes \ Retried, Post(c, outcome)
  PROVE  IInv'
<1> DEFINE response == Response(c, outcome)
<1>1. /\ At(c, "posting") /\ Types /\ CallInv(c) /\ NothingLeftBehind
      /\ End(c, "ended", response)
      /\ outcomes' = [outcomes EXCEPT ![c] = Append(@, outcome)]
      /\ ask' = ask
  BY DEF IInv, Post
<1>2. PICK n \in Billed(outcome) : served' = [served EXCEPT ![c] = @ + n]
  BY DEF Post
<1>3. n \in {0, 1} /\ (outcome \in Answered => n = 1) /\ (outcome \notin Answered \cup Ambiguous => n = 0)
  BY DEF Billed, Answered, Ambiguous
<1>4. /\ Len(outcomes[c]) = call[c].attempt /\ call[c].attempt \in 0 .. 2
      /\ \A i \in DOMAIN outcomes[c] : outcomes[c][i] \in Retried
      /\ ask[c].name \in DOMAIN PROVIDERS
  BY <1>1 DEF CallInv, LoopInv, At, Underway, Over, Decided, Abandoned, Types, CallType, Attempts
<1>5. response \in ResponseType
  BY <1>4, ResponseTyped DEF ResponseType
<1>6. /\ response.success <=> outcome \in {"ok", "unmetered"}
      /\ response.success => response.error = "none"
      /\ ~response.success => response.cost = 0 /\ response.error = outcome
  BY ResponseSays
<1> HIDE DEF response
<1>7. /\ NothingLeftBehind'
      /\ call' \in [Calls -> CallType] /\ open' \subseteq Calls /\ loop' \in Calls \cup {Free}
      /\ call'[c].pc \in {"closing", "ended"} /\ call'[c].response = response
      /\ \A d \in Calls \ {c} : call'[d] = call[d]
  BY <1>1, <1>5, EndLeavesNothing DEF At, Posting
<1>8. Types'
  <2>1. outcomes' \in [Calls -> Seq(Outcomes)]
    BY <1>1 DEF Types
  <2>2. n \in Nat
    BY <1>3
  <2>3. served' \in [Calls -> Nat]
    BY <1>1, <1>2, <2>2 DEF Types
  <2> QED BY <1>1, <1>7, <2>1, <2>3 DEF Types
<1>9. /\ outcomes'[c] = Append(outcomes[c], outcome) /\ served'[c] = served[c] + n
      /\ outcomes'[c] \in Seq(Outcomes) /\ outcomes[c] \in Seq(Outcomes)
      /\ \A d \in Calls \ {c} : outcomes'[d] = outcomes[d] /\ served'[d] = served[d]
  BY <1>1, <1>2 DEF Types
<1>10. /\ Len(outcomes'[c]) = Len(outcomes[c]) + 1
       /\ outcomes'[c][Len(outcomes[c]) + 1] = outcome
       /\ \A i \in 1 .. Len(outcomes[c]) : outcomes'[c][i] = outcomes[c][i]
       /\ DOMAIN outcomes'[c] = 1 .. Len(outcomes[c]) + 1
       /\ DOMAIN outcomes[c] = 1 .. Len(outcomes[c]) /\ Len(outcomes[c]) \in Nat
  BY <1>9
<1>11. LoopInv(c)'
  BY <1>1, <1>4, <1>7, <1>10 DEF LoopInv, At, Underway, Posting, Over, Decided
<1>12. Verdict(c)'
  <2> DEFINE heard == outcomes'[c]
  <2>1. heard[Len(heard)] = outcome /\ outcome \notin {"limited", "server", "timeout"}
    BY <1>10 DEF Retried
  <2>2. \A i \in 1 .. Len(heard) - 1 : heard[i] \in {"limited", "server", "timeout"}
    <3> TAKE i \in 1 .. Len(heard) - 1
    <3>1. i \in DOMAIN outcomes[c] /\ heard[i] = outcomes[c][i]
      BY <1>10
    <3> QED BY <1>4, <3>1 DEF Retried
  <2>3. LastError(heard) = outcome
    <3>1. Len(heard) \in DOMAIN heard /\ \A j \in Len(heard) + 1 .. Len(heard) : heard[j] = "limited"
      BY <1>10
    <3> QED BY <1>9, <2>1, <3>1, LastErrorIs
  <2>4. (LastError(outcomes[c]))' = LastError(heard)
    BY DEF LastError
  <2> QED BY <1>6, <1>7, <2>1, <2>2, <2>3, <2>4 DEF Verdict
<1>13. Bill(c)'
  <2>1. Bill(c) /\ ~Over(c) /\ ~Abandoned(c) /\ Over(c)' /\ ~Abandoned(c)'
    BY <1>1, <1>7 DEF CallInv, At, Over, Decided, Abandoned
  <2>2. \A kinds : /\ Heard(c, kinds) \in Nat
                   /\ Heard(c, kinds)' = Heard(c, kinds) + (IF outcome \in kinds THEN 1 ELSE 0)
    BY <1>9, HeardAppend
  <2>3. /\ Heard(c, Answered)' = Heard(c, Answered) + (IF outcome \in Answered THEN 1 ELSE 0)
        /\ Heard(c, Answered) \in Nat
    BY <2>2
  <2>4. /\ Heard(c, Answered \cup Ambiguous) \in Nat
        /\ Heard(c, Answered \cup Ambiguous)' = Heard(c, Answered \cup Ambiguous)
             + (IF outcome \in Answered \cup Ambiguous THEN 1 ELSE 0)
    BY <2>2
  <2>5. served[c] \in Nat /\ served'[c] <= Len(outcomes'[c]) /\ served'[c] <= 3
    BY <1>1, <1>3, <1>4, <1>9, <1>10, <2>1 DEF Bill, Types
  <2> QED BY <1>3, <1>9, <2>1, <2>3, <2>4, <2>5 DEF Bill
<1> QED BY <1>1, <1>7, <1>8, <1>9, <1>11, <1>12, <1>13, StepOfOne DEF CallInv

\* After a sleep: another attempt, or what last_err tracks.
LEMMA WakeKeeps ==
  ASSUME IInv, NEW c \in Calls, Wake(c) PROVE IInv'
<1>1. /\ At(c, "sleeping") /\ Types /\ CallInv(c) /\ NothingLeftBehind
      /\ UNCHANGED <<ask, outcomes, served>>
  BY DEF IInv, Wake
<1>2. /\ Len(outcomes[c]) = call[c].attempt + 1 /\ call[c].attempt \in 0 .. 2
      /\ \A i \in DOMAIN outcomes[c] : outcomes[c][i] \in Retried
      /\ Tracks(call[c].last_err, outcomes[c])
      /\ Len(outcomes[c]) <= 3 /\ ask[c].name \in DOMAIN PROVIDERS
      /\ call[c].last_err \in {"none", "server", "timeout"}
      /\ outcomes[c] \in Seq(Outcomes)
  BY <1>1 DEF CallInv, LoopInv, At, Underway, Posting, Over, Decided, Abandoned,
              Types, CallType, Attempts
<1>3. ASSUME ~Abandoned(c)' PROVE Bill(c)'
  <2>1. Bill(c) /\ ~Over(c) /\ ~Abandoned(c)
    BY <1>1 DEF CallInv, At, Over, Decided, Abandoned
  <2>2. \A kinds : Heard(c, kinds)' = Heard(c, kinds)
    BY <1>1 DEF Heard
  <2> QED BY <1>1, <1>3, <2>1, <2>2 DEF Bill
<1>4. CASE call[c].attempt + 1 < Attempts
  <2>1. /\ call' = [call EXCEPT ![c].pc = "posting", ![c].attempt = @ + 1]
        /\ UNCHANGED <<open, loop>>
    BY <1>4 DEF Wake
  <2>2. /\ call' \in [Calls -> CallType]
        /\ call'[c].pc = "posting" /\ call'[c].attempt = call[c].attempt + 1
        /\ call'[c].last_err = call[c].last_err
        /\ \A d \in Calls \ {c} : call'[d] = call[d]
    BY <1>1, <1>2, <1>4, <2>1 DEF Types, CallType, Places, Attempts
  <2>3. Types'
    BY <1>1, <2>1, <2>2 DEF Types
  <2>4. LoopInv(c)' /\ Verdict(c)' /\ Bill(c)'
    BY <1>1, <1>2, <1>3, <2>2 DEF LoopInv, Verdict, At, Underway, Posting, Decided, Abandoned
  <2>5. NothingLeftBehind'
    BY <1>1, <2>1, <2>2, <2>3, StaysLeavesNothing DEF Underway, At
  <2> QED BY <1>1, <2>2, <2>3, <2>4, <2>5, StepOfOne DEF CallInv
<1>5. CASE ~(call[c].attempt + 1 < Attempts)
  <2> DEFINE error    == IF call[c].last_err = "none" THEN "max retries" ELSE call[c].last_err
             response == Failure(error)
  <2>1. End(c, "ended", response)
    BY <1>5 DEF Wake
  <2>2. error \in Errors
    BY <1>2 DEF Errors, Outcomes, Ambiguous
  <2>3. LastError(outcomes[c]) = error
    BY <1>2, TracksLastError
  <2> HIDE DEF error
  <2>4. response \in ResponseType /\ response.success = FALSE /\ response.cost = 0
        /\ response.error = error
    BY <2>2, FailureTyped DEF Failure
  <2> HIDE DEF response
  <2>5. /\ NothingLeftBehind'
        /\ call' \in [Calls -> CallType] /\ open' \subseteq Calls /\ loop' \in Calls \cup {Free}
        /\ call'[c].pc \in {"closing", "ended"} /\ call'[c].response = response
        /\ \A d \in Calls \ {c} : call'[d] = call[d]
    BY <1>1, <2>1, <2>4, EndLeavesNothing DEF At, Posting
  <2>6. Types'
    BY <1>1, <2>5 DEF Types
  <2>7. LoopInv(c)' /\ Bill(c)'
    BY <1>1, <1>2, <1>3, <2>5 DEF LoopInv, At, Underway, Posting, Over, Decided, Abandoned
  <2>8. Verdict(c)'
    <3> DEFINE heard == outcomes[c]
    <3>1. Len(heard) = 3 /\ DOMAIN heard = 1 .. 3
      BY <1>2, <1>5 DEF Attempts
    <3>2. \A i \in 1 .. 3 : heard[i] \in {"limited", "server", "timeout"}
      BY <1>2, <3>1 DEF Retried
    <3>3. LastError(outcomes[c])' = error
      BY <1>1, <2>3
    <3> QED BY <1>1, <2>4, <2>5, <3>1, <3>2, <3>3 DEF Verdict
  <2> QED BY <1>1, <2>5, <2>6, <2>7, <2>8, StepOfOne DEF CallInv
<1> QED BY <1>4, <1>5

\* A cancellation, in a post that may still be served or in a sleep.
LEMMA CancelKeeps ==
  ASSUME IInv, NEW c \in Calls, Cancel(c) PROVE IInv'
<1>1. /\ At(c, "posting") \/ At(c, "sleeping")
      /\ Types /\ CallInv(c) /\ NothingLeftBehind
      /\ End(c, "cancelled", NoResponse)
      /\ UNCHANGED <<ask, outcomes>>
  BY DEF IInv, Cancel
<1>2. PICK n \in IF At(c, "posting") THEN {0, 1} ELSE {0} : served' = [served EXCEPT ![c] = @ + n]
  BY DEF Cancel
<1>2a. n \in {0, 1} /\ (n = 1 => At(c, "posting"))
  BY <1>2
<1>3. NoResponse \in ResponseType
  BY FailureTyped DEF NoResponse, Errors
<1>4. /\ NothingLeftBehind'
      /\ call' \in [Calls -> CallType] /\ open' \subseteq Calls /\ loop' \in Calls \cup {Free}
      /\ call'[c].pc \in {"unwinding", "cancelled"}
      /\ \A d \in Calls \ {c} : call'[d] = call[d]
  BY <1>1, <1>3, EndLeavesNothing DEF At, Posting
<1>5. Types'
  <2>1. served' \in [Calls -> Nat]
    BY <1>1, <1>2, <1>2a DEF Types
  <2> QED BY <1>1, <1>4, <2>1 DEF Types
<1>6. served'[c] = served[c] + n /\ \A d \in Calls \ {c} : served'[d] = served[d]
  BY <1>1, <1>2 DEF Types
<1>7. LoopInv(c)' /\ Verdict(c)'
  BY <1>1, <1>4 DEF CallInv, LoopInv, Verdict, At, Underway, Posting, Over, Decided, Abandoned
<1>8. Bill(c)'
  <2>1. Bill(c) /\ ~Over(c) /\ ~Abandoned(c) /\ Over(c)' /\ Abandoned(c)'
    BY <1>1, <1>4 DEF CallInv, At, Over, Decided, Abandoned
  <2>2. \A kinds : Heard(c, kinds)' = Heard(c, kinds)
    BY <1>1 DEF Heard
  <2>3. served[c] \in Nat /\ served'[c] <= 3
    <3>1. n = 1 => Len(outcomes[c]) = call[c].attempt /\ call[c].attempt \in 0 .. 2
      BY <1>1, <1>2a DEF CallInv, LoopInv, Types, CallType, Attempts
    <3> QED BY <1>1, <1>2a, <1>6, <2>1, <3>1 DEF Bill, Types
  <2>4. Heard(c, Answered) = 0
    BY <2>1 DEF Bill
  <2> QED BY <1>2a, <1>6, <2>1, <2>2, <2>3, <2>4 DEF Bill
<1> QED BY <1>1, <1>4, <1>5, <1>6, <1>7, <1>8, StepOfOne DEF CallInv

\* Once the client has closed the response is the caller's, or the
\* cancellation is.
LEMMA ClosedKeeps ==
  ASSUME IInv, NEW c \in Calls, Closed(c) PROVE IInv'
<1>1. /\ Types /\ CallInv(c) /\ NothingLeftBehind /\ loop = Free
      /\ UNCHANGED <<ask, outcomes, served, loop>> /\ open' = open \ {c}
      /\ call' = [call EXCEPT ![c].pc = IF @ = "closing" THEN "ended" ELSE "cancelled"]
  BY DEF IInv, Closed
<1> DEFINE pc == IF call[c].pc = "closing" THEN "ended" ELSE "cancelled"
<1>2. Types'
  <2>1. call' = [call EXCEPT ![c].pc = pc] /\ pc \in Places
    BY <1>1 DEF Places
  <2>2. call' \in [Calls -> CallType]
    BY <1>1, <2>1, NewPcTyped DEF Types
  <2> QED BY <1>1, <2>2 DEF Types
<1>3. /\ call'[c].pc \in {"ended", "cancelled"}
      /\ call'[c].attempt = call[c].attempt /\ call'[c].response = call[c].response
      /\ Decided(c)' <=> Decided(c)
      /\ Abandoned(c)' <=> Abandoned(c)
      /\ Over(c) /\ ~At(c, "new") /\ ~At(c, "refused")
      /\ \A d \in Calls \ {c} : call'[d] = call[d]
  BY <1>1 DEF Types, CallType, Closed, At, Decided, Abandoned, Over
<1>4. LoopInv(c)'
  BY <1>1, <1>3 DEF CallInv, LoopInv, At, Posting, Over
<1>5. Verdict(c)'
  BY <1>1, <1>3 DEF CallInv, Verdict
<1>6. Bill(c)'
  <2>1. \A kinds : Heard(c, kinds)' = Heard(c, kinds)
    BY <1>1 DEF Heard
  <2> QED BY <1>1, <1>3, <2>1 DEF CallInv, Bill, Over
<1>7. NothingLeftBehind'
  <2>1. ~Underway(c)'
    BY <1>3 DEF Underway
  <2> QED BY <1>1, <1>3, <2>1, CloseLeavesNothing
<1> QED BY <1>1, <1>2, <1>3, <1>4, <1>5, <1>6, <1>7, StepOfOne DEF CallInv

\* A cancellation while the client closes, after an answer or before.
LEMMA CancelClosingKeeps ==
  ASSUME IInv, NEW c \in Calls, CancelClosing(c) PROVE IInv'
<1>1. /\ Types /\ CallInv(c) /\ NothingLeftBehind /\ loop = Free
      /\ UNCHANGED <<ask, outcomes, served, loop>> /\ open' = open \ {c}
      /\ call' = [call EXCEPT ![c].pc = "cancelled", ![c].response = NoResponse]
  BY DEF IInv, CancelClosing
<1>2. NoResponse \in ResponseType
  BY FailureTyped DEF NoResponse, Errors
<1>3. Types'
  <2> DEFINE new == [call[c] EXCEPT !.pc = "cancelled", !.response = NoResponse]
  <2>1. call[c] \in CallType /\ call \in [Calls -> CallType]
    BY <1>1 DEF Types
  <2>2. [call[c] EXCEPT !.pc = "cancelled"] \in CallType
    BY <2>1 DEF CallType, Places
  <2>3. [[call[c] EXCEPT !.pc = "cancelled"] EXCEPT !.response = NoResponse] \in CallType
    BY <1>2, <2>2 DEF CallType, ResponseType
  <2>4. new \in CallType /\ call' = [call EXCEPT ![c] = new]
    BY <1>1, <2>3
  <2> HIDE DEF new
  <2>5. call' \in [Calls -> CallType]
    BY <2>1, <2>4
  <2> QED BY <1>1, <2>5 DEF Types
<1>4. /\ call'[c].pc = "cancelled"
      /\ Abandoned(c)' /\ Over(c) /\ ~At(c, "new") /\ ~At(c, "refused")
      /\ \A d \in Calls \ {c} : call'[d] = call[d]
  BY <1>1 DEF Types, CallType, CancelClosing, At, Decided, Abandoned, Over
<1>5. LoopInv(c)' /\ Verdict(c)'
  BY <1>1, <1>4 DEF CallInv, LoopInv, Verdict, At, Posting, Decided, Over
<1>6. Bill(c)'
  <2>1. \A kinds : Heard(c, kinds)' = Heard(c, kinds)
    BY <1>1 DEF Heard
  <2>2. served[c] \in Nat
    BY <1>1 DEF Types
  <2> QED BY <1>1, <1>4, <2>1, <2>2 DEF CallInv, Bill, Over
<1>7. NothingLeftBehind'
  <2>1. ~Underway(c)'
    BY <1>4 DEF Underway
  <2> QED BY <1>1, <1>4, <2>1, CloseLeavesNothing
<1> QED BY <1>1, <1>3, <1>4, <1>5, <1>6, <1>7, StepOfOne DEF CallInv

\* Every step keeps the invariant.
LEMMA StepInv == IInv /\ [Next]_vars => IInv'
<1> SUFFICES ASSUME IInv, [Next]_vars PROVE IInv'
  OBVIOUS
<1>1. ASSUME NEW c \in Calls, Create(c) PROVE IInv'
  BY <1>1, CreateKeeps
<1>2. ASSUME NEW c \in Calls, Begin(c) PROVE IInv'
  BY <1>2, BeginKeeps
<1>3. ASSUME NEW c \in Calls, NEW outcome \in Outcomes, Post(c, outcome) PROVE IInv'
  <2>1. CASE outcome \in Retried
    BY <1>3, <2>1, PostAgainKeeps
  <2>2. CASE outcome \notin Retried
    BY <1>3, <2>2, PostLastKeeps
  <2> QED BY <2>1, <2>2
<1>4. ASSUME NEW c \in Calls, Wake(c) PROVE IInv'
  BY <1>4, WakeKeeps
<1>5. ASSUME NEW c \in Calls, Cancel(c) PROVE IInv'
  BY <1>5, CancelKeeps
<1>6. ASSUME NEW c \in Calls, Closed(c) PROVE IInv'
  BY <1>6, ClosedKeeps
<1>7. ASSUME NEW c \in Calls, CancelClosing(c) PROVE IInv'
  BY <1>7, CancelClosingKeeps
<1>8. CASE UNCHANGED vars
  <2>1. Types' /\ NothingLeftBehind'
    BY <1>8 DEF vars, IInv, Types, NothingLeftBehind, Cooperates, Blocks, OnLoop, Client, Underway
  <2>2. ASSUME NEW c \in Calls PROVE CallInv(c)'
    BY <1>8, OthersKeep DEF vars, IInv
  <2> QED BY <2>1, <2>2 DEF IInv
<1> QED BY <1>1, <1>2, <1>3, <1>4, <1>5, <1>6, <1>7, <1>8 DEF Next

\* IInv is invariant.
LEMMA Invariance == Spec => []IInv
<1> QED BY InitInv, StepInv, PTL DEF Spec

-----------------------------------------------------------------------------
(* Theorems                                                                *)

\* TypeOK, with the bound that _post and _apost put on the posts of a call:
\* however the attempts, the errors and the cancellations mix, there are three
\* at most, and the provider has answered at most three times.
THEOREM TypeCorrect == Spec => []TypeOK
<1>1. IInv => TypeOK
  <2> SUFFICES ASSUME IInv PROVE TypeOK
    OBVIOUS
  <2>1. \A c \in Calls : outcomes[c] \in Seq(Outcomes) /\ Len(outcomes[c]) <= Attempts
    BY DEF IInv, Types, CallInv, LoopInv, Attempts
  <2>2. served \in [Calls -> 0 .. Attempts]
    BY DEF IInv, Types, CallInv, Bill, Attempts
  <2> QED BY <2>1, <2>2 DEF IInv, Types, CallType, TypeOK
<1> QED BY <1>1, Invariance, PTL

\* The response of complete and acomplete tells what happened, for every order
\* of outcomes and whatever other calls do.
THEOREM VerdictFollows == Spec => []VerdictOfOutcomes
<1>1. IInv => VerdictOfOutcomes
  BY DEF IInv, CallInv, Verdict, VerdictOfOutcomes, Decided, At
<1> QED BY <1>1, Invariance, PTL

\* No answer is asked for again, and each bill has its answer or its doubt.
THEOREM BillsHeard == Spec => []BilledAsHeard
<1>1. IInv => BilledAsHeard
  BY DEF IInv, CallInv, Bill, BilledAsHeard
<1> QED BY <1>1, Invariance, PTL

\* No call, ended or cancelled, keeps its AsyncClient or the event loop.
THEOREM LeavesNothing == Spec => []NothingLeftBehind
<1>1. IInv => NothingLeftBehind
  BY DEF IInv
<1> QED BY <1>1, Invariance, PTL

\* What the user and the system said last is in the payload of every provider,
\* for conversations of any length and every order of their roles.
THEOREM LastTurnsAreSent == Spec => []LastTurnsReach
<1>1. IInv => LastTurnsReach
  <2> SUFFICES ASSUME IInv, NEW c \in Calls, Underway(c), Of(ask[c].messages, {"tool"}) = << >>
               PROVE  Reaches(Client(c).shape, ask[c].messages)
    BY DEF LastTurnsReach, Reaches, Says
  <2>1. ask[c].messages \in Seq(Message)
    BY ClientsAssumption DEF IInv, Types, AskType, Message
  <2>2. Client(c).shape \in Shapes
    <3>1. ask[c].name \in DOMAIN PROVIDERS
      BY DEF IInv, CallInv, LoopInv, Underway, At
    <3> QED BY <3>1, ClientsTyped DEF Client, ClientType
  <2> QED BY <2>1, <2>2, ChatReaches, AnthropicReaches, GoogleReaches, CohereReaches DEF Shapes
<1> QED BY <1>1, Invariance, PTL

=============================================================================
