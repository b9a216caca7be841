----------------------------- MODULE ModelClients -----------------------------
(***************************************************************************)
(* The provider clients, python/model_clients.py: a client turns messages  *)
(* into the payload of its provider, posts it up to three times and makes  *)
(* a ModelResponse of whatever happens.  Calls of complete have a thread   *)
(* each; calls of acomplete share one event loop and may be cancelled.     *)
(***************************************************************************)
EXTENDS Lists, SequencesExt, FiniteSetsExt

CONSTANTS
  Calls,      \* the calls of complete and acomplete
  Workloads,  \* what the callers may ask: an ask for each of the calls
  Free        \* the event loop runs no call that blocks it

Attempts == 3
Roles    == {"system", "user", "assistant", "tool"}
Shapes   == {"chat", "anthropic", "google", "cohere"}

-----------------------------------------------------------------------------
(* The clients.  price: cost_per_1k_tokens, in ten-thousandths of a        *)
(* dollar.  assumed: the tokens of an answer that does not tell.  shape:   *)
(* how the messages are laid out.  keyed: the constructor takes an         *)
(* api_key.  blocking: acomplete is complete.                              *)

Chat(price, assumed) ==
  [price |-> price, assumed |-> assumed, shape |-> "chat", keyed |-> TRUE, blocking |-> FALSE]

Local(assumed) == [Chat(0, assumed) EXCEPT !.keyed = FALSE]

OpenAI      == Chat(50, 0)
Anthropic   == [Chat(30, 0) EXCEPT !.shape = "anthropic"]
Google      == [Chat(10, 120) EXCEPT !.shape = "google"]
DeepSeek    == Chat(3, 100)
Ollama      == Local(80)
Moonshot    == Chat(20, 130)
Zhipuai     == Chat(10, 110)
Groq        == Chat(7, 90)
Together    == Chat(9, 140)
Cohere      == [Chat(30, 0) EXCEPT !.shape = "cohere", !.blocking = TRUE]
Qwen        == Chat(20, 100)
Mistral     == Chat(20, 100)
Perplexity  == Chat(10, 100)
Baichuan    == Chat(10, 100)
Minimax     == Chat(10, 100)
Fireworks   == Chat(5, 100)
Vllm        == Local(100)
Huggingface == Local(100)

PROVIDERS ==
  [openai |-> OpenAI, anthropic |-> Anthropic, google |-> Google, deepseek |-> DeepSeek,
   ollama |-> Ollama, moonshot |-> Moonshot, zhipuai |-> Zhipuai, groq |-> Groq,
   together |-> Together, cohere |-> Cohere, qwen |-> Qwen, mistral |-> Mistral,
   perplexity |-> Perplexity, baichuan |-> Baichuan, minimax |-> Minimax,
   fireworks |-> Fireworks, vllm |-> Vllm, huggingface |-> Huggingface]

\* The name and whether an api_key goes to create_provider, and the messages
\* go to complete (on "thread") or to acomplete (on "loop").
AskType == [name : STRING, keyed : BOOLEAN, runs : {"thread", "loop"},
            messages : Seq([role : Roles, content : Nat \ {0}])]

ASSUME ClientsAssumption ==
  /\ Free \notin Calls
  /\ \A w \in Workloads : DOMAIN w = Calls /\ \A c \in Calls : w[c] \in AskType

VARIABLES
  ask,       \* the workload
  call,      \* where each call is: pc, attempt, last_err and its response
  outcomes,  \* how the posts of each call ended so far
  served,    \* how many of its posts the provider has answered, and bills
  open,      \* the calls whose AsyncClient is open
  loop       \* the call that blocks the event loop

vars == <<ask, call, outcomes, served, open, loop>>

\* The response of a failure.
Failure(error) == [success |-> FALSE, tokens |-> 0, cost |-> 0, error |-> error]

NoResponse == Failure("none")

Init ==
  /\ ask \in Workloads
  /\ call = [c \in Calls |-> [pc |-> "new", attempt |-> 0, last_err |-> "none", response |-> NoResponse]]
  /\ outcomes = [c \in Calls |-> << >>]
  /\ served = [c \in Calls |-> 0]
  /\ open = {}
  /\ loop = Free

At(c, pc)     == call[c].pc = pc
Client(c)     == PROVIDERS[ask[c].name]
OnLoop(c)     == ask[c].runs = "loop"
Blocks(c)     == OnLoop(c) /\ Client(c).blocking
Cooperates(c) == OnLoop(c) /\ ~Client(c).blocking

\* A thread always may run; a coroutine while nothing blocks its loop.
Runs(c) == OnLoop(c) => loop = IF At(c, "created") \/ ~Client(c).blocking THEN Free ELSE c

-----------------------------------------------------------------------------
(* The payloads                                                            *)

Turn(role, content) == [role |-> role, content |-> content]
Of(msgs, roles)     == Kept(msgs, {m \in ToSet(msgs) : m.role \in roles})

\* The content of the last such message, or the empty string.
LastOf(msgs, roles) == IF Of(msgs, roles) = << >> THEN 0 ELSE Last(Of(msgs, roles)).content

\* Fault: the first of the user's messages is not overwritten by the next.
CohereFirst(msgs) ==
  LET others == Of(msgs, {"user", "tool"}) IN
  [system |-> 0,
   turns |-> Append(Of(msgs, {"system", "assistant"}),
                    Turn("user", IF others = << >> THEN 0 ELSE Head(others).content))]

\* chat_history, and then the message: of what is neither from the system nor
\* from the assistant only the last goes out.
CohereLayout(msgs) ==
  [system |-> 0,
   turns |-> Append(Of(msgs, {"system", "assistant"}), Turn("user", LastOf(msgs, {"user", "tool"})))]

\* Of the system messages only the last goes out, beside the others.
AnthropicLayout(msgs) ==
  [system |-> LastOf(msgs, {"system"}), turns |-> Of(msgs, Roles \ {"system"})]

GoogleLayout(msgs) ==
  [system |-> 0,
   turns |-> [i \in DOMAIN msgs |->
     Turn(IF msgs[i].role \in {"user", "system"} THEN "user" ELSE "assistant", msgs[i].content)]]

Payload(shape, msgs) ==
  CASE shape = "chat"      -> [system |-> 0, turns |-> msgs]
    [] shape = "anthropic" -> AnthropicLayout(msgs)
    [] shape = "google"    -> GoogleLayout(msgs)
    [] shape = "cohere"    -> CohereLayout(msgs)

-----------------------------------------------------------------------------
(* create_provider, complete and acomplete                                 *)

\* Where "async with" waits for the client to close, before the call is there.
Leaving == [ended |-> "closing", cancelled |-> "unwinding"]

\* Fault: the loop stays with a call that blocked it.
EndHoldingLoop(c, pc, response) ==
  /\ call' = [call EXCEPT ![c].pc = IF Cooperates(c) THEN Leaving[pc] ELSE pc,
                          ![c].response = response]
  /\ UNCHANGED <<open, loop>>

\* The posts of the call are over: a coroutine leaves its "async with", and one
\* that blocked the loop gives it back.
End(c, pc, response) ==
  /\ call' = [call EXCEPT ![c].pc = IF Cooperates(c) THEN Leaving[pc] ELSE pc,
                          ![c].response = response]
  /\ open' = open
  /\ loop' = IF loop = c THEN Free ELSE loop

\* ValueError for an unknown name; TypeError for an api_key that the
\* constructor does not take, or for none that it needs.
Create(c) ==
  /\ At(c, "new")
  /\ LET made == ask[c].name \in DOMAIN PROVIDERS /\ Client(c).keyed = ask[c].keyed
     IN call' = [call EXCEPT ![c].pc = IF made THEN "created" ELSE "refused"]
  /\ UNCHANGED <<ask, outcomes, served, open, loop>>

\* Up to the first post; a cancellation while the client opens is one at the
\* first post that the provider does not serve.
Begin(c) ==
  /\ At(c, "created") /\ Runs(c)
  /\ call' = [call EXCEPT ![c].pc = "posting"]
  /\ open' = IF Cooperates(c) THEN open \cup {c} ELSE open
  /\ loop' = IF Blocks(c) THEN c ELSE loop
  /\ UNCHANGED <<ask, outcomes, served>>

-----------------------------------------------------------------------------
(* _post and _apost                                                        *)

\* "limited" is a 429, "server" a 500, 502 or 503, "broken" a connection error
\* or another error of a server, as 504, "status" any other status that raises,
\* "garbled" a body without the fields that are looked for, "unmetered" an
\* answer without its usage.
Answered  == {"ok", "unmetered", "garbled"}
Ambiguous == {"server", "timeout", "broken"}
Outcomes  == Answered \cup Ambiguous \cup {"limited", "status"}

\* How many more posts the provider has answered then: what the client hears
\* is all it knows, and a post that timed out, broke off or met a server error
\* may have been answered.
Billed(outcome) ==
  IF outcome \in Answered THEN {1} ELSE IF outcome \in Ambiguous THEN {0, 1} ELSE {0}

\* Fault: an answer that cannot be read is asked for again.
RetriedGarbled == {"limited", "server", "timeout", "garbled"}
\* Fault: every status is tried again.
RetriedStatus == {"limited", "server", "timeout", "status"}

Retried == {"limited", "server", "timeout"}

UsageReported == 7

\* What complete makes of an outcome that _post returns or raises.
Response(c, outcome) ==
  LET tokens == IF outcome = "ok" THEN UsageReported ELSE Client(c).assumed IN
  IF outcome \in {"ok", "unmetered"}
  THEN [success |-> TRUE, tokens |-> tokens, cost |-> Client(c).price * tokens, error |-> "none"]
  ELSE Failure(outcome)

\* One post and how it ends.
Post(c, outcome) ==
  /\ At(c, "posting") /\ Runs(c)
  /\ outcomes' = [outcomes EXCEPT ![c] = Append(@, outcome)]
  /\ \E n \in Billed(outcome) : served' = [served EXCEPT ![c] = @ + n]
  /\ IF outcome \in Retried
     THEN /\ call' = [call EXCEPT ![c].pc = "sleeping",
                                  ![c].last_err = IF outcome = "limited" THEN @ ELSE outcome]
          /\ UNCHANGED <<open, loop>>
     ELSE End(c, "ended", Response(c, outcome))
  /\ UNCHANGED ask

\* Fault: one attempt too many.
WakeOnceMore(c) ==
  /\ At(c, "sleeping") /\ Runs(c)
  /\ IF call[c].attempt < Attempts
     THEN /\ call' = [call EXCEPT ![c].pc = "posting", ![c].attempt = @ + 1]
          /\ UNCHANGED <<open, loop>>
     ELSE End(c, "ended", Failure(call[c].last_err))
  /\ UNCHANGED <<ask, outcomes, served>>

\* After the sleep, which follows the last attempt as well.  Without a
\* last_err the error is "Max retries exceeded".
Wake(c) ==
  /\ At(c, "sleeping") /\ Runs(c)
  /\ IF call[c].attempt + 1 < Attempts
     THEN /\ call' = [call EXCEPT ![c].pc = "posting", ![c].attempt = @ + 1]
          /\ UNCHANGED <<open, loop>>
     ELSE End(c, "ended", Failure(IF call[c].last_err = "none" THEN "max retries" ELSE call[c].last_err))
  /\ UNCHANGED <<ask, outcomes, served>>

\* The client has closed.
Closed(c) ==
  /\ At(c, "closing") \/ At(c, "unwinding")
  /\ loop = Free
  /\ call' = [call EXCEPT ![c].pc = IF @ = "closing" THEN "ended" ELSE "cancelled"]
  /\ open' = open \ {c}
  /\ UNCHANGED <<ask, outcomes, served, loop>>

\* Fault: the cancelled coroutine leaves its client open.
CancelLeavingOpen(c) ==
  /\ Cooperates(c) /\ loop = Free
  /\ At(c, "posting") \/ At(c, "sleeping")
  /\ call' = [call EXCEPT ![c].pc = "cancelled"]
  /\ UNCHANGED <<ask, outcomes, served, open, loop>>

\* CancelledError is no Exception: it passes through complete; the post under
\* way may still be served.
Cancel(c) ==
  /\ Cooperates(c) /\ loop = Free
  /\ At(c, "posting") \/ At(c, "sleeping")
  /\ \E n \in IF At(c, "posting") THEN {0, 1} ELSE {0} : served' = [served EXCEPT ![c] = @ + n]
  /\ End(c, "cancelled", NoResponse)
  /\ UNCHANGED <<ask, outcomes>>

\* A cancellation while the client closes: a response that was on its way is
\* lost.  The library has marked its client closed before it waits.
CancelClosing(c) ==
  /\ At(c, "closing") \/ At(c, "unwinding")
  /\ loop = Free
  /\ call' = [call EXCEPT ![c].pc = "cancelled", ![c].response = NoResponse]
  /\ open' = open \ {c}
  /\ UNCHANGED <<ask, outcomes, served, loop>>

-----------------------------------------------------------------------------
Next ==
  \E c \in Calls :
    \/ Create(c) \/ Begin(c)
    \/ \E outcome \in Outcomes : Post(c, outcome)
    \/ Wake(c) \/ Closed(c)
    \/ Cancel(c) \/ CancelClosing(c)

Spec == Init /\ [][Next]_vars

\* Threads and the loop are scheduled, and a post ends, as its answer, its error
\* or its timeout arrives, and so does the closing of a client.
FairSpec ==
  /\ Spec
  /\ \A c \in Calls :
       WF_vars(Wake(c) \/ Closed(c) \/ \E outcome \in Outcomes : Post(c, outcome))

-----------------------------------------------------------------------------
(* Properties                                                              *)

Places == {"new", "created", "refused", "posting", "sleeping",
           "closing", "ended", "unwinding", "cancelled"}

Underway(c)      == call[c].pc \in {"posting", "sleeping", "closing", "unwinding"}
Abandoned(c)     == call[c].pc \in {"unwinding", "cancelled"}
Heard(c, kinds)  == Cardinality({i \in DOMAIN outcomes[c] : outcomes[c][i] \in kinds})
Errors           == {"none", "max retries"} \cup Outcomes

\* The last of the outcomes that was not a rate limit.
LastError(heard) ==
  IF \A i \in DOMAIN heard : heard[i] = "limited" THEN "max retries"
  ELSE heard[CHOOSE i \in DOMAIN heard :
               heard[i] # "limited" /\ \A j \in i + 1 .. Len(heard) : heard[j] = "limited"]

\* Every variable has its type, and no call posts more than three times.
TypeOK ==
  /\ ask \in Workloads
  /\ call \in [Calls ->
       [pc : Places, attempt : 0 .. Attempts - 1, last_err : {"none", "server", "timeout"},
        response : [success : BOOLEAN, tokens : Nat, cost : Nat, error : Errors]]]
  /\ \A c \in Calls : outcomes[c] \in Seq(Outcomes) /\ Len(outcomes[c]) <= Attempts
  /\ served \in [Calls -> 0 .. Attempts]
  /\ open \subseteq Calls
  /\ loop \in Calls \cup {Free}

\* The response tells what happened, whatever the order of the outcomes: only
\* the last attempt may succeed or fail for good, a call gives up after three,
\* and then names the last error that was not a rate limit, if there was one.
VerdictOfOutcomes ==
  \A c \in Calls : At(c, "ended") =>
    LET heard == outcomes[c]
        last  == heard[Len(heard)]
        reply == call[c].response
    IN /\ \A i \in 1 .. Len(heard) - 1 : heard[i] \in {"limited", "server", "timeout"}
       /\ reply.success <=> last \in {"ok", "unmetered"}
       /\ reply.success => reply.error = "none"
       /\ ~reply.success => reply.cost = 0 /\ reply.error = LastError(heard)
       /\ last \in {"limited", "server", "timeout"} => Len(heard) = 3

\* A call is answered, and billed, at most once plus once for each post of
\* which the client could not tell, one that was cancelled among them: an
\* answer that arrived is not asked for again, and was billed.
BilledAsHeard ==
  \A c \in Calls :
    /\ Heard(c, Answered) <= 1
    /\ Heard(c, Answered) <= served[c]
    /\ served[c] <= Heard(c, Answered \cup Ambiguous) + (IF Abandoned(c) THEN 1 ELSE 0)

\* However a call ends, by an answer, an error, a third failure or a
\* cancellation between two attempts, inside one or while the client closes,
\* its AsyncClient is closed and the event loop is free for the others.
NothingLeftBehind ==
  /\ open = {c \in Calls : Cooperates(c) /\ Underway(c)}
  /\ loop # Free => Blocks(loop) /\ Underway(loop)

\* What the user said last and what the system said last are in the payload of
\* every provider, in a turn that is not the assistant's; without tools.
LastTurnsReach ==
  \A c \in Calls : Underway(c) /\ Of(ask[c].messages, {"tool"}) = << >> =>
    LET sent  == Payload(Client(c).shape, ask[c].messages)
        heard == {t.content : t \in {u \in ToSet(sent.turns) : u.role # "assistant"}}
    IN /\ LastOf(ask[c].messages, {"user"}) \in heard \cup {0}
       /\ LastOf(ask[c].messages, {"system"}) \in heard \cup {sent.system, 0}

\* Every call that has begun ends, and one that blocks the event loop gives it
\* back to those that wait for it.
EveryCallEnds == \A c \in Calls : Underway(c) ~> ~Underway(c)

=============================================================================
