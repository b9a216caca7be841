---------------------------- MODULE MCModelClients ----------------------------
(***************************************************************************)
(* ModelClients for TLC.  One call alone: every provider, with and without *)
(* a key, and for each layout that changes the messages every conversation *)
(* of up to three.                                                         *)
(* Two calls at a time: those that meet on the event loop.                 *)
(***************************************************************************)
EXTENDS ModelClients

CONSTANTS first, second

Ask(name, keyed, runs, messages) ==
  [name |-> name, keyed |-> keyed, runs |-> runs, messages |-> messages]

\* Said by roles[1], roles[2], ...; the n-th message has content n.
Said(roles) == [i \in DOMAIN roles |-> Turn(roles[i], i)]

Hello == Said(<<"user">>)

Conversations ==
  {Said(roles) : roles \in UNION {[1 .. n -> {"system", "user", "assistant"}] : n \in 0 .. 3}}
    \cup {Said(<<"user", "tool">>)}

\* An ask that create_provider refuses.
Nothing == Ask("gpt", TRUE, "thread", Hello)

Alone(a) == [c \in Calls |-> IF c = first THEN a ELSE Nothing]

Both(a, b) == [c \in Calls |-> IF c = first THEN a ELSE b]

MCWorkloads ==
  {Alone(Ask(name, keyed, "loop", Hello)) : name \in DOMAIN PROVIDERS, keyed \in BOOLEAN}
    \cup {Alone(Ask(name, TRUE, "thread", messages)) :
            name \in {"anthropic", "google", "cohere"}, messages \in Conversations}
    \cup {Both(Ask("openai", TRUE, "loop", Hello), Ask("cohere", TRUE, "loop", Hello))}

=============================================================================
