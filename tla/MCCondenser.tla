----------------------------- MODULE MCCondenser -----------------------------
(***************************************************************************)
(* Condenser for TLC: kinds of messages that differ in one respect each,   *)
(* and the settings that a strategy looks at.                              *)
(***************************************************************************)
EXTENDS Condenser

Kind(role, content, time, tokens, importance) ==
  [role |-> role, content |-> content, time |-> time, tokens |-> tokens,
   importance |-> importance]

\* In any order, so that the clock stands still, ascends or steps back.  At time
\* 8 the less important outweighs what is more important at time 2.
MCKinds == {
  Kind("system", "rules", 2, 2, 2),
  Kind("user", "hi", 2, 1, 2),
  Kind("assistant", "hi", 3, 1, 2),
  Kind("assistant", "long", 4, 3, 2),
  Kind("user", "hi", 2, 1, 1),
  Kind("assistant", "long", 2, 3, 2),
  Kind("user", "bye", 8, 1, 1)}

Config(strategy, max_tokens, preserve_system, min_messages) ==
  [strategy |-> strategy, max_tokens |-> max_tokens,
   preserve_system |-> preserve_system, min_messages |-> min_messages]

MCConfigs ==
  {Config(s, 4, p, n) : s \in {"sliding_window", "hybrid"}, p \in BOOLEAN, n \in {0, 2}}
    \cup {Config("hybrid", 6, TRUE, 2), Config("none", 4, TRUE, 2)}
    \cup {Config("dedup", 4, p, 2) : p \in BOOLEAN}
    \cup {Config("summarize", n, TRUE, 2) : n \in {4, 6}}

=============================================================================
