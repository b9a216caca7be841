---------------------------- MODULE MCModelRouter ----------------------------
(***************************************************************************)
(* ModelRouter for TLC: two candidates, and configurations that take every *)
(* path between the strategies.                                            *)
(***************************************************************************)
EXTENDS ModelRouter, TLC

Config(strategy, fallback, registered, known, weighted) ==
  [strategy |-> strategy, fallback |-> fallback, registered |-> registered,
   known |-> known, weighted |-> weighted, retries |-> 1,
   retry_on |-> {"timeout"}, budget |-> 2]

MCConfigs == {
  [Config("race", "none", {1, 2}, {1, 2}, {}) EXCEPT !.retries = 0],
  [Config("race", "none", {1, 2}, {1, 2}, {}) EXCEPT !.budget = 1],
  Config("race", "smart", {1, 2}, {1}, {1}),
  Config("race", "uniform", {1}, {1}, {}),
  Config("race", "race", {1, 2}, {1}, {}),
  [Config("race", "race", {1, 2}, {1, 2}, {}) EXCEPT !.budget = 0],
  Config("smart", "none", {1, 2}, {1, 2}, {1, 2}),
  Config("uniform", "none", {1}, {1}, {})}

FallbackConfigs == {Config("race", "uniform", {1, 2}, {1, 2}, {})}

RequestSymmetry == Permutations(Requests)

=============================================================================
