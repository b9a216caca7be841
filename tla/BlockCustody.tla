---------------------------- MODULE BlockCustody ----------------------------
(***************************************************************************)
(* What the GQAP arena pools promise about one memory block: at any time   *)
(* exactly one party has it, and it only changes hands along the edges     *)
(* below.  The tier split is in the edges: from the untrusted side there   *)
(* is no way back to the common pool or to a trusted arena.                *)
(*                                                                         *)
(*   common -> trusted -> common                                           *)
(*   common -> untrusted -> quarantine -> sanitizer -> l2 -> untrusted     *)
(*   quarantine -> untrusted     Arena.init on exhausted pools             *)
(*   untrusted -> l2             deinitAndZero                             *)
(*                                                                         *)
(* GqapLifecycle is shown to implement this module.                        *)
(***************************************************************************)
EXTENDS Naturals

CONSTANT BlockCount      \* initPools' block_count

VARIABLE custody         \* who has each block

Blocks == 1 .. BlockCount

Parties ==
  {"common", "trusted", "untrusted", "quarantine", "sanitizer", "l2"}

Handovers ==
  { <<"common", "trusted">>,       <<"trusted", "common">>,
    <<"common", "untrusted">>,     <<"l2", "untrusted">>,
    <<"quarantine", "untrusted">>, <<"untrusted", "quarantine">>,
    <<"untrusted", "l2">>,         <<"quarantine", "sanitizer">>,
    <<"sanitizer", "l2">> }

Init == custody = [b \in Blocks |-> "common"]

\* Block b goes from its present party to another one.
Handover(b) ==
  \E p \in Parties :
    /\ <<custody[b], p>> \in Handovers
    /\ custody' = [custody EXCEPT ![b] = p]

Next == \E b \in Blocks : Handover(b)

Spec == Init /\ [][Next]_custody

=============================================================================
