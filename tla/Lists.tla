--------------------------------- MODULE Lists ---------------------------------
(***************************************************************************)
(* Lists of the Python components, as sequences.                           *)
(***************************************************************************)
EXTENDS Naturals, Sequences

\* The entries of a list that are in a set, in their order.
Kept(list, keep) ==
  LET kept[n \in 0 .. Len(list)] ==
        IF n = 0 THEN <<>>
        ELSE IF list[n] \in keep THEN Append(kept[n - 1], list[n]) ELSE kept[n - 1]
  IN kept[Len(list)]

=============================================================================
