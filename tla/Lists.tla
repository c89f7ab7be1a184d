-------------------------------- MODULE Lists --------------------------------
(* What the operator modules do with lists and with label sets. *)
EXTENDS Naturals, Sequences

\* The elements of a list that are in a set, in the order of the list.
Only(list, some) ==
  LET upTo[n \in 0 .. Len(list)] ==
        IF n = 0 THEN <<>> ELSE IF list[n] \in some THEN Append(upTo[n - 1], list[n]) ELSE upTo[n - 1]
  IN upTo[Len(list)]

\* One function and, where it has no value, another.
Over(f, g) == [x \in DOMAIN f \cup DOMAIN g |-> IF x \in DOMAIN f THEN f[x] ELSE g[x]]
=============================================================================
