-------------------------------- MODULE Along --------------------------------
(***************************************************************************)
(* The left fold over a sequence, as a recursive function, and the elements *)
(* at some places.                                                         *)
(***************************************************************************)
EXTENDS Integers, Sequences

Along(op(_, _), base, seq) ==
  LET f[i \in 0 .. Len(seq)] == IF i = 0 THEN base ELSE op(f[i-1], seq[i]) IN f[Len(seq)]

\* The elements of seq at some places, in their order.
Those(seq, at) ==
  Along(LAMBDA out, i : IF i \in at THEN Append(out, seq[i]) ELSE out, <<>>, [i \in 1 .. Len(seq) |-> i])

=============================================================================
