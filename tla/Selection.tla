------------------------------- MODULE Selection -------------------------------
(***************************************************************************)
(* What is left of a sequence when the code drops entries of it: of an     *)
(* OrderedDict when keys are deleted, of a timeline when its traces are    *)
(* passed over.                                                            *)
(***************************************************************************)
EXTENDS Integers, Sequences

\* the entries of c at the places K, in their order
Kept(c, K) ==
    LET kept[n \in 0..Len(c)] ==
            IF n = 0 THEN <<>>
            ELSE IF n \in K THEN Append(kept[n - 1], c[n]) ELSE kept[n - 1]
    IN  kept[Len(c)]

================================================================================
