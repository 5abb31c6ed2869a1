--------------------------------- MODULE Lists ---------------------------------
(***************************************************************************)
(* Lists without some of their elements: what Vec::retain of the desktop   *)
(* client and Array.filter of the page leave, as a recursive function that *)
(* the provers can reason about; and the list of the values of a map.      *)
(***************************************************************************)
EXTENDS Naturals, Sequences

Elements(s) == {s[k] : k \in DOMAIN s}

\* No element comes twice.
Distinct(s) == \A k, l \in DOMAIN s : s[k] = s[l] => k = l

\* What is left of the list s after the elements of S are taken out.
Without(s, S) ==
    LET kept[n \in 0 .. Len(s)] ==
            IF n = 0 THEN <<>>
            ELSE IF s[n] \in S THEN kept[n - 1] ELSE Append(kept[n - 1], s[n])
    IN  kept[Len(s)]

\* The list of the values of F at the elements of s.
Image(F, s) == [k \in DOMAIN s |-> F[s[k]]]

\* 1, 2, ... n.
UpTo(n) == [x \in 1 .. n |-> x]

=============================================================================
