-------------------------------- MODULE Lists --------------------------------
(***************************************************************************)
(* Lists, as the loops of the preparation make them, and as the gateway    *)
(* cuts them in pages.  What a loop copies or merges is a function over    *)
(* the indices: SelectSeq and FoldLeft would do the same, but take an      *)
(* operator, which no proof can be made about.                             *)
(***************************************************************************)
EXTENDS Integers, Sequences

InList(q) == {q[i] : i \in DOMAIN q}

Distinct(q) == \A i, j \in DOMAIN q : q[i] = q[j] => i = j

\* The loops that copy what passes a test, told by the set of what passes.
Only(q, S) ==
  LET upto[n \in 0..Len(q)] ==
        IF n = 0 THEN << >>
        ELSE IF q[n] \in S THEN Append(upto[n - 1], q[n]) ELSE upto[n - 1]
  IN  upto[Len(q)]

\* The loops that add what is not there yet.
Merged(q, r) ==
  LET upto[n \in 0..Len(r)] ==
        IF n = 0 THEN q
        ELSE IF r[n] \in InList(upto[n - 1]) THEN upto[n - 1] ELSE Append(upto[n - 1], r[n])
  IN  upto[Len(r)]

\* The gateway's page of a list at the moment of the request, and the number of
\* pages it says there are.
Smaller(a, b) == IF a < b THEN a ELSE b

PageOf(q, n, size) == SubSeq(q, (n - 1) * size + 1, Smaller(n * size, Len(q)))
Pages(q, size)     == (Len(q) + size - 1) \div size
=============================================================================
