----------------------------- MODULE MCOptiboot -----------------------------
(* Optiboot on pages of four bytes and addresses modulo eight. *)
EXTENDS Optiboot

CONSTANTS r1, r2

data(a, n) == [type |-> "data", full |-> a, len |-> n]
upper(a)   == [type |-> "upper", full |-> a]
eof        == [type |-> "eof"]

\* A page filled by two records, one cut by the end of a page, a jump, and
\* the upper half of the memory.
whole == <<data(0, 2), data(2, 4), [type |-> "other"], data(6, 2), upper(8), data(8, 2),
           data(12, 2), eof>>
const_Images == {whole, <<data(2, 4)>>, <<data(0, 2), [type |-> "bad"], eof>>}
const_Whole == {<<data(0, 2), data(2, 4), data(6, 2), eof>>}
const_Requests == {r1, r2}
const_One == {r1}
=============================================================================
