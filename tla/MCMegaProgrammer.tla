-------------------------- MODULE MCMegaProgrammer --------------------------
(* MegaProgrammer on pages of four bytes and addresses modulo eight. *)
EXTENDS MegaProgrammer

data(a, n) == [type |-> "data", full |-> a, len |-> n]
upper(a)   == [type |-> "upper", full |-> a]
eof        == [type |-> "eof"]

\* A page filled by two records, one cut by the end of a page, a jump, and
\* the upper half of the memory; a truncated image and a corrupt one.
const_Images ==
    {<<data(0, 2), data(2, 4), data(6, 2), upper(8), data(8, 2), data(12, 2), eof>>,
     <<data(2, 4)>>, <<data(0, 2), [type |-> "bad"], eof>>}
=============================================================================
