-------------------------------- MODULE Totals --------------------------------
(***************************************************************************)
(* Sums over the owners.  A sum is counted unit by unit and not folded     *)
(* together, so that what changing one of its terms does to it follows     *)
(* from the theory of finite sets (TotalsProofs).                          *)
(***************************************************************************)
EXTENDS Integers, FiniteSets

\* f[x] units for each x.
Units(S, f) == UNION {{x} \X (1 .. f[x]) : x \in S}

SumOver(S, f) == Cardinality(Units(S, f))
=============================================================================
