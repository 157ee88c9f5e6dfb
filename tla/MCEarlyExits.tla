---------------------------- MODULE MCEarlyExits ----------------------------
(***************************************************************************)
(* Bounded instances of EarlyExits: the real 1/10000 rates, pieces from    *)
(* one raw unit up, and totals past the first few whole units of penalty.  *)
(***************************************************************************)
EXTENDS EarlyExits

Rate(penalty, burn) == [penalty |-> penalty, burn |-> burn]

\* The largest rates, the 50 % rates of the tests, odd rates whose remainders
\* interleave, and small ones.
AllRates ==
    {Rate(5000, 5000), Rate(5000, 2500), Rate(5000, 0), Rate(3000, 2000), Rate(3333, 1667), Rate(1000, 100)}

\* A burn share whose unit falls on a piece that pays no penalty unit.
ThirdsRate == {Rate(3000, 2000)}
=============================================================================
