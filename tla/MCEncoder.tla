------------------------------ MODULE MCEncoder ------------------------------
(* Up to five blocks that cost one to four bytes each.                      *)
EXTENDS Encoder

CONSTANTS MaxBlocks, MaxCost

\* The running totals of a sequence of costs.
Totals(costs) ==
    LET sum[i \in 0 .. Len(costs)] == IF i = 0 THEN 0 ELSE sum[i - 1] + costs[i]
    IN  [i \in 1 .. (Len(costs) + 1) |-> sum[i - 1]]

MCOffsetTables ==
    UNION {{Totals(c) : c \in [1 .. n -> 1 .. MaxCost]} : n \in 1 .. MaxBlocks}
=============================================================================
