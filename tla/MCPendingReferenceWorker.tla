---------------------- MODULE MCPendingReferenceWorker ----------------------
(***************************************************************************)
(* A small instance of PendingReferenceWorker.                             *)
(***************************************************************************)
EXTENDS PendingReferenceWorker

CONSTANTS w1, p1, BRL, rd, i1, i2

Wager(n, kind, amount, reference) ==
    [key |-> <<"key", n>>, external |-> n, wallet |-> w1, player |-> p1,
     currency |-> BRL, round |-> rd, kind |-> kind, amount |-> amount,
     reference |-> reference]

\* A refund that may overtake its bet, and a rollback of what never comes.
Overtaking ==
    {Wager("bet", "BET", 1, None),
     Wager("refund", "REFUND", 1, "bet"),
     Wager("orphan", "ROLLBACK", 1, "ghost")}
OvertakingFailing == {r \in Overtaking : r.external = "orphan"}
OvertakingKeys == {r.key : r \in Overtaking}
OvertakingExternals == {r.external : r \in Overtaking} \cup {"ghost"}
=============================================================================
