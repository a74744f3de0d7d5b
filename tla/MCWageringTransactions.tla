----------------------- MODULE MCWageringTransactions -----------------------
(***************************************************************************)
(* Small instances of WageringTransactions.                                *)
(***************************************************************************)
EXTENDS WageringTransactions, TLC

CONSTANTS w1, w2, p1, p2, BRL, USD, rd

Wager(n, w, p, currency, kind, amount, reference) ==
    [key |-> <<"key", n>>, external |-> n, wallet |-> w, player |-> p,
     currency |-> currency, round |-> rd, kind |-> kind, amount |-> amount,
     reference |-> reference]
KeysOf(requests) == {r.key : r \in requests}
ExternalsOf(requests) == {r.external : r \in requests}

\* One wallet: a bet, the reversals that compete for it, one that undoes the
\* refund.  Any of them may arrive first.
Competing ==
    {Wager("bet", w1, p1, BRL, "BET", 2, None),
     Wager("refund", w1, p1, BRL, "REFUND", 2, "bet"),
     Wager("rollback", w1, p1, BRL, "ROLLBACK", 2, "bet"),
     Wager("undo", w1, p1, BRL, "ROLLBACK", 2, "refund"),
     Wager("again", w1, p1, BRL, "REFUND", 2, "bet")}
CompetingKeys == KeysOf(Competing)
CompetingExternals == ExternalsOf(Competing)
CompetingFailing == {r \in Competing : r.external = "bet"}

\* Two wallets and every way a wager can miss its context: another wallet's
\* bet, a bet that arrives twice under two keys, no funds, another currency,
\* nothing at stake, a reversal that names itself.
Contexts ==
    {Wager("bet", w1, p1, BRL, "BET", 2, None),
     [Wager("bet", w1, p1, BRL, "BET", 1, None) EXCEPT !.key = <<"key", "bet2">>],
     Wager("win", w1, p1, BRL, "WIN", 1, None),
     Wager("undo", w1, p1, BRL, "ROLLBACK", 1, "win"),
     Wager("cross", w2, p2, BRL, "REFUND", 2, "bet"),
     Wager("itself", w2, p2, BRL, "ROLLBACK", 1, "itself"),
     Wager("usd", w1, p1, USD, "WIN", 1, None),
     Wager("loss", w1, p1, USD, "LOSS", 1, None),
     Wager("zero", w2, p2, BRL, "BET", 0, None)}
ContextsKeys == KeysOf(Contexts)
ContextsExternals == ExternalsOf(Contexts)
ContextsFailing == {r \in Contexts : r.external = "cross"}
=============================================================================
