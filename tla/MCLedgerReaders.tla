-------------------------- MODULE MCLedgerReaders --------------------------
(***************************************************************************)
(* A small instance of LedgerReaders: one wallet with an opening balance,  *)
(* a bet, its refund and a win.                                            *)
(***************************************************************************)
EXTENDS LedgerReaders

CONSTANTS w1, p1, BRL, rd

Wager(n, kind, amount, reference) ==
    [key |-> <<"key", n>>, external |-> n, wallet |-> w1, player |-> p1,
     currency |-> BRL, round |-> rd, kind |-> kind, amount |-> amount,
     reference |-> reference]
OneRound == {Wager("bet", "BET", 2, None), Wager("refund", "REFUND", 2, "bet"),
             Wager("win", "WIN", 2, None)}
\* The loop of the reconciliation computes Recomputed: all ledgers of up to two
\* entries with amounts up to 2, and of three with amounts up to 1.
AnyEntry(most) ==
    [type: EntryTypes, amount: 0..most, before: 0..most, after: 0..most]
AnyLedger(n, most) == [1..n -> AnyEntry(most)]
ASSUME LoopRecomputes ==
    \A entries \in UNION {AnyLedger(n, 2) : n \in 0..2} \cup AnyLedger(3, 1) :
        RecomputedByLoop(entries) = Recomputed(entries)

OneRoundKeys == {r.key : r \in OneRound}
OneRoundExternals == {r.external : r \in OneRound}
=============================================================================
