------------------------- MODULE MCDatabaseSessions -------------------------
(***************************************************************************)
(* Small instances of DatabaseSessions.                                    *)
(***************************************************************************)
EXTENDS DatabaseSessions, TLC

CONSTANTS w1, w2, p1, p2, BRL, rd

Wager(n, w, p, kind, amount, reference) ==
    [key |-> <<"key", n>>, external |-> n, wallet |-> w, player |-> p,
     currency |-> BRL, round |-> rd, kind |-> kind, amount |-> amount,
     reference |-> reference]

Bet == Wager("bet", w1, p1, "BET", 2, None)
Refund == Wager("refund", w1, p1, "REFUND", 2, "bet")
Undo == Wager("undo", w1, p1, "ROLLBACK", 2, "refund")
Rival == [Wager("undo", w1, p1, "BET", 1, None) EXCEPT !.key = <<"key", "rival">>]
Cross == Wager("cross", w2, p2, "ROLLBACK", 2, "refund")

KeysOf(requests) == {r.key : r \in requests}
ExternalsOf(requests) == {r.external : r \in requests}

Run(kind, req) == [kind |-> kind, req |-> req]
Rerun(req, last) == [kind |-> "REPROCESS", key |-> req.key, last |-> last]

\* One wallet: two bets of which the balance covers one, the refund of one and
\* its rollback, with the external id of the other bet, compete with two workers
\* that reprocess the refund, one of them for the last time.
RacingRequests == {Bet, Rival, Refund, Undo}
RacingKeys == KeysOf(RacingRequests)
RacingExternals == ExternalsOf(RacingRequests)
RacingTask ==
    [bet |-> Run("SUBMIT", Bet),
     rival |-> Run("SUBMIT", Rival),
     refund |-> Run("SUBMIT", Refund),
     undo |-> Run("SUBMIT", Undo),
     worker |-> Rerun(Refund, TRUE),
     other |-> Rerun(Refund, FALSE)]
RacingSessions == DOMAIN RacingTask

\* Two wallets: a delivery of the bet that failed, and a reversal that names
\* another wallet's refund while that is recorded and reprocessed.
CrossingRequests == {Bet, Refund, Cross}
CrossingKeys == KeysOf(CrossingRequests)
CrossingExternals == ExternalsOf(CrossingRequests)
CrossingFailing == {Bet}
CrossingTask ==
    [bet |-> Run("SUBMIT", Bet),
     failed |-> Run("FAIL", Bet),
     refund |-> Run("SUBMIT", Refund),
     cross |-> Run("SUBMIT", Cross),
     worker |-> Rerun(Refund, FALSE)]
CrossingSessions == DOMAIN CrossingTask
=============================================================================
