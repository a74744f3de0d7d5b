--------------------------- MODULE MCWagerConsumer ---------------------------
(***************************************************************************)
(* Small instances of WagerConsumer.                                       *)
(***************************************************************************)
EXTENDS WagerConsumer, TLC

CONSTANTS c1, c2

Carries(id, key, payload, wallet) ==
    [id |-> id, key |-> key, payload |-> payload, wallet |-> wallet]

\* A wager, and its key with another payload on another wallet.
RedeliveryEnvelope ==
    [bet |-> Carries("m1", "k1", "bet", "w1"),
     altered |-> Carries("m3", "k1", "other", "w2")]
RedeliveryMessages == DOMAIN RedeliveryEnvelope
Symmetry == Permutations({c1, c2})

\* A wager for a wallet that is not there yet, and a message of the same
\* wallet that cannot be parsed.
RefusalEnvelope ==
    [early |-> Carries("m2", "k2", "bet", "w2"),
     garbage |-> Carries("m4", "k4", "none", "w2")]
RefusalMessages == DOMAIN RefusalEnvelope

LossEnvelope == [bet |-> Carries("m1", "k1", "bet", "w1")]
LossMessages == DOMAIN LossEnvelope
=============================================================================
