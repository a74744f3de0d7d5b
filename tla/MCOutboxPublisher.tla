------------------------- MODULE MCOutboxPublisher -------------------------
(***************************************************************************)
(* A small instance of OutboxPublisher.                                    *)
(***************************************************************************)
EXTENDS OutboxPublisher

CONSTANTS p1, p2

\* A wager that moved money, with two events, and one that did not.
ThreeEvents == 1..3
TwoWagers == {{1, 2}, {3}}
=============================================================================
