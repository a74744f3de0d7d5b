----------------------------- MODULE EventRelay -----------------------------
(***************************************************************************)
(* What the transactional outbox promises, without publishers, batches,    *)
(* locks or retries: an event that was stored with its use case reaches    *)
(* the events queue at least once; copies of it appear there only until it *)
(* is settled; nothing else ever appears there and nothing is forgotten.   *)
(***************************************************************************)
EXTENDS Naturals

CONSTANT Events

VARIABLES
    stored,  \* the events of the use cases that have committed
    copies,  \* copies[e]: how often the queue has taken event e
    settled  \* the events that will not be sent any more

relayVars == <<stored, copies, settled>>

RelayInit ==
    /\ stored = {}
    /\ copies = [e \in Events |-> 0]
    /\ settled = {}

Store(S) ==
    /\ S \cap stored = {}
    /\ stored' = stored \cup S
    /\ UNCHANGED <<copies, settled>>

Deliver(e) ==
    /\ e \in stored \ settled
    /\ copies' = [copies EXCEPT ![e] = @ + 1]
    /\ UNCHANGED <<stored, settled>>

Settle(S) ==
    /\ S \subseteq stored
    /\ \A e \in S : copies[e] > 0
    /\ settled' = settled \cup S
    /\ UNCHANGED <<stored, copies>>

RelayNext ==
    \/ \E S \in SUBSET Events : Store(S) \/ Settle(S)
    \/ \E e \in Events : Deliver(e)

SafeRelay == RelayInit /\ [][RelayNext]_relayVars
EveryEventSettles == \A e \in Events : e \in stored ~> e \in settled
Relay == SafeRelay /\ EveryEventSettles
=============================================================================
