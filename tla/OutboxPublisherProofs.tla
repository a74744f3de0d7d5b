----------------------- MODULE OutboxPublisherProofs -----------------------
(***************************************************************************)
(* Proofs about OutboxPublisher, for any number of events and publishers   *)
(* and any size of a batch: no row is in two hands, and the publishers     *)
(* implement the relay.                                                    *)
(***************************************************************************)
EXTENDS OutboxPublisher, TLAPS

(***************************************************************************)
(* The strengthening the refinement needs: a row is updated to PUBLISHED   *)
(* only after the queue took its event.                                    *)
(***************************************************************************)
SentBeforeDone == \A p \in Publishers : \A e \in done[p] : copies[e] > 0
PublisherInv == TypeOK /\ SentBeforeDone

-----------------------------------------------------------------------------
\* The initial state: nothing is stored.
LEMMA InitInv == Init => PublisherInv
BY DEF Init, PublisherInv, TypeOK, SentBeforeDone, LockedBy

\* An event the queue is asked to take keeps its type and its copies.
LEMMA TakeCounts ==
    ASSUME NEW e \in Events, copies \in [Events -> Nat],
           Take(e) \/ UNCHANGED copies
    PROVE  /\ copies' \in [Events -> Nat]
           /\ \A f \in Events : copies'[f] >= copies[f]
           /\ Take(e) => copies'[e] > 0
BY LimitsAssumption DEF Take

-----------------------------------------------------------------------------
\* A commit of a use case: the new rows are in nobody's hands.
LEMMA StoreKeepsInv ==
    ASSUME PublisherInv, NEW c \in Commits, Store(c)
    PROVE  PublisherInv'
<1>1. c \subseteq Events
  BY CommitsAssumption
<1>2. TypeOK'
  BY <1>1 DEF PublisherInv, TypeOK, Store, LockedBy, batch
<1>3. SentBeforeDone'
  BY DEF PublisherInv, SentBeforeDone, Store, batch
<1> QED BY <1>2, <1>3 DEF PublisherInv

\* The rows a poll selects were in nobody's hands.
LEMMA SelectKeepsInv ==
    ASSUME PublisherInv, NEW p \in Publishers, Select(p)
    PROVE  PublisherInv'
<1> DEFINE S == First(Selectable, BatchLimit)
<1>1. S \subseteq Selectable
  BY DEF First
<1>2. S \subseteq stored /\ S \cap (published \cup waiting) = {}
  BY <1>1 DEF Selectable
<1>3. \A q \in Publishers : S \cap LockedBy(q) = {}
  BY <1>1 DEF Selectable
<1>4. LockedBy(p) = {}
  BY DEF Select, Polling
<1>5. /\ rows \in [Publishers -> SUBSET stored]
      /\ rows' = [rows EXCEPT ![p] = S]
      /\ UNCHANGED <<stored, published, waiting, done, putBack, running, copies,
                     datesAreParsed>>
  BY DEF Select, database, PublisherInv, TypeOK
<1> HIDE DEF S
<1>6. /\ LockedBy(p)' = S
      /\ \A q \in Publishers : q # p => LockedBy(q)' = LockedBy(q)
  BY <1>4, <1>5 DEF LockedBy
<1>7. \A q \in Publishers :
         /\ LockedBy(q)' \cap (published' \cup waiting') = {}
         /\ rows'[q] \cap (done'[q] \cup putBack'[q]) = {}
         /\ done'[q] \cap putBack'[q] = {}
  <2> TAKE q \in Publishers
  <2>1. CASE q = p
    BY <2>1, <1>2, <1>4, <1>5, <1>6 DEF LockedBy
  <2>2. CASE q # p
    BY <2>2, <1>5, <1>6 DEF PublisherInv, TypeOK
  <2> QED BY <2>1, <2>2
<1>8. \A q, r \in Publishers : LockedBy(q)' \cap LockedBy(r)' # {} => q = r
  BY <1>3, <1>6 DEF PublisherInv, TypeOK
<1>9. TypeOK'
  BY <1>2, <1>5, <1>7, <1>8 DEF PublisherInv, TypeOK
<1>10. SentBeforeDone'
  BY <1>5 DEF PublisherInv, SentBeforeDone
<1> QED BY <1>9, <1>10 DEF PublisherInv

\* The row stays locked, whether it is updated to PUBLISHED or put back.
LEMMA SendKeepsInv ==
    ASSUME PublisherInv, NEW p \in Publishers, NEW e \in Events,
           Publish(p, e) \/ SendFails(p, e)
    PROVE  PublisherInv'
<1>1. /\ e \in rows[p]
      /\ rows' = [rows EXCEPT ![p] = @ \ {e}]
      /\ UNCHANGED <<stored, published, waiting, running, datesAreParsed>>
      /\ Take(e) \/ UNCHANGED copies
  BY DEF Publish, SendFails, IsNext, database
<1>2. \/ Take(e) /\ done' = [done EXCEPT ![p] = @ \cup {e}] /\ UNCHANGED putBack
      \/ putBack' = [putBack EXCEPT ![p] = @ \cup {e}] /\ UNCHANGED done
  BY DEF Publish, SendFails
<1>3. /\ copies' \in [Events -> Nat]
      /\ \A f \in Events : copies'[f] >= copies[f]
      /\ Take(e) => copies'[e] > 0
  BY <1>1, TakeCounts DEF PublisherInv, TypeOK
<1>4. \A q \in Publishers : LockedBy(q)' = LockedBy(q)
  BY <1>1, <1>2 DEF LockedBy, PublisherInv, TypeOK
<1>5. \A q \in Publishers :
         /\ rows'[q] \cap (done'[q] \cup putBack'[q]) = {}
         /\ done'[q] \cap putBack'[q] = {}
  BY <1>1, <1>2 DEF PublisherInv, TypeOK
<1>6. /\ rows' \in [Publishers -> SUBSET stored]
      /\ done' \in [Publishers -> SUBSET stored]
      /\ putBack' \in [Publishers -> SUBSET stored]
  BY <1>1, <1>2 DEF PublisherInv, TypeOK
<1>7. TypeOK'
  BY <1>1, <1>3, <1>4, <1>5, <1>6 DEF PublisherInv, TypeOK
<1>8. SentBeforeDone'
  <2> SUFFICES ASSUME NEW q \in Publishers, NEW f \in done'[q]
               PROVE  copies'[f] > 0
    BY DEF SentBeforeDone
  <2>1. f \in done[q] \/ (f = e /\ Take(e))
    BY <1>1, <1>2 DEF PublisherInv, TypeOK
  <2>2. CASE f \in done[q]
    <3>1. f \in Events /\ copies[f] > 0 /\ copies[f] \in Nat
      BY <2>2 DEF PublisherInv, TypeOK, SentBeforeDone
    <3> QED BY <3>1, <1>3
  <2> QED BY <1>3, <2>1, <2>2
<1> QED BY <1>7, <1>8 DEF PublisherInv

\* The end of a transaction: what it makes visible was in no other hands.
LEMMA EndKeepsInv ==
    ASSUME PublisherInv, NEW p \in Publishers, Commit(p) \/ Rollback(p)
    PROVE  PublisherInv'
<1>1. /\ End(p) /\ UNCHANGED <<stored, running, copies, datesAreParsed>>
      /\ \/ UNCHANGED <<published, waiting>>
         \/ /\ published' = published \cup done[p]
            /\ waiting' = waiting \cup putBack[p]
  BY DEF Commit, Rollback, database
<1>2. /\ LockedBy(p)' = {}
      /\ \A q \in Publishers : q # p => LockedBy(q)' = LockedBy(q)
      /\ \A q \in Publishers : /\ rows'[q] \subseteq rows[q]
                               /\ done'[q] \subseteq done[q]
                               /\ putBack'[q] \subseteq putBack[q]
  BY <1>1 DEF End, LockedBy, PublisherInv, TypeOK
<1>3. /\ rows' \in [Publishers -> SUBSET stored]
      /\ done' \in [Publishers -> SUBSET stored]
      /\ putBack' \in [Publishers -> SUBSET stored]
  BY <1>1 DEF End, PublisherInv, TypeOK
<1>4. published' \cup waiting' \subseteq published \cup waiting \cup LockedBy(p)
  BY <1>1 DEF LockedBy
<1>5. \A q \in Publishers : LockedBy(q)' \cap (published' \cup waiting') = {}
  <2> TAKE q \in Publishers
  <2>1. CASE q = p
    BY <1>2, <2>1
  <2>2. CASE q # p
    BY <1>2, <1>4, <2>2 DEF PublisherInv, TypeOK
  <2> QED BY <2>1, <2>2
<1>6. published' \subseteq stored /\ waiting' \subseteq stored
  BY <1>4 DEF LockedBy, PublisherInv, TypeOK
<1>7. \A q, r \in Publishers : LockedBy(q)' \cap LockedBy(r)' # {} => q = r
  BY <1>2 DEF PublisherInv, TypeOK
<1>8. TypeOK'
  BY <1>1, <1>2, <1>3, <1>5, <1>6, <1>7 DEF PublisherInv, TypeOK
<1>9. SentBeforeDone'
  BY <1>1, <1>2 DEF PublisherInv, SentBeforeDone
<1> QED BY <1>8, <1>9 DEF PublisherInv

LEMMA InvStep == PublisherInv /\ [Next]_vars => PublisherInv'
<1> SUFFICES ASSUME PublisherInv, [Next]_vars PROVE PublisherInv'
  OBVIOUS
<1>1. CASE \E c \in Commits : Store(c)
  BY <1>1, StoreKeepsInv
<1>2. CASE \E p \in Publishers : Select(p) \/ Commit(p) \/ Rollback(p)
  BY <1>2, SelectKeepsInv, EndKeepsInv
<1>3. CASE \E p \in Publishers, e \in Events : Publish(p, e) \/ SendFails(p, e)
  BY <1>3, SendKeepsInv
<1>4. CASE \E e \in Events : BackoffEnds(e)
  BY <1>4
  DEF BackoffEnds, batch, PublisherInv, TypeOK, SentBeforeDone, LockedBy
<1>5. CASE \E p \in Stopping : Shutdown(p) \/ Restart(p)
  BY <1>5, StoppingAssumption
  DEF Shutdown, Restart, database, batch, PublisherInv, TypeOK,
      SentBeforeDone, LockedBy
<1>6. CASE UNCHANGED vars
  BY <1>6
  DEF vars, database, batch, PublisherInv, TypeOK, SentBeforeDone, LockedBy
<1> QED BY <1>1, <1>2, <1>3, <1>4, <1>5, <1>6 DEF Next

LEMMA InvHolds == SafeSpec => []PublisherInv
<1> QED BY InitInv, InvStep, PTL DEF SafeSpec

(***************************************************************************)
(* The locks of the polls: no row of the outbox is ever in the hands of    *)
(* two publishers, and none that is PUBLISHED or waiting is in any.        *)
(***************************************************************************)
THEOREM LocksCorrect == SafeSpec => []TypeOK
<1>1. PublisherInv => TypeOK
  BY DEF PublisherInv
<1> QED BY <1>1, InvHolds, PTL

-----------------------------------------------------------------------------
\* What the publishers start from is where the relay starts.
LEMMA InitImplements == Init => R!RelayInit
BY DEF Init, R!RelayInit

(***************************************************************************)
(* A send is a delivery or, when the queue knows its id, nothing; a commit *)
(* settles what it marks; all that is undone or put off is a stutter.      *)
(***************************************************************************)
LEMMA StepImplements ==
    PublisherInv /\ [Next]_vars => [R!RelayNext]_R!relayVars
<1> SUFFICES ASSUME PublisherInv, [Next]_vars
             PROVE  R!RelayNext \/ UNCHANGED R!relayVars
  OBVIOUS
<1>1. ASSUME NEW c \in Commits, Store(c) PROVE R!RelayNext
  <2>1. R!Store(c)
    BY <1>1 DEF Store, R!Store
  <2>2. c \in SUBSET Events
    BY CommitsAssumption
  <2> QED BY <2>1, <2>2 DEF R!RelayNext
<1>2. ASSUME NEW p \in Publishers, NEW e \in Events,
             Publish(p, e) \/ SendFails(p, e)
      PROVE  R!RelayNext \/ UNCHANGED R!relayVars
  <2>1. e \in stored \ published
    BY <1>2 DEF Publish, SendFails, IsNext, LockedBy, PublisherInv, TypeOK
  <2>2. UNCHANGED <<stored, published>>
    BY <1>2 DEF Publish, SendFails, database
  <2>3. UNCHANGED copies \/ copies' = [copies EXCEPT ![e] = @ + 1]
    BY <1>2 DEF Publish, SendFails, Take
  <2>4. CASE UNCHANGED copies
    BY <2>2, <2>4 DEF R!relayVars
  <2>5. CASE copies' = [copies EXCEPT ![e] = @ + 1]
    <3>1. R!Deliver(e)
      BY <2>1, <2>2, <2>5 DEF R!Deliver
    <3> QED BY <3>1 DEF R!RelayNext
  <2> QED BY <2>3, <2>4, <2>5
<1>3. ASSUME NEW p \in Publishers, Commit(p) PROVE R!RelayNext
  <2>1. done[p] \subseteq stored /\ \A e \in done[p] : copies[e] > 0
    BY DEF PublisherInv, TypeOK, SentBeforeDone
  <2>2. R!Settle(done[p])
    BY <1>3, <2>1 DEF Commit, R!Settle
  <2>3. done[p] \in SUBSET Events
    BY <2>1 DEF PublisherInv, TypeOK
  <2> QED BY <2>2, <2>3 DEF R!RelayNext
<1>4. ASSUME NEW p \in Publishers,
             Select(p) \/ Rollback(p) \/ Shutdown(p) \/ Restart(p)
      PROVE  UNCHANGED R!relayVars
  BY <1>4 DEF Select, Rollback, Shutdown, Restart, database, R!relayVars
<1>5. ASSUME NEW e \in Events, BackoffEnds(e) PROVE UNCHANGED R!relayVars
  BY <1>5 DEF BackoffEnds, R!relayVars
<1>6. ASSUME UNCHANGED vars PROVE UNCHANGED R!relayVars
  BY <1>6 DEF vars, database, R!relayVars
<1> QED
  BY <1>1, <1>2, <1>3, <1>4, <1>5, <1>6, StoppingAssumption DEF Next

(***************************************************************************)
(* The publishers implement the relay: an event is PUBLISHED only after    *)
(* the queue took it, none is sent again once it is PUBLISHED, and none is *)
(* dropped, for any number of publishers and any size of a batch.          *)
(***************************************************************************)
THEOREM PublishersImplementRelay == SafeSpec => ImplementsRelay
<1> QED
  BY InitImplements, StepImplements, InvHolds, PTL
  DEF SafeSpec, ImplementsRelay, R!SafeRelay
=============================================================================
