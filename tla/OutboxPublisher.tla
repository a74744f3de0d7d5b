-------------------------- MODULE OutboxPublisher --------------------------
(***************************************************************************)
(* The publishers of the outbox.  A poll is one database transaction: it   *)
(* selects and locks the next rows that are due, sends them one after      *)
(* another to the events queue and updates each row, PUBLISHED or put back *)
(* with a backoff.  The sends take effect at once, the updates when the    *)
(* transaction commits: an SQL error or a crash undoes all the updates of  *)
(* the batch and none of its sends.                                        *)
(*                                                                         *)
(* An event is a natural number: its place in the order (created_at, id)   *)
(* of the rows, which is not the order in which they are committed.        *)
(***************************************************************************)
EXTENDS Naturals, FiniteSets

CONSTANTS
    Events,
    Commits,     \* the sets of events that use cases store together
    Publishers,  \* the processes that run the publisher
    Stopping,    \* the publishers that are shut down and started again
    BatchLimit,  \* how many rows a poll selects
    MaxCopies    \* bound of the copies of one event in the queue

ASSUME EventsAssumption == Events \subseteq Nat
ASSUME CommitsAssumption == Commits \subseteq SUBSET Events
ASSUME StoppingAssumption == Stopping \subseteq Publishers
ASSUME LimitsAssumption == BatchLimit \in Nat \ {0} /\ MaxCopies \in Nat \ {0}

VARIABLES
    stored,     \* the rows of outbox_messages
    published,  \* the rows whose status is PUBLISHED
    waiting,    \* the rows whose next_attempt_at is in the future
    rows,       \* rows[p]: the selected rows that p has not updated
    done,       \* done[p]: the rows p has updated to PUBLISHED
    putBack,    \* putBack[p]: the rows p has given a backoff
    running,    \* running[p]: the loop of p polls again
    copies,     \* copies[e]: how often the queue has taken event e
    datesAreParsed  \* the driver returns created_at as a Date, not a string

database == <<stored, published, waiting>>
batch == <<rows, done, putBack>>
vars == <<database, batch, running, copies, datesAreParsed>>

\* The rows locked by the transaction of p, which is open while there are any.
LockedBy(p) == rows[p] \cup done[p] \cup putBack[p]
Polling(p) == LockedBy(p) # {}

\* A select without `for update skip locked'.
SelectableUnlocked == stored \ (published \cup waiting)

Selectable ==
    {e \in stored \ (published \cup waiting) :
        \A p \in Publishers : e \notin LockedBy(p)}

\* The first n elements of S.
First(S, n) == {e \in S : Cardinality({f \in S : f < e}) < n}

IsNext(p, e) == e \in rows[p] /\ \A f \in rows[p] : e <= f

-----------------------------------------------------------------------------
Init ==
    /\ stored = {} /\ published = {} /\ waiting = {}
    /\ rows = [p \in Publishers |-> {}]
    /\ done = [p \in Publishers |-> {}]
    /\ putBack = [p \in Publishers |-> {}]
    /\ running = [p \in Publishers |-> TRUE]
    /\ copies = [e \in Events |-> 0]
    /\ datesAreParsed \in BOOLEAN

\* A use case commits with the events it has enqueued.
Store(commit) ==
    /\ commit \cap stored = {}
    /\ stored' = stored \cup commit
    /\ UNCHANGED <<published, waiting, batch, running, copies, datesAreParsed>>

(***************************************************************************)
(* The poll begins, its rows are locked.  The metric of the lag is next,   *)
(* before anything is sent: on a string, getTime throws, and Rollback is   *)
(* all that can follow.  Which of the two the driver returns is fixed by   *)
(* its configuration, which is not part of this code.                      *)
(***************************************************************************)
Select(p) ==
    /\ running[p] /\ ~Polling(p)
    /\ Selectable # {}
    /\ rows' = [rows EXCEPT ![p] = First(Selectable, BatchLimit)]
    /\ UNCHANGED <<database, done, putBack, running, copies, datesAreParsed>>

\* The queue takes an event, or drops it when it still knows the id of an
\* earlier copy.
Take(e) ==
    \/ copies[e] < MaxCopies /\ copies' = [copies EXCEPT ![e] = @ + 1]
    \/ copies[e] > 0 /\ UNCHANGED copies

(***************************************************************************)
(* SendMessage answers and the row is updated to PUBLISHED.  That the      *)
(* update, or anything before the commit, can fail is Rollback.            *)
(***************************************************************************)
Publish(p, e) ==
    /\ IsNext(p, e) /\ datesAreParsed
    /\ Take(e)
    /\ rows' = [rows EXCEPT ![p] = @ \ {e}]
    /\ done' = [done EXCEPT ![p] = @ \cup {e}]
    /\ UNCHANGED <<database, putBack, running, datesAreParsed>>

\* A catch that marks the row like a send that was answered.
SendFailsPublished(p, e) ==
    /\ IsNext(p, e) /\ datesAreParsed
    /\ Take(e) \/ UNCHANGED copies
    /\ rows' = [rows EXCEPT ![p] = @ \ {e}]
    /\ done' = [done EXCEPT ![p] = @ \cup {e}]
    /\ UNCHANGED <<database, putBack, running, datesAreParsed>>

\* SendMessage throws, whether or not the queue has taken the event.
SendFails(p, e) ==
    /\ IsNext(p, e) /\ datesAreParsed
    /\ Take(e) \/ UNCHANGED copies
    /\ rows' = [rows EXCEPT ![p] = @ \ {e}]
    /\ putBack' = [putBack EXCEPT ![p] = @ \cup {e}]
    /\ UNCHANGED <<database, done, running, datesAreParsed>>

\* The end of p's transaction: its locks are released.
End(p) ==
    /\ rows' = [rows EXCEPT ![p] = {}]
    /\ done' = [done EXCEPT ![p] = {}]
    /\ putBack' = [putBack EXCEPT ![p] = {}]

\* One failed send undoes the whole batch.
CommitOnlyWhole(p) ==
    /\ Polling(p) /\ rows[p] = {}
    /\ published' = IF putBack[p] = {} THEN published \cup done[p] ELSE published
    /\ waiting' = waiting \cup putBack[p]
    /\ End(p)
    /\ UNCHANGED <<stored, running, copies, datesAreParsed>>

Commit(p) ==
    /\ Polling(p) /\ rows[p] = {}
    /\ published' = published \cup done[p]
    /\ waiting' = waiting \cup putBack[p]
    /\ End(p)
    /\ UNCHANGED <<stored, running, copies, datesAreParsed>>

(***************************************************************************)
(* An SQL error, in the update or in the catch, a refused commit, or a     *)
(* crash after which the process starts again: no update takes effect.     *)
(***************************************************************************)
Rollback(p) ==
    /\ Polling(p)
    /\ End(p)
    /\ UNCHANGED <<database, running, copies, datesAreParsed>>

\* next_attempt_at has come.
BackoffEnds(e) ==
    /\ e \in waiting
    /\ waiting' = waiting \ {e}
    /\ UNCHANGED <<stored, published, batch, running, copies, datesAreParsed>>

\* beforeApplicationShutdown: no more polls, the poll under way ends.
Shutdown(p) ==
    /\ running[p]
    /\ running' = [running EXCEPT ![p] = FALSE]
    /\ UNCHANGED <<database, batch, copies, datesAreParsed>>

Restart(p) ==
    /\ ~running[p] /\ ~Polling(p)
    /\ running' = [running EXCEPT ![p] = TRUE]
    /\ UNCHANGED <<database, batch, copies, datesAreParsed>>

Next ==
    \/ \E c \in Commits : Store(c)
    \/ \E p \in Publishers : Select(p) \/ Commit(p) \/ Rollback(p)
    \/ \E p \in Publishers, e \in Events :
          Publish(p, e) \/ SendFails(p, e)
    \/ \E e \in Events : BackoffEnds(e)
    \/ \E p \in Stopping : Shutdown(p) \/ Restart(p)

(***************************************************************************)
(* Backoffs end, stopped publishers start again.  Sends, updates and       *)
(* commits may fail again and again, but not every time for one event; of  *)
(* the sends this says nothing when the dates are strings.                 *)
(***************************************************************************)
Fairness ==
    /\ SF_batch(\E p \in Publishers : Select(p))
    /\ \A p \in Publishers : WF_batch(Commit(p))
    /\ \A p \in Stopping : WF_running(Restart(p))
    /\ \A e \in Events :
          /\ WF_waiting(BackoffEnds(e))
          /\ SF_batch(\E p \in Publishers : Publish(p, e))
          /\ SF_batch(\E p \in Publishers : e \in done[p] /\ Commit(p))

SafeSpec == Init /\ [][Next]_vars
Spec == SafeSpec /\ Fairness

-----------------------------------------------------------------------------
(***************************************************************************)
(* Type invariant, with the locks: what is published, waiting or selected  *)
(* was stored, no row is in two open transactions or in two places of one, *)
(* and a row that others can see as PUBLISHED is in none.                  *)
(***************************************************************************)
TypeOK ==
    /\ stored \subseteq Events
    /\ published \subseteq stored /\ waiting \subseteq stored
    /\ rows \in [Publishers -> SUBSET stored]
    /\ done \in [Publishers -> SUBSET stored]
    /\ putBack \in [Publishers -> SUBSET stored]
    /\ running \in [Publishers -> BOOLEAN]
    /\ copies \in [Events -> Nat]
    /\ datesAreParsed \in BOOLEAN
    /\ \A p \in Publishers :
          /\ LockedBy(p) \cap (published \cup waiting) = {}
          /\ rows[p] \cap (done[p] \cup putBack[p]) = {}
          /\ done[p] \cap putBack[p] = {}
    /\ \A p, q \in Publishers : LockedBy(p) \cap LockedBy(q) # {} => p = q

(***************************************************************************)
(* The publishers implement the relay: an event is PUBLISHED only after    *)
(* the queue took it, none is sent again once it is PUBLISHED, and none is *)
(* dropped, although a batch is sent event by event and committed at once. *)
(***************************************************************************)
R == INSTANCE EventRelay WITH stored <- stored, copies <- copies,
                              settled <- published
ImplementsRelay == R!SafeRelay

(***************************************************************************)
(* If the driver returns dates, every event that was stored is published   *)
(* in the end, whatever sends fail and whichever publishers die with a     *)
(* batch in their hands.  If it returns strings, none ever is: each poll   *)
(* throws before its first send (the limitation of README.md:126).         *)
(***************************************************************************)
EveryEventIsPublished == datesAreParsed => R!EveryEventSettles
=============================================================================
