----------------------- MODULE PendingReferenceWorker -----------------------
(***************************************************************************)
(* The worker that reprocesses the reversals whose reference is missing,   *)
(* several instances of it on one database.  A poll claims a batch of due  *)
(* rows in a database transaction of its own, which counts the attempt and *)
(* sets the backoff; then the batch is reprocessed row by row, and by then *)
(* the claim is no longer locked: the row may come due again, be claimed   *)
(* by another instance and be decided meanwhile.  An exception ends the    *)
(* batch, a crash loses it.                                                *)
(*                                                                         *)
(* The rows, and what one reprocessing does, are WageringTransactions; a   *)
(* reprocessing under way (reading[k]) holds the lock of row k.  Time is   *)
(* left out: a backoff may end at any moment after it was set.             *)
(***************************************************************************)
EXTENDS WageringTransactions, SequencesExt

CONSTANTS
    Instances,    \* the processes that run the worker
    Stopping,     \* the instances that are shut down and started again
    MaxAttempts,  \* MAX_PENDING_REFERENCE_ATTEMPTS
    BatchLimit    \* how many rows a poll claims

ASSUME InstancesAssumption ==
    IsFiniteSet(Instances) /\ Workers = Cardinality(Instances)
ASSUME StoppingAssumption == Stopping \subseteq Instances
ASSUME LimitsAssumption == MaxAttempts \in Nat \ {0} /\ BatchLimit \in Nat \ {0}

VARIABLES
    attempts,  \* attempts[k]: reference_attempts, counted up to MaxAttempts
    due,       \* the keys whose next_reference_attempt_at has come, in order
    batch,     \* batch[i]: what i has claimed and not yet done with
    busy,      \* busy[i]: i is reprocessing the first row of its batch
    running    \* running[i]: the loop of i polls again

workerVars == <<attempts, due, batch, busy, running>>
allVars == <<vars, workerVars>>

IsPending(k) == Exists(k) /\ txs[k].status = "PENDING_REFERENCE"
IsLocked(k) == reading[k] # None

ClaimType == [key : Keys, last : BOOLEAN]

\* The last attempt taken one too early.
IsLastAttemptEarly(n) == n + 1 >= MaxAttempts
IsLastAttempt(n) == n >= MaxAttempts

AttemptsAfterClaim(k) == IF attempts[k] < MaxAttempts THEN attempts[k] + 1 ELSE MaxAttempts

\* A claim that takes a row with all its attempts used for a decided one.
ClaimableWithAttemptsLeft ==
    {k \in Range(due) : IsPending(k) /\ ~IsLocked(k) /\ attempts[k] < MaxAttempts}

\* The rows `for update skip locked' finds.
Claimable == {k \in Range(due) : IsPending(k) /\ ~IsLocked(k)}

\* The order of next_reference_attempt_at.
DueBefore(k, l) == \E m, n \in DOMAIN due : m < n /\ due[m] = k /\ due[n] = l
FirstClaimable ==
    {k \in Claimable :
        Cardinality({l \in Claimable : DueBefore(l, k)}) < BatchLimit}

-----------------------------------------------------------------------------
WorkerInit ==
    /\ Init
    /\ attempts = [k \in Keys |-> 0]
    /\ due = <<>>
    /\ batch = [i \in Instances |-> <<>>]
    /\ busy = [i \in Instances |-> FALSE]
    /\ running = [i \in Instances |-> TRUE]

\* A wallet is created, or a wager decided or failed, by another component.
OtherUseCases ==
    /\ \/ \E w \in Wallets, p \in Players, c \in Currencies, b \in InitialBalances :
             CreateWallet(w, p, c, b)
       \/ \E r \in Failing : FailTransaction(r)
    /\ UNCHANGED workerVars

(***************************************************************************)
(* A submission; a row it leaves pending is due at once.  Its time was     *)
(* taken before the commit, so it may come before rows that were due.      *)
(***************************************************************************)
SubmitWager(r) ==
    /\ Submit(r)
    /\ IF txs'[r.key].status = "PENDING_REFERENCE"
       THEN \E n \in 1..(Len(due) + 1) : due' = InsertAt(due, n, r.key)
       ELSE UNCHANGED due
    /\ UNCHANGED <<attempts, batch, busy, running>>

(***************************************************************************)
(* The claim of processDueOnce: the first rows that are due get one more   *)
(* attempt and a backoff.  RETURNING gives them in any order.              *)
(***************************************************************************)
Claim(i) ==
    /\ running[i] /\ batch[i] = <<>> /\ Claimable # {}
    /\ attempts' = [k \in Keys |-> IF k \in FirstClaimable THEN AttemptsAfterClaim(k)
                                                           ELSE attempts[k]]
    /\ due' \in SetToSeqs(Range(due) \ FirstClaimable)
    /\ \A m, n \in DOMAIN due' : m < n => DueBefore(due'[m], due'[n])
    /\ \E order \in SetToSeqs(FirstClaimable) :
          batch' = [batch EXCEPT ![i] =
              [j \in DOMAIN order |->
                  [key |-> order[j], last |-> IsLastAttempt(attempts'[order[j]])]]]
    /\ UNCHANGED <<vars, busy, running>>

\* The reprocessing of the next row of the batch, once its row is locked.
Begin(i, k) ==
    /\ batch[i] # <<>> /\ ~busy[i] /\ Head(batch[i]).key = k
    /\ BeginReprocess(k, Head(batch[i]).last)
    /\ busy' = [busy EXCEPT ![i] = TRUE]
    /\ UNCHANGED <<attempts, due, batch, running>>

\* The row was decided since it was claimed: it is left alone.
LeaveDecided(i) ==
    /\ batch[i] # <<>> /\ ~busy[i]
    /\ ~IsPending(Head(batch[i]).key)
    /\ batch' = [batch EXCEPT ![i] = Tail(@)]
    /\ UNCHANGED <<vars, attempts, due, busy, running>>

Finish(i, k) ==
    /\ busy[i] /\ Head(batch[i]).key = k
    /\ FinishWithoutReference(k) \/ FinishWithReference(k)
    /\ batch' = [batch EXCEPT ![i] = Tail(@)]
    /\ busy' = [busy EXCEPT ![i] = FALSE]
    /\ UNCHANGED <<attempts, due, running>>

\* The instance takes itself for busy after the exception.
InterruptStaysBusy(i) ==
    /\ batch[i] # <<>>
    /\ IF busy[i] THEN AbortReprocess(Head(batch[i]).key) ELSE UNCHANGED vars
    /\ batch' = [batch EXCEPT ![i] = <<>>]
    /\ UNCHANGED <<attempts, due, busy, running>>

\* The exception leaves the database transaction, and its lock, open.
InterruptWithoutRollback(i) ==
    /\ batch[i] # <<>>
    /\ batch' = [batch EXCEPT ![i] = <<>>]
    /\ busy' = [busy EXCEPT ![i] = FALSE]
    /\ UNCHANGED <<vars, attempts, due, running>>

(***************************************************************************)
(* An exception in a reprocessing (the decision aborts, the connection or  *)
(* the database fails), or a crash after which the instance starts again.  *)
(* The reprocessing is rolled back, the rest of the batch is forgotten.    *)
(***************************************************************************)
Interrupt(i) ==
    /\ batch[i] # <<>>
    /\ IF busy[i] THEN AbortReprocess(Head(batch[i]).key) ELSE UNCHANGED vars
    /\ batch' = [batch EXCEPT ![i] = <<>>]
    /\ busy' = [busy EXCEPT ![i] = FALSE]
    /\ UNCHANGED <<attempts, due, running>>

\* next_reference_attempt_at has come.
BackoffEnds(k) ==
    /\ IsPending(k)
    /\ \A j \in DOMAIN due : due[j] # k
    /\ due' = Append(due, k)
    /\ UNCHANGED <<vars, attempts, batch, busy, running>>

\* beforeApplicationShutdown: no more polls, the batch in hand is completed.
Shutdown(i) ==
    /\ running[i]
    /\ running' = [running EXCEPT ![i] = FALSE]
    /\ UNCHANGED <<vars, attempts, due, batch, busy>>

Restart(i) ==
    /\ ~running[i] /\ batch[i] = <<>>
    /\ running' = [running EXCEPT ![i] = TRUE]
    /\ UNCHANGED <<vars, attempts, due, batch, busy>>

WorkerNext ==
    \/ OtherUseCases
    \/ \E r \in Requests : SubmitWager(r)
    \/ \E i \in Instances : Claim(i)
    \/ \E i \in Instances, k \in Keys : Begin(i, k)
    \/ \E i \in Instances : LeaveDecided(i)
    \/ \E i \in Instances, k \in Keys : Finish(i, k)
    \/ \E i \in Instances : Interrupt(i)
    \/ \E k \in Keys : BackoffEnds(k)
    \/ \E i \in Stopping : Shutdown(i)
    \/ \E i \in Stopping : Restart(i)

(***************************************************************************)
(* Backoffs end, stopped instances are started again and go on with what   *)
(* they hold.  Instances may fail or crash again and again, but not at     *)
(* every poll, nor at every reprocessing of one and the same row.          *)
(***************************************************************************)
Reversals == {r.key : r \in {q \in Requests : IsReversal(q)}}
WorkerFairness ==
    /\ \A k \in Reversals :
          /\ WF_workerVars(BackoffEnds(k))
          /\ SF_workerVars(\E i \in Instances : Begin(i, k))
          /\ SF_workerVars(\E i \in Instances : Finish(i, k))
    /\ \A i \in Instances : WF_workerVars(LeaveDecided(i))
    /\ \A i \in Stopping : WF_workerVars(Restart(i))
    /\ SF_workerVars(\E i \in Instances : Claim(i))

WorkerSafeSpec == WorkerInit /\ [][WorkerNext]_allVars
WorkerSpec == WorkerSafeSpec /\ WorkerFairness

-----------------------------------------------------------------------------
(***************************************************************************)
(* Type invariant: an instance reprocesses only what it has claimed, and an*)
(* exception or a crash leaves none in its hands.                          *)
(***************************************************************************)
WorkerTypeOK ==
    /\ TypeOK
    /\ attempts \in [Keys -> 0..MaxAttempts]
    /\ due \in Seq(Keys)
    /\ batch \in [Instances -> Seq(ClaimType)]
    /\ busy \in [Instances -> BOOLEAN]
    /\ running \in [Instances -> BOOLEAN]
    /\ \A i \in Instances : busy[i] => batch[i] # <<>>

(***************************************************************************)
(* A reprocessing under way is that of exactly one instance, for the first *)
(* row of its batch: instances that hold a claim of the same row never     *)
(* decide it together, and an exception or a crash leaves no row locked.   *)
(***************************************************************************)
Reprocessing(i, k) == busy[i] /\ Head(batch[i]).key = k
OneReprocessingPerRow ==
    /\ \A k \in Keys : IsLocked(k) <=> \E i \in Instances : Reprocessing(i, k)
    /\ \A i, j \in Instances : \A k \in Keys :
          Reprocessing(i, k) /\ Reprocessing(j, k) => i = j

(***************************************************************************)
(* Nothing rejects a reversal for a reference that was not found before    *)
(* all its attempts are counted: no row says so, and no claim or reading   *)
(* in the hands of any instance can still lead to it, however many of them *)
(* hold a claim of the row.                                                *)
(***************************************************************************)
NotFound(k) == Exists(k) /\ txs[k].failure = "REFERENCE_NOT_FOUND"
NoEarlyRejection ==
    \A k \in Keys : attempts[k] < MaxAttempts =>
        /\ ~NotFound(k)
        /\ IsLocked(k) => ~reading[k].rejectIfMissing
        /\ \A i \in Instances : \A c \in Range(batch[i]) : c.key = k => ~c.last

(***************************************************************************)
(* A reference that is there before the last attempt is claimed is never   *)
(* missed: the reversal is not rejected later as not found.                *)
(***************************************************************************)
ReferenceInTime(k) ==
    /\ IsPending(k) /\ attempts[k] < MaxAttempts
    /\ WithExternal(txs[k].req.reference) # {}
FoundIsNotMissed ==
    \A k \in Keys : [](ReferenceInTime(k) => []~NotFound(k))

(***************************************************************************)
(* Every reversal that waits for its reference is decided in the end,      *)
(* although instances crash with claims in their hands, attempts are used  *)
(* up without a look at the reference, and the reference may never come.   *)
(***************************************************************************)
PendingIsDecided ==
    \A k \in Reversals :
        IsPending(k) ~> Exists(k) /\ txs[k].status \in TerminalStatuses
=============================================================================
