-------------------- MODULE PendingReferenceWorkerProofs --------------------
(***************************************************************************)
(* Proofs about PendingReferenceWorker, for any number of instances,       *)
(* wagers and attempts and any size of a batch: a row is reprocessed by    *)
(* one instance at a time, a reversal is rejected for a missing reference  *)
(* only after its last attempt was claimed, and a reference that is there  *)
(* by then is not missed.  The rows themselves are those of                *)
(* WageringTransactions, whose invariants carry over.                      *)
(***************************************************************************)
EXTENDS PendingReferenceWorker, WageringTransactionsProofs, FiniteSetTheorems

(***************************************************************************)
(* What is inductive about the batches: all of the type invariant but the  *)
(* types of the tables, which LedgerInv has.                               *)
(***************************************************************************)
BatchesTyped ==
    /\ attempts \in [Keys -> 0..MaxAttempts]
    /\ due \in Seq(Keys)
    /\ running \in [Instances -> BOOLEAN]
    /\ batch \in [Instances -> Seq(ClaimType)]
    /\ busy \in [Instances -> BOOLEAN]
    /\ \A i \in Instances : busy[i] => batch[i] # <<>>

WorkerInv ==
    /\ LedgerInv
    /\ BatchesTyped
    /\ OneReprocessingPerRow
    /\ NoEarlyRejection

-----------------------------------------------------------------------------
\* The first claim of a batch, and the rest of it.
LEMMA HeadAndRest ==
    ASSUME NEW S, NEW s \in Seq(S), s # <<>>
    PROVE  /\ Head(s) \in Range(s) /\ Head(s) \in S
           /\ Tail(s) \in Seq(S)
           /\ Range(Tail(s)) \subseteq Range(s)
<1> DEFINE rest == Tail(s)
<1>1. /\ Head(s) = s[1] /\ Len(s) \in Nat \ {0}
      /\ Head(s) \in S
      /\ rest \in Seq(S)
      /\ Len(rest) = Len(s) - 1
      /\ \A i \in 1..Len(rest) : rest[i] = s[i + 1]
  BY HeadTailProperties, EmptySeq
<1> HIDE DEF rest
<1>2. Head(s) \in Range(s)
  <2>1. 1 \in 1..Len(s)
    BY <1>1
  <2> QED BY <1>1, <2>1, RangeEquality
<1>3. Range(rest) \subseteq Range(s)
  <2> SUFFICES ASSUME NEW c \in Range(rest) PROVE c \in Range(s)
    OBVIOUS
  <2>1. \E n \in 1..Len(rest) : rest[n] = c
    BY <1>1, RangeEquality
  <2>2. PICK n \in 1..Len(rest) : rest[n] = c
    BY <2>1
  <2>3. n + 1 \in 1..Len(s) /\ s[n + 1] = c
    BY <1>1, <2>2
  <2> QED BY <2>3, RangeEquality
<1> QED BY <1>1, <1>2, <1>3 DEF rest

\* Some of the keys that are due, in any order, make a sequence.
LEMMA OrderIsSeq ==
    ASSUME due \in Seq(Keys), NEW some \in SUBSET Range(due),
           NEW order \in SetToSeqs(some)
    PROVE  order \in Seq(Keys)
<1>1. Range(due) \in SUBSET Keys /\ IsFiniteSet(Range(due))
  <2>1. due \in [1..Len(due) -> Keys] /\ Len(due) \in Nat
    BY LenProperties, ElementOfSeq
  <2>2. due \in Surjection(1..Len(due), Range(due))
    BY <2>1 DEF Surjection, Range
  <2>3. IsFiniteSet(1..Len(due))
    BY <2>1, FS_Interval
  <2>4. IsFiniteSet(Range(due))
    BY <2>2, <2>3, FS_Surjection DEF ExistsSurjection
  <2> QED BY <2>1, <2>4 DEF Range
<1>2. IsFiniteSet(some)
  BY <1>1, FS_Subset
<1>3. Cardinality(some) \in Nat
  BY <1>2, FS_CardinalityType
<1>4. order \in [1..Cardinality(some) -> Keys]
  BY <1>1 DEF SetToSeqs
<1> QED BY <1>3, <1>4, SeqDef

-----------------------------------------------------------------------------
(***************************************************************************)
(* Who says REFERENCE_NOT_FOUND: no decision does, only the end of a       *)
(* reprocessing that read no reference and was the last attempt.           *)
(***************************************************************************)
LEMMA MoveMoneyFinds ==
    ASSUME NEW wallet, NEW req, NEW type, NEW code, code # "REFERENCE_NOT_FOUND"
    PROVE  MoveMoney(wallet, req, type, code).failure # "REFERENCE_NOT_FOUND"
BY NoneAssumption DEF MoveMoney, Aborted, Rejected, Processed, FailureCodes

LEMMA DecideReversalFinds ==
    ASSUME NEW wallet, NEW req, NEW reference, NEW reversed
    PROVE  DecideReversal(wallet, req, reference, reversed).failure
             # "REFERENCE_NOT_FOUND"
<1> DEFINE failure == ReversalFailure(req, reference, reversed)
<1>1. failure # "REFERENCE_NOT_FOUND"
  BY NoneAssumption DEF ReversalFailure, FailureCodes
<1>2. CASE failure # None
  BY <1>1, <1>2 DEF DecideReversal, Rejected
<1>3. CASE failure = None
  BY <1>3, MoveMoneyFinds DEF DecideReversal
<1> QED BY <1>2, <1>3

LEMMA DecideFinds ==
    ASSUME NEW wallet, NEW req, NEW reference, NEW reversed
    PROVE  Decide(wallet, req, reference, reversed).failure
             # "REFERENCE_NOT_FOUND"
<1>1. CASE req.kind \in {"BET", "WIN"}
  BY <1>1, MoveMoneyFinds DEF Decide
<1>2. CASE req.kind \notin {"BET", "WIN"}
  BY <1>2, DecideReversalFinds, NoneAssumption
  DEF Decide, Processed, Pending, FailureCodes
<1> QED BY <1>1, <1>2

LEMMA SaveFinds ==
    ASSUME TypeOK, NEW t \in TxIds, NEW req, NEW w, NEW d, NEW reference,
           Save(t, req, w, d, reference),
           d.failure # "REFERENCE_NOT_FOUND",
           NEW k \in Keys, ~NotFound(k)
    PROVE  ~NotFound(k)'
<1>1. /\ txs'[t].failure = d.failure
      /\ \A s \in TxIds \ {t} : txs'[s] = txs[s]
  BY DEF Save, TypeOK
<1> QED BY <1>1 DEF NotFound, Exists, TxIds

LEMMA NotFoundStep ==
    ASSUME LedgerInv, [Next]_vars, NEW k \in Keys, ~NotFound(k), NotFound(k)'
    PROVE  /\ FinishWithoutReference(k)
           /\ reading[k].rejectIfMissing
<1>1. k \in TxIds /\ k \notin Wallets
  BY DisjointAssumption DEF TxIds
<1>2. ASSUME NEW w \in Wallets, NEW p \in Players, NEW c \in Currencies,
             NEW b \in InitialBalances, CreateWallet(w, p, c, b)
      PROVE  txs'[k] = txs[k]
  BY <1>1, <1>2 DEF CreateWallet, LedgerInv, TypeOK
<1>3. ASSUME NEW r \in Requests, Submit(r) PROVE FALSE
  <2>1. PICK read \in ReferenceReadings(r) :
           Save(r.key, r, r.wallet,
                Decide(wallets[r.wallet], r, RowRead(read),
                       AlreadyReversed(read.reference, r.kind)),
                read.reference)
    BY <1>3 DEF Submit
  <2> DEFINE d == Decide(wallets[r.wallet], r, RowRead(read),
                         AlreadyReversed(read.reference, r.kind))
  <2>2. d.failure # "REFERENCE_NOT_FOUND"
    BY DecideFinds
  <2>3. Save(r.key, r, r.wallet, d, read.reference)
    BY <2>1
  <2> HIDE DEF d
  <2> QED BY <2>2, <2>3, RequestsTyped, SaveFinds DEF LedgerInv
<1>4. ASSUME NEW r \in Failing, FailTransaction(r) PROVE FALSE
  <2>1. r.key \in TxIds
    BY FailingAssumption, RequestsTyped
  <2>2. /\ txs'[r.key].failure = "PERMANENT_INFRASTRUCTURE_ERROR"
        /\ \A s \in TxIds \ {r.key} : txs'[s] = txs[s]
    BY <1>4, <2>1 DEF FailTransaction, LedgerInv, TypeOK
  <2> QED BY <1>1, <2>2 DEF NotFound, Exists
<1>5. ASSUME NEW t \in Keys, FinishWithReference(t) PROVE FALSE
  <2> DEFINE req == txs[t].req
             d == DecideReversal(wallets[req.wallet], req, RowRead(reading[t]),
                                 AlreadyReversed(reading[t].reference, req.kind))
  <2>1. d.failure # "REFERENCE_NOT_FOUND"
    BY DecideReversalFinds
  <2>2. Save(t, req, req.wallet, d, reading[t].reference)
    BY <1>5 DEF FinishWithReference
  <2> HIDE DEF d
  <2>3. t \in TxIds
    BY DEF TxIds
  <2> QED BY <2>1, <2>2, <2>3, SaveFinds DEF LedgerInv
<1>6. ASSUME NEW t \in Keys, FinishWithoutReference(t)
      PROVE  txs'[k] = txs[k] \/ (t = k /\ reading[k].rejectIfMissing)
  BY <1>1, <1>6 DEF FinishWithoutReference, LedgerInv, TypeOK
<1>7. ASSUME UNCHANGED txs PROVE FALSE
  BY <1>7 DEF NotFound, Exists
<1> QED
  BY <1>2, <1>3, <1>4, <1>5, <1>6, <1>7
  DEF Next, vars, NotFound, Exists, BeginReprocess, AbortReprocess

-----------------------------------------------------------------------------
\* What an instance does to the tables, a use case does.
LEMMA WorkerStepIsStep ==
    ASSUME BatchesTyped, [WorkerNext]_allVars
    PROVE  [Next]_vars
<1>1. CASE OtherUseCases
  BY <1>1 DEF OtherUseCases, Next
<1>2. CASE \E r \in Requests : SubmitWager(r)
  BY <1>2 DEF SubmitWager, Next
<1>3. ASSUME NEW i \in Instances, NEW k \in Keys, Begin(i, k) PROVE Next
  <2>1. Head(batch[i]) \in ClaimType
    BY <1>3, HeadAndRest DEF Begin, BatchesTyped
  <2>2. Head(batch[i]).last \in BOOLEAN
    BY <2>1 DEF ClaimType
  <2> QED BY <1>3, <2>2 DEF Begin, Next
<1>4. ASSUME NEW i \in Instances, NEW k \in Keys, Finish(i, k) PROVE Next
  BY <1>4 DEF Finish, Next
<1>5. ASSUME NEW i \in Instances, Interrupt(i) PROVE [Next]_vars
  <2>1. CASE busy[i]
    <3>1. Head(batch[i]) \in ClaimType
      BY <1>5, HeadAndRest DEF Interrupt, BatchesTyped
    <3>2. Head(batch[i]).key \in Keys
      BY <3>1 DEF ClaimType
    <3> QED BY <1>5, <2>1, <3>2 DEF Interrupt, Next
  <2> QED BY <1>5, <2>1 DEF Interrupt
<1> QED
  BY <1>1, <1>2, <1>3, <1>4, <1>5
  DEF WorkerNext, Claim, LeaveDecided, BackoffEnds, Shutdown, Restart, allVars

\* The steps that leave the batches and the locks of the rows alone.
LEMMA QuietKeepsInv ==
    ASSUME WorkerInv, [Next]_vars, UNCHANGED <<attempts, batch, busy, reading>>,
           due' \in Seq(Keys), running' \in [Instances -> BOOLEAN]
    PROVE  WorkerInv'
<1>1. LedgerInv'
  BY LedgerInvStep DEF WorkerInv
<1>2. BatchesTyped'
  BY DEF WorkerInv, BatchesTyped
<1>3. OneReprocessingPerRow'
  BY DEF WorkerInv, OneReprocessingPerRow, IsLocked, Reprocessing
<1>4. NoEarlyRejection'
  <2>1. \A k \in Keys : NotFound(k)' => NotFound(k)
    <3>1. \A k \in Keys : ~FinishWithoutReference(k)
      BY DEF FinishWithoutReference, WorkerInv, LedgerInv, TypeOK
    <3> QED BY <3>1, NotFoundStep DEF WorkerInv
  <2> QED BY <2>1 DEF WorkerInv, NoEarlyRejection, IsLocked
<1> QED BY <1>1, <1>2, <1>3, <1>4 DEF WorkerInv

(***************************************************************************)
(* A claim counts the attempt before it says whether that was the last.    *)
(***************************************************************************)
LEMMA ClaimKeepsInv ==
    ASSUME WorkerInv, NEW i \in Instances, Claim(i)
    PROVE  WorkerInv'
<1> DEFINE claimed == FirstClaimable
<1>1. /\ claimed \in SUBSET Range(due)
      /\ attempts' = [k \in Keys |-> IF k \in claimed THEN AttemptsAfterClaim(k)
                                                      ELSE attempts[k]]
      /\ due' \in SetToSeqs(Range(due) \ claimed)
  BY DEF Claim, FirstClaimable, Claimable
<1>2. PICK order \in SetToSeqs(claimed) :
         batch' = [batch EXCEPT ![i] =
             [j \in DOMAIN order |->
                 [key |-> order[j],
                  last |-> IsLastAttempt(attempts'[order[j]])]]]
  BY DEF Claim
<1> HIDE DEF claimed
<1> DEFINE claims == [j \in DOMAIN order |->
                         [key |-> order[j],
                          last |-> IsLastAttempt(attempts'[order[j]])]]
<1>3. order \in Seq(Keys) /\ due' \in Seq(Keys)
  <2>1. due \in Seq(Keys)
    BY DEF WorkerInv, BatchesTyped
  <2>2. Range(due) \ claimed \in SUBSET Range(due)
    OBVIOUS
  <2> QED BY <1>1, <2>1, <2>2, OrderIsSeq
<1>4. attempts \in [Keys -> 0..MaxAttempts]
  BY DEF WorkerInv, BatchesTyped
<1>5. /\ attempts' \in [Keys -> 0..MaxAttempts]
      /\ \A k \in Keys : attempts[k] <= attempts'[k]
  BY <1>1, <1>4, LimitsAssumption DEF AttemptsAfterClaim
<1>6. claims \in Seq(ClaimType)
  <2>1. DOMAIN order = 1..Len(order) /\ Len(order) \in Nat
    BY <1>3, LenProperties
  <2>2. \A j \in 1..Len(order) : order[j] \in Keys
    BY <1>3, ElementOfSeq
  <2>3. claims \in [1..Len(order) -> ClaimType]
    BY <2>1, <2>2 DEF ClaimType, IsLastAttempt
  <2> QED BY <2>1, <2>3, SeqDef
<1>7. ASSUME NEW c \in Range(claims), c.last
      PROVE  attempts'[c.key] >= MaxAttempts
  <2>1. PICK j \in DOMAIN claims : c = claims[j]
    BY DEF Range
  <2>2. c = [key |-> order[j], last |-> IsLastAttempt(attempts'[order[j]])]
    BY <2>1
  <2>3. c.key = order[j] /\ c.last = IsLastAttempt(attempts'[order[j]])
    BY <2>2
  <2> QED BY <1>7, <2>3 DEF IsLastAttempt
<1>8. batch' = [batch EXCEPT ![i] = claims]
  BY <1>2
<1> HIDE DEF claims
<1>9. /\ UNCHANGED <<vars, busy, running>>
      /\ ~busy[i]
  BY DEF Claim, WorkerInv, BatchesTyped
<1>10. LedgerInv'
  BY <1>9, LedgerInvStep DEF WorkerInv
<1>11. BatchesTyped'
  BY <1>3, <1>5, <1>6, <1>8, <1>9 DEF WorkerInv, BatchesTyped
<1>12. OneReprocessingPerRow'
  <2>1. \A p \in Instances, k \in Keys : Reprocessing(p, k)' <=> Reprocessing(p, k)
    BY <1>8, <1>9 DEF Reprocessing, WorkerInv, BatchesTyped
  <2> QED BY <1>9, <2>1 DEF WorkerInv, OneReprocessingPerRow, IsLocked, vars
<1>13. NoEarlyRejection'
  <2> SUFFICES ASSUME NEW k \in Keys, attempts'[k] < MaxAttempts
               PROVE  /\ ~NotFound(k)'
                      /\ IsLocked(k)' => ~reading'[k].rejectIfMissing
                      /\ \A p \in Instances : \A c \in Range(batch'[p]) :
                            c.key = k => ~c.last
    BY DEF NoEarlyRejection
  <2>1. attempts[k] < MaxAttempts
    BY <1>4, <1>5, LimitsAssumption
  <2>2. ~NotFound(k) /\ (IsLocked(k) => ~reading[k].rejectIfMissing)
    BY <2>1 DEF WorkerInv, NoEarlyRejection
  <2>3. ~NotFound(k)' /\ (IsLocked(k)' => ~reading'[k].rejectIfMissing)
    BY <1>9, <2>2 DEF vars, NotFound, Exists, IsLocked
  <2>4. ASSUME NEW p \in Instances, NEW c \in Range(batch'[p]), c.key = k
        PROVE  ~c.last
    <3>1. CASE p = i
      <4>1. c \in Range(claims)
        BY <1>8, <3>1, <2>4 DEF WorkerInv, BatchesTyped
      <4>2. ~(attempts'[k] >= MaxAttempts)
        BY <1>5, LimitsAssumption
      <4> QED BY <1>7, <2>4, <4>1, <4>2
    <3>2. CASE p # i
      <4>1. c \in Range(batch[p])
        BY <1>8, <3>2, <2>4 DEF WorkerInv, BatchesTyped
      <4> QED BY <2>1, <2>4, <4>1 DEF WorkerInv, NoEarlyRejection
    <3> QED BY <3>1, <3>2
  <2> QED BY <2>3, <2>4
<1> QED BY <1>10, <1>11, <1>12, <1>13 DEF WorkerInv

(***************************************************************************)
(* The row lock: it is free, so no instance is reprocessing the row.       *)
(***************************************************************************)
LEMMA BeginKeepsInv ==
    ASSUME WorkerInv, NEW i \in Instances, NEW k \in Keys, Begin(i, k)
    PROVE  WorkerInv'
<1>1. /\ batch[i] # <<>> /\ ~busy[i] /\ Head(batch[i]).key = k
      /\ reading[k] = None
      /\ busy' = [busy EXCEPT ![i] = TRUE]
      /\ UNCHANGED <<attempts, due, batch, running, txs>>
  BY DEF Begin, BeginReprocess
<1>2. PICK read \in CurrentReadings(txs[k].req.reference) :
         reading' = [reading EXCEPT ![k] =
             [reference |-> read.reference, status |-> read.status,
              rejectIfMissing |-> Head(batch[i]).last]]
  BY DEF Begin, BeginReprocess
<1>3. [Next]_vars
  BY WorkerStepIsStep DEF WorkerNext, WorkerInv
<1>4. LedgerInv'
  BY <1>3, LedgerInvStep DEF WorkerInv
<1>5. BatchesTyped'
  BY <1>1 DEF WorkerInv, BatchesTyped
<1>6. reading \in [Keys -> ReadingType \cup {None}]
  BY DEF WorkerInv, LedgerInv, TypeOK
<1>7. /\ reading'[k] # None
      /\ reading'[k].rejectIfMissing = Head(batch[i]).last
      /\ \A t \in Keys \ {k} : reading'[t] = reading[t]
  <2>1. reading' \in [Keys -> ReadingType \cup {None}]
    BY <1>4 DEF LedgerInv, TypeOK
  <2>2. Exists(k) /\ txs[k].status = "PENDING_REFERENCE"
    BY DEF Begin, BeginReprocess
  <2>3. read.reference \in TxIds \cup {None} /\ read.status \in Statuses \cup {None}
    BY <1>2
    DEF CurrentReadings, Reading, MissingReading, WithExternal, Exists,
        WorkerInv, LedgerInv, TypeOK, TransactionType
  <2>4. Head(batch[i]).last \in BOOLEAN
    <3>1. Head(batch[i]) \in ClaimType
      BY <1>1, HeadAndRest DEF WorkerInv, BatchesTyped
    <3> QED BY <3>1 DEF ClaimType
  <2>5. [reference |-> read.reference, status |-> read.status,
         rejectIfMissing |-> Head(batch[i]).last] \in ReadingType
    BY <2>3, <2>4 DEF ReadingType
  <2> QED BY <1>2, <1>6, <2>5, NoneAssumption
<1>8. \A p \in Instances : ~Reprocessing(p, k)
  BY <1>1 DEF WorkerInv, OneReprocessingPerRow, IsLocked
<1>9. \A p \in Instances, t \in Keys :
         Reprocessing(p, t)' <=> (Reprocessing(p, t) \/ (p = i /\ t = k))
  BY <1>1 DEF Reprocessing, WorkerInv, BatchesTyped
<1>10. OneReprocessingPerRow'
  <2>1. \A t \in Keys : IsLocked(t)' <=> (IsLocked(t) \/ t = k)
    BY <1>7 DEF IsLocked
  <2> QED BY <1>8, <1>9, <2>1 DEF WorkerInv, OneReprocessingPerRow
<1>11. NoEarlyRejection'
  <2>1. \A t \in Keys : NotFound(t)' <=> NotFound(t)
    BY <1>1 DEF NotFound, Exists
  <2>2. Head(batch[i]) \in Range(batch[i])
    BY <1>1, HeadAndRest DEF WorkerInv, BatchesTyped
  <2>3. attempts[k] < MaxAttempts => ~Head(batch[i]).last
    BY <1>1, <2>2 DEF WorkerInv, NoEarlyRejection
  <2> QED BY <1>1, <1>7, <2>1, <2>3 DEF WorkerInv, NoEarlyRejection, IsLocked
<1> QED BY <1>4, <1>5, <1>10, <1>11 DEF WorkerInv

\* A batch that loses its first claim, or all of them, while its instance is
\* or becomes idle: the tables may change, but no row is locked by it.
LEMMA ShrinkKeepsInv ==
    ASSUME WorkerInv, [Next]_vars, NEW i \in Instances, batch[i] # <<>>,
           NEW rest \in {<<>>, Tail(batch[i])},
           batch' = [batch EXCEPT ![i] = rest],
           busy' = [busy EXCEPT ![i] = FALSE],
           UNCHANGED <<attempts, due, running>>,
           \A k \in Keys : IF Reprocessing(i, k) THEN reading'[k] = None
                                                 ELSE reading'[k] = reading[k],
           \A k \in Keys : attempts[k] < MaxAttempts => ~NotFound(k)'
    PROVE  WorkerInv'
<1>1. LedgerInv'
  BY LedgerInvStep DEF WorkerInv
<1>2. rest \in Seq(ClaimType) /\ Range(rest) \subseteq Range(batch[i])
  <2>1. CASE rest = <<>>
    <3>1. <<>> \in Seq(ClaimType) /\ Len(<<>>) = 0
      BY EmptySeq
    <3>2. Range(<<>>) = {}
      BY DEF Range
    <3> QED BY <2>1, <3>1, <3>2
  <2>2. CASE rest = Tail(batch[i])
    BY <2>2, HeadAndRest DEF WorkerInv, BatchesTyped
  <2> QED BY <2>1, <2>2
<1>3. BatchesTyped'
  BY <1>2 DEF WorkerInv, BatchesTyped
<1>4. OneReprocessingPerRow'
  <2>1. \A p \in Instances, k \in Keys :
           Reprocessing(p, k)' <=> (p # i /\ Reprocessing(p, k))
    BY DEF Reprocessing, WorkerInv, BatchesTyped
  <2>2. \A k \in Keys : IsLocked(k)' <=> (IsLocked(k) /\ ~Reprocessing(i, k))
    BY DEF IsLocked
  <2> QED BY <2>1, <2>2 DEF WorkerInv, OneReprocessingPerRow
<1>5. NoEarlyRejection'
  <2>1. \A p \in Instances : Range(batch'[p]) \subseteq Range(batch[p])
    BY <1>2 DEF WorkerInv, BatchesTyped
  <2> QED BY <2>1 DEF WorkerInv, NoEarlyRejection, IsLocked
<1> QED BY <1>1, <1>3, <1>4, <1>5 DEF WorkerInv

LEMMA LeaveDecidedKeepsInv ==
    ASSUME WorkerInv, NEW i \in Instances, LeaveDecided(i)
    PROVE  WorkerInv'
<1>1. /\ UNCHANGED <<vars, attempts, due, running>>
      /\ ~busy[i] /\ batch[i] # <<>>
      /\ batch' = [batch EXCEPT ![i] = Tail(batch[i])]
      /\ busy' = [busy EXCEPT ![i] = FALSE]
  BY DEF LeaveDecided, WorkerInv, BatchesTyped
<1>2. \A k \in Keys : attempts[k] < MaxAttempts => ~NotFound(k)'
  BY <1>1 DEF vars, NotFound, Exists, WorkerInv, NoEarlyRejection
<1>3. \A k \in Keys : ~Reprocessing(i, k) /\ reading'[k] = reading[k]
  BY <1>1 DEF vars, Reprocessing
<1> QED BY <1>1, <1>2, <1>3, ShrinkKeepsInv

\* Only a last attempt rejects for a missing reference.
LEMMA FinishKeepsInv ==
    ASSUME WorkerInv, NEW i \in Instances, NEW k \in Keys, Finish(i, k)
    PROVE  WorkerInv'
<1>1. /\ busy[i] /\ Head(batch[i]).key = k
      /\ FinishWithoutReference(k) \/ FinishWithReference(k)
      /\ batch' = [batch EXCEPT ![i] = Tail(batch[i])]
      /\ busy' = [busy EXCEPT ![i] = FALSE]
      /\ UNCHANGED <<attempts, due, running>>
  BY DEF Finish, WorkerInv, BatchesTyped
<1>2. batch[i] # <<>>
  BY <1>1 DEF WorkerInv, BatchesTyped
<1>3. [Next]_vars
  BY <1>1 DEF Next
<1>4. \A t \in Keys : attempts[t] < MaxAttempts => ~NotFound(t)'
  <2> SUFFICES ASSUME NEW t \in Keys, attempts[t] < MaxAttempts, NotFound(t)'
               PROVE  FALSE
    OBVIOUS
  <2>1. ~NotFound(t) /\ (IsLocked(t) => ~reading[t].rejectIfMissing)
    BY DEF WorkerInv, NoEarlyRejection
  <2>2. FinishWithoutReference(t) /\ reading[t].rejectIfMissing
    BY <1>3, <2>1, NotFoundStep DEF WorkerInv
  <2> QED BY <2>1, <2>2 DEF FinishWithoutReference, IsLocked
<1>5. \A t \in Keys : IF Reprocessing(i, t) THEN reading'[t] = None
                                            ELSE reading'[t] = reading[t]
  <2>1. reading' = [reading EXCEPT ![k] = None]
    BY <1>1 DEF FinishWithoutReference, FinishWithReference
  <2>2. reading \in [Keys -> ReadingType \cup {None}]
    BY DEF WorkerInv, LedgerInv, TypeOK
  <2>3. \A t \in Keys : Reprocessing(i, t) <=> t = k
    BY <1>1 DEF Reprocessing
  <2> QED BY <2>1, <2>2, <2>3
<1> QED BY <1>1, <1>2, <1>3, <1>4, <1>5, ShrinkKeepsInv

\* The rollback of an exception or a crash.
LEMMA InterruptKeepsInv ==
    ASSUME WorkerInv, NEW i \in Instances, Interrupt(i)
    PROVE  WorkerInv'
<1>1. /\ batch[i] # <<>>
      /\ batch' = [batch EXCEPT ![i] = <<>>]
      /\ busy' = [busy EXCEPT ![i] = FALSE]
      /\ UNCHANGED <<attempts, due, running, txs>>
  BY DEF Interrupt, AbortReprocess, vars
<1>2. [Next]_vars
  BY WorkerStepIsStep DEF WorkerNext, WorkerInv
<1>3. \A t \in Keys : attempts[t] < MaxAttempts => ~NotFound(t)'
  BY <1>1 DEF NotFound, Exists, WorkerInv, NoEarlyRejection
<1>4. \A t \in Keys : IF Reprocessing(i, t) THEN reading'[t] = None
                                            ELSE reading'[t] = reading[t]
  <2>1. reading \in [Keys -> ReadingType \cup {None}]
    BY DEF WorkerInv, LedgerInv, TypeOK
  <2>2. CASE busy[i]
    <3>1. reading' = [reading EXCEPT ![Head(batch[i]).key] = None]
      BY <2>2 DEF Interrupt, AbortReprocess
    <3> QED BY <2>1, <2>2, <3>1 DEF Reprocessing
  <2>3. CASE ~busy[i]
    BY <2>3 DEF Interrupt, Reprocessing, vars
  <2> QED BY <2>2, <2>3
<1> QED BY <1>1, <1>2, <1>3, <1>4, ShrinkKeepsInv

LEMMA WorkerInvInit == WorkerInit => WorkerInv
<1> SUFFICES ASSUME WorkerInit PROVE WorkerInv
  OBVIOUS
<1>1. LedgerInv
  BY LedgerInvInit DEF WorkerInit
<1>2. BatchesTyped
  <2>1. <<>> \in Seq(ClaimType) /\ <<>> \in Seq(Keys)
    BY EmptySeq
  <2> QED BY <2>1, LimitsAssumption DEF WorkerInit, BatchesTyped
<1>3. OneReprocessingPerRow
  BY DEF WorkerInit, Init, OneReprocessingPerRow, IsLocked, Reprocessing
<1>4. NoEarlyRejection
  <2>1. Range(<<>>) = {}
    BY DEF Range
  <2>2. \A k \in Keys : ~NotFound(k) /\ ~IsLocked(k)
    BY DEF WorkerInit, Init, NotFound, Exists, IsLocked, TxIds
  <2> QED BY <2>1, <2>2 DEF WorkerInit, NoEarlyRejection
<1> QED BY <1>1, <1>2, <1>3, <1>4 DEF WorkerInv

\* A row that becomes due takes its place among the others.
LEMMA DueStays ==
    ASSUME due \in Seq(Keys), NEW r \in Requests, SubmitWager(r)
    PROVE  due' \in Seq(Keys)
<1>1. CASE UNCHANGED due
  BY <1>1
<1>2. CASE \E n \in 1..(Len(due) + 1) : due' = InsertAt(due, n, r.key)
  <2>1. PICK n \in 1..(Len(due) + 1) : due' = InsertAt(due, n, r.key)
    BY <1>2
  <2>2. r.key \in Keys
    BY RequestsTyped
  <2>3. SubSeq(due, 1, n - 1) \in Seq(Keys) /\ SubSeq(due, n, Len(due)) \in Seq(Keys)
    BY SubSeqProperties, LenProperties
  <2>4. <<r.key>> \in Seq(Keys)
    BY <2>2
  <2> QED BY <2>1, <2>3, <2>4, ConcatProperties DEF InsertAt
<1> QED BY <1>1, <1>2 DEF SubmitWager

LEMMA WorkerInvStep == WorkerInv /\ [WorkerNext]_allVars => WorkerInv'
<1> SUFFICES ASSUME WorkerInv, [WorkerNext]_allVars PROVE WorkerInv'
  OBVIOUS
<1>1. [Next]_vars
  BY WorkerStepIsStep DEF WorkerInv
<1>2. CASE OtherUseCases \/ \E r \in Requests : SubmitWager(r)
  <2>1. UNCHANGED <<attempts, batch, busy, reading>>
    BY <1>2
    DEF OtherUseCases, workerVars, SubmitWager, CreateWallet, Submit,
        FailTransaction
  <2>2. due' \in Seq(Keys) /\ running' \in [Instances -> BOOLEAN]
    BY <1>2, DueStays DEF WorkerInv, BatchesTyped, OtherUseCases, workerVars, SubmitWager
  <2> QED BY <1>1, <2>1, <2>2, QuietKeepsInv
<1>3. CASE \E i \in Instances : Claim(i)
  BY <1>3, ClaimKeepsInv
<1>4. CASE \E i \in Instances, k \in Keys : Begin(i, k)
  BY <1>4, BeginKeepsInv
<1>5. CASE \E i \in Instances : LeaveDecided(i)
  BY <1>5, LeaveDecidedKeepsInv
<1>6. CASE \E i \in Instances, k \in Keys : Finish(i, k)
  BY <1>6, FinishKeepsInv
<1>7. CASE \E i \in Instances : Interrupt(i)
  BY <1>7, InterruptKeepsInv
<1>8. CASE \/ \E k \in Keys : BackoffEnds(k)
           \/ \E i \in Stopping : Shutdown(i) \/ Restart(i)
           \/ UNCHANGED allVars
  <2>1. UNCHANGED <<attempts, batch, busy, reading>>
    BY <1>8 DEF BackoffEnds, Shutdown, Restart, allVars, workerVars, vars
  <2>2. due \in Seq(Keys) /\ running \in [Instances -> BOOLEAN]
    BY DEF WorkerInv, BatchesTyped
  <2>3. due' \in Seq(Keys)
    <3>1. ASSUME NEW k \in Keys, BackoffEnds(k) PROVE due' \in Seq(Keys)
      BY <2>2, <3>1, AppendProperties DEF BackoffEnds
    <3> QED BY <1>8, <2>2, <3>1 DEF Shutdown, Restart, allVars, workerVars
  <2>4. running' \in [Instances -> BOOLEAN]
    BY <1>8, <2>2 DEF BackoffEnds, Shutdown, Restart, allVars, workerVars
  <2> QED BY <1>1, <2>1, <2>3, <2>4, QuietKeepsInv
<1> QED
  BY <1>2, <1>3, <1>4, <1>5, <1>6, <1>7, <1>8 DEF WorkerNext

LEMMA WorkerInvHolds == WorkerSafeSpec => []WorkerInv
BY WorkerInvInit, WorkerInvStep, PTL DEF WorkerSafeSpec

(***************************************************************************)
(* The state of the worker is typed: what is claimed are keys of rows with *)
(* attempts within the limit, and an instance that reprocesses holds what  *)
(* it reprocesses.                                                         *)
(***************************************************************************)
THEOREM WorkersAreTyped == WorkerSafeSpec => []WorkerTypeOK
<1>1. WorkerInv => WorkerTypeOK
  BY DEF WorkerInv, LedgerInv, BatchesTyped, WorkerTypeOK
<1> QED BY <1>1, WorkerInvHolds, PTL

(***************************************************************************)
(* A row is reprocessed by one instance at a time, however many of them    *)
(* hold a claim of it, and no failure leaves it locked.                    *)
(***************************************************************************)
THEOREM LocksOfRowsCorrect == WorkerSafeSpec => []OneReprocessingPerRow
<1>1. WorkerInv => OneReprocessingPerRow
  BY DEF WorkerInv
<1> QED BY <1>1, WorkerInvHolds, PTL

(***************************************************************************)
(* No reversal is rejected for a missing reference before all its attempts *)
(* are counted, whatever batches overlap, crash or are repeated.           *)
(***************************************************************************)
THEOREM RejectionsCorrect == WorkerSafeSpec => []NoEarlyRejection
<1>1. WorkerInv => NoEarlyRejection
  BY DEF WorkerInv
<1> QED BY <1>1, WorkerInvHolds, PTL

(***************************************************************************)
(* The workers, with their claims, batches and failures, only do what the  *)
(* use cases do: everything proved of WageringTransactions holds of them.  *)
(***************************************************************************)
THEOREM WorkerImplementsTransactions == WorkerSafeSpec => Spec
<1>1. WorkerInit => Init
  BY DEF WorkerInit
<1>2. WorkerInv => BatchesTyped
  BY DEF WorkerInv
<1> QED
  BY <1>1, <1>2, WorkerStepIsStep, WorkerInvHolds, PTL DEF WorkerSafeSpec, Spec

-----------------------------------------------------------------------------
(***************************************************************************)
(* A reference that is found stays found: rows and their requests remain.  *)
(***************************************************************************)
LEMMA RowsRemain ==
    ASSUME LedgerInv, ReversalInv, [Next]_vars, NEW t \in TxIds, Exists(t)
    PROVE  Exists(t)' /\ txs'[t].req = txs[t].req
<1>1. txs'[t].req = txs[t].req
  <2>1. CASE HistoryKept
    BY <2>1 DEF HistoryKept
  <2>2. CASE UNCHANGED vars
    BY <2>2 DEF vars
  <2> QED BY <2>1, <2>2, HistoryStep
<1>2. ASSUME NEW w \in Wallets, NEW p \in Players, NEW c \in Currencies,
             NEW b \in InitialBalances, CreateWallet(w, p, c, b)
      PROVE  Exists(t)'
  <2>1. t # w
    BY <1>2 DEF CreateWallet, LedgerInv, RowsHaveWallets, ReversalInv, OpeningsAreOwn
  <2> QED BY <1>2, <2>1 DEF CreateWallet, Exists, LedgerInv, TypeOK
<1>3. ASSUME NEW r \in Requests, Submit(r) \/ FailTransaction(r)
      PROVE  Exists(t)'
  <2>1. t # r.key /\ r.key \in TxIds
    BY <1>3, RequestsTyped DEF Submit, FailTransaction, Insertable
  <2> QED BY <1>3, <2>1
          DEF Submit, FailTransaction, Save, Exists, LedgerInv, TypeOK
<1>4. ASSUME NEW k \in Keys, FinishWithReference(k) PROVE Exists(t)'
  <2> DEFINE req == txs[k].req
             d == DecideReversal(wallets[req.wallet], req, RowRead(reading[k]),
                                 AlreadyReversed(reading[k].reference, req.kind))
  <2>1. /\ k \in TxIds /\ Exists(k) /\ reading[k] # None
        /\ d.status # "ABORTED"
        /\ Save(k, req, req.wallet, d, reading[k].reference)
    BY <1>4 DEF FinishWithReference, LedgerInv, ReadingIsPending, TxIds
  <2>2. /\ req \in RequestType /\ req.wallet \in Wallets
        /\ wallets[req.wallet] # None /\ wallets[req.wallet] \in WalletType
    BY <2>1, RowTyped DEF LedgerInv, RowsHaveWallets, TypeOK
  <2>3. reading[k].reference \in TxIds \cup {None}
    BY <2>1 DEF LedgerInv, TypeOK, ReadingType
  <2>4. SoundDecision(d, wallets[req.wallet], req)
    BY <2>2, DecideReversalSound
  <2> HIDE DEF d, req
  <2>5. txs'[k] # None /\ \A s \in TxIds \ {k} : txs'[s] = txs[s]
    BY <2>1, <2>2, <2>3, <2>4, SaveKeepsTables DEF LedgerInv
  <2> QED BY <2>5 DEF Exists
<1>5. ASSUME NEW k \in Keys, FinishWithoutReference(k) PROVE Exists(t)'
  <2>1. CASE UNCHANGED txs
    BY <2>1 DEF Exists
  <2>2. CASE txs' = [txs EXCEPT ![k].status = "REJECTED",
                                ![k].failure = "REFERENCE_NOT_FOUND"]
    <3>1. CASE t = k
      <4>1. txs[k] \in TransactionType
        BY <3>1 DEF Exists, LedgerInv, TypeOK
      <4>2. txs'[k] \in TransactionType
        BY <2>2, <3>1, <4>1
        DEF TransactionType, Statuses, FailureCodes, LedgerInv, TypeOK
      <4> QED BY <3>1, <4>2, NoneAssumption DEF Exists
    <3>2. CASE t # k
      BY <2>2, <3>2 DEF Exists, LedgerInv, TypeOK
    <3> QED BY <3>1, <3>2
  <2> QED BY <1>5, <2>1, <2>2 DEF FinishWithoutReference
<1>6. ASSUME UNCHANGED txs PROVE Exists(t)'
  BY <1>6 DEF Exists
<1> QED
  BY <1>1, <1>2, <1>3, <1>4, <1>5, <1>6, FailingAssumption
  DEF Next, BeginReprocess, AbortReprocess, vars

\* What the claim of an attempt in time guarantees from then on.
WillBeFound(k) ==
    /\ Exists(k) /\ ~NotFound(k)
    /\ WithExternal(txs[k].req.reference) # {}
    /\ IsLocked(k) /\ reading[k].reference = None => ~reading[k].rejectIfMissing

LEMMA InTimeWillBeFound ==
    ASSUME WorkerInv, NEW k \in Keys, ReferenceInTime(k)
    PROVE  WillBeFound(k)
BY DEF WorkerInv, NoEarlyRejection, ReferenceInTime, WillBeFound, IsPending

LEMMA WillBeFoundStep ==
    ASSUME WorkerInv, ReversalInv, NEW k \in Keys, WillBeFound(k),
           [WorkerNext]_allVars
    PROVE  WillBeFound(k)'
<1>1. [Next]_vars
  BY WorkerStepIsStep DEF WorkerInv
<1>2. k \in TxIds /\ LedgerInv
  BY DEF TxIds, WorkerInv
<1>3. Exists(k)' /\ txs'[k].req = txs[k].req
  BY <1>1, <1>2, RowsRemain DEF WillBeFound
<1>4. WithExternal(txs[k].req.reference)' # {}
  <2> DEFINE x == txs[k].req.reference
  <2>1. PICK t \in TxIds : Exists(t) /\ txs[t].req.external = x
    BY DEF WillBeFound, WithExternal
  <2>2. Exists(t)' /\ txs'[t].req.external = x
    BY <1>1, <1>2, <2>1, RowsRemain
  <2>3. txs'[k].req.reference = x
    BY <1>3
  <2> HIDE DEF x
  <2> QED BY <2>2, <2>3 DEF WithExternal
<1>5. ~NotFound(k)'
  <2> SUFFICES ASSUME NotFound(k)' PROVE FALSE
    OBVIOUS
  <2>1. FinishWithoutReference(k) /\ reading[k].rejectIfMissing
    BY <1>1, <1>2, NotFoundStep DEF WillBeFound
  <2> QED BY <2>1 DEF WillBeFound, FinishWithoutReference, IsLocked
<1>6. IsLocked(k)' /\ reading'[k].reference = None => ~reading'[k].rejectIfMissing
  <2>1. reading \in [Keys -> ReadingType \cup {None}]
    BY DEF WorkerInv, LedgerInv, TypeOK
  <2>2. ASSUME NEW last \in BOOLEAN, BeginReprocess(k, last)
        PROVE  reading'[k].reference # None
    <3>1. PICK read \in CurrentReadings(txs[k].req.reference) :
             reading' = [reading EXCEPT ![k] =
                 [reference |-> read.reference, status |-> read.status,
                  rejectIfMissing |-> last]]
      BY <2>2 DEF BeginReprocess
    <3>2. read.reference \in TxIds
      BY DEF CurrentReadings, WillBeFound, Reading, WithExternal
    <3> QED BY <2>1, <3>1, <3>2, NoneAssumption
  <2>3. ASSUME NEW t \in Keys, NEW last \in BOOLEAN, BeginReprocess(t, last), t # k
        PROVE  reading'[k] = reading[k]
    BY <2>1, <2>3 DEF BeginReprocess
  <2>4. ASSUME NEW t \in Keys, \/ FinishWithoutReference(t)
                               \/ FinishWithReference(t)
                               \/ AbortReprocess(t)
        PROVE  reading'[k] \in {reading[k], None}
    BY <2>1, <2>4 DEF FinishWithoutReference, FinishWithReference, AbortReprocess
  <2>5. ASSUME UNCHANGED reading PROVE reading'[k] = reading[k]
    BY <2>5
  <2>6. \/ reading'[k] \in {reading[k], None}
        \/ reading'[k].reference # None
    BY <1>1, <2>2, <2>3, <2>4, <2>5
    DEF Next, vars, CreateWallet, Submit, FailTransaction
  <2> QED BY <2>6 DEF WillBeFound, IsLocked
<1> QED BY <1>3, <1>4, <1>5, <1>6 DEF WillBeFound

LEMMA FoundStaysFound ==
    ASSUME NEW k \in Keys
    PROVE  WorkerSafeSpec => [](ReferenceInTime(k) => []~NotFound(k))
<1>1. Spec => []ReversalInv
  BY LedgerInvInit, LedgerInvStep, ReversalInvInit, ReversalInvStep, PTL DEF Spec
<1>2. WorkerInv /\ ReferenceInTime(k) => WillBeFound(k)
  BY InTimeWillBeFound
<1>3. WorkerInv /\ ReversalInv /\ WillBeFound(k) /\ [WorkerNext]_allVars
         => WillBeFound(k)'
  BY WillBeFoundStep
<1>4. WillBeFound(k) => ~NotFound(k)
  BY DEF WillBeFound
<1> QED
  BY <1>1, <1>2, <1>3, <1>4, WorkerInvHolds, WorkerImplementsTransactions, PTL
  DEF WorkerSafeSpec

(***************************************************************************)
(* A reference that is there before the last attempt of its reversal is    *)
(* claimed is never missed, however many instances hold a claim of it.     *)
(***************************************************************************)
THEOREM FoundReferencesCorrect == WorkerSafeSpec => FoundIsNotMissed
BY FoundStaysFound DEF FoundIsNotMissed
=============================================================================
