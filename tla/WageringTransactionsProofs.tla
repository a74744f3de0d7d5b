--------------------- MODULE WageringTransactionsProofs ---------------------
(***************************************************************************)
(* Proofs about WageringTransactions, for any number of wallets, requests  *)
(* and workers.  The inductive invariant adds to the properties what a     *)
(* reprocessing under way relies on: the row it locked is still pending    *)
(* and the row it read is still there, and a row names an existing wallet. *)
(***************************************************************************)
EXTENDS WageringTransactions, SequenceTheorems, TLAPS

RowsHaveWallets ==
    \A k \in TxIds : Exists(k) => wallets[txs[k].req.wallet] # None

\* The row lock of a reprocessing under way keeps its transaction pending.
ReadingIsPending ==
    \A k \in Keys : reading[k] # None =>
        Exists(k) /\ txs[k].status = "PENDING_REFERENCE"

LedgerInv ==
    /\ TypeOK
    /\ RowsHaveWallets
    /\ ReadingIsPending
    /\ LedgerExplainsBalance
    /\ VersionCountsEntries

USE MaxBalanceAssumption

-----------------------------------------------------------------------------
(***************************************************************************)
(* What a decision allows: a debit the balance covers, a credit the column *)
(* can hold, and a status that is saved unless the transaction aborts.     *)
(***************************************************************************)
SoundDecision(d, wallet, req) ==
    /\ d.status \in Statuses \cup {"ABORTED"}
    /\ d.failure \in FailureCodes \cup {None}
    /\ d.type \in EntryTypes \cup {None}
    /\ d.type = "DEBIT" => req.amount <= wallet.balance
    /\ d.type = "CREDIT" => wallet.balance + req.amount <= MaxBalance

LEMMA MoveMoneySound ==
    ASSUME NEW wallet \in WalletType, NEW req \in RequestType,
           NEW type \in EntryTypes, NEW code \in FailureCodes
    PROVE  SoundDecision(MoveMoney(wallet, req, type, code), wallet, req)
BY NoneAssumption
DEF MoveMoney, SoundDecision, Aborted, Rejected, Processed, WalletType,
    RequestType, EntryTypes, Statuses, FailureCodes

LEMMA DecideReversalSound ==
    ASSUME NEW wallet \in WalletType, NEW req \in RequestType,
           NEW reference, NEW reversed
    PROVE  SoundDecision(DecideReversal(wallet, req, reference, reversed),
                         wallet, req)
<1> DEFINE failure == ReversalFailure(req, reference, reversed)
           type == ReversalLedgerType(req.kind, reference.req.kind)
<1>1. failure \in FailureCodes \cup {None}
  BY DEF ReversalFailure, FailureCodes, ReferenceFailures
<1>2. type \in EntryTypes
  BY DEF ReversalLedgerType, EntryTypes
<1>3. CASE failure # None
  BY <1>1, <1>3, NoneAssumption
  DEF DecideReversal, SoundDecision, Rejected, Statuses, EntryTypes
<1>4. CASE failure = None
  <2>1. DecideReversal(wallet, req, reference, reversed)
          = MoveMoney(wallet, req, type, "REVERSAL_WOULD_CAUSE_NEGATIVE_BALANCE")
    BY <1>4 DEF DecideReversal
  <2>2. "REVERSAL_WOULD_CAUSE_NEGATIVE_BALANCE" \in FailureCodes
    BY DEF FailureCodes
  <2> HIDE DEF type
  <2> QED BY <1>2, <2>1, <2>2, MoveMoneySound
<1> QED BY <1>3, <1>4

LEMMA DecideSound ==
    ASSUME NEW wallet \in WalletType, NEW req \in RequestType,
           NEW reference, NEW reversed
    PROVE  SoundDecision(Decide(wallet, req, reference, reversed), wallet, req)
<1>1. CASE req.kind = "BET"
  BY <1>1, MoveMoneySound DEF Decide, EntryTypes, FailureCodes
<1>2. CASE req.kind = "WIN"
  BY <1>2, MoveMoneySound DEF Decide, EntryTypes, FailureCodes
<1>3. CASE req.kind = "LOSS"
  BY <1>3, NoneAssumption
  DEF Decide, SoundDecision, Processed, Statuses, EntryTypes
<1>4. CASE req.kind \notin {"BET", "WIN", "LOSS"} /\ reference = None
  BY <1>4, NoneAssumption
  DEF Decide, SoundDecision, Pending, Statuses, EntryTypes
<1>5. CASE req.kind \notin {"BET", "WIN", "LOSS"} /\ reference # None
  BY <1>5, DecideReversalSound DEF Decide
<1> QED BY <1>1, <1>2, <1>3, <1>4, <1>5

\* Appending a balanced entry that starts at the balance keeps the chain.
LEMMA ChainExtends ==
    ASSUME NEW s \in Seq(EntryType), NEW balance, NEW e \in EntryType,
           Chained(s, balance),
           e.before = balance,
           e.after = BalanceAfter(e.type, e.before, e.amount)
    PROVE  Chained(Append(s, e), e.after)
<1> DEFINE t == Append(s, e)
<1>1. /\ t \in Seq(EntryType)
      /\ Len(t) = Len(s) + 1
      /\ t[Len(s) + 1] = e
      /\ \A i \in 1..Len(s) : t[i] = s[i]
  BY AppendProperties
<1>2. Len(s) \in Nat /\ Len(s) # 0
  BY EmptySeq, LenProperties DEF Chained
<1>3. t # <<>>
  BY <1>1, <1>2, EmptySeq, LenProperties
<1>4. ASSUME NEW i \in 1..Len(t)
      PROVE  /\ t[i].after = BalanceAfter(t[i].type, t[i].before, t[i].amount)
             /\ i > 1 => t[i].before = t[i - 1].after
  <2> HIDE DEF t
  <2>1. CASE i \in 1..Len(s)
    BY <1>1, <1>2, <2>1 DEF Chained
  <2>2. CASE i = Len(s) + 1
    BY <1>1, <1>2, <2>2 DEF Chained
  <2> QED BY <1>1, <1>2, <2>1, <2>2
<1> HIDE DEF t
<1> QED BY <1>1, <1>2, <1>3, <1>4 DEF Chained

-----------------------------------------------------------------------------
(***************************************************************************)
(* Saving a sound decision keeps the tables' types and the ledger in step  *)
(* with the balance and the version.                                       *)
(***************************************************************************)
LEMMA SaveKeepsTables ==
    ASSUME TypeOK, LedgerExplainsBalance, VersionCountsEntries,
           NEW k \in TxIds, NEW req \in RequestType,
           NEW w \in Wallets, wallets[w] # None,
           NEW d, d.status # "ABORTED", SoundDecision(d, wallets[w], req),
           NEW reference \in TxIds \cup {None},
           Save(k, req, w, d, reference)
    PROVE  /\ wallets' \in [Wallets -> WalletType \cup {None}]
           /\ txs' \in [TxIds -> TransactionType \cup {None}]
           /\ ledger' \in [Wallets -> Seq(EntryType)]
           /\ outbox' \in [Wallets -> Seq(EventType)]
           /\ \A v \in Wallets : wallets[v] # None => wallets'[v] # None
           /\ txs'[k] # None /\ txs'[k].req = req /\ txs'[k].status = d.status
           /\ \A t \in TxIds \ {k} : txs'[t] = txs[t]
           /\ LedgerExplainsBalance'
           /\ VersionCountsEntries'
<1> DEFINE before  == wallets[w].balance
           after   == BalanceAfter(d.type, before, req.amount)
           version == wallets[w].version + 1
           entry   == Entry(k, d.type, req.amount, before)
           row     == [req |-> req, status |-> d.status, failure |-> d.failure,
                       reference |-> IF d.status = "PROCESSED"
                                     THEN reference ELSE None,
                       balanceAfter |-> after]
<1>1. /\ wallets[w] \in WalletType
      /\ before \in 0..MaxBalance
      /\ version \in Nat
      /\ version = wallets[w].version + 1
      /\ req.amount \in 0..MaxBalance
  BY DEF TypeOK, WalletType, RequestType
<1>2. after \in 0..MaxBalance
  BY <1>1, NoneAssumption DEF SoundDecision, BalanceAfter, EntryTypes
<1>3. d.status \in Statuses
  BY DEF SoundDecision
<1>4. row \in TransactionType
  BY <1>2, <1>3 DEF SoundDecision, TransactionType
<1>5. txs' = [txs EXCEPT ![k] = row]
  BY DEF Save, NextVersion
<1>6. /\ txs' \in [TxIds -> TransactionType \cup {None}]
      /\ txs'[k] # None /\ txs'[k].req = req /\ txs'[k].status = d.status
      /\ \A t \in TxIds \ {k} : txs'[t] = txs[t]
  BY <1>4, <1>5, NoneAssumption DEF TypeOK
<1>7. OutcomeEvent(k, d.status) \in EventType
  BY <1>3 DEF OutcomeEvent, EventType, OutcomeEventType
<1>8. CASE d.type = None
  <2>1. /\ outbox' = [outbox EXCEPT ![w] =
                        Append(@, OutcomeEvent(k, d.status))]
        /\ UNCHANGED <<wallets, ledger>>
    BY <1>8 DEF Save, NextVersion
  <2>2. outbox' \in [Wallets -> Seq(EventType)]
    BY <1>7, <2>1 DEF TypeOK
  <2> QED
    BY <1>6, <2>1, <2>2
    DEF TypeOK, LedgerExplainsBalance, VersionCountsEntries
<1>9. CASE d.type # None
  <2>1. d.type \in EntryTypes
    BY <1>9 DEF SoundDecision
  <2>2. /\ entry \in EntryType
        /\ entry.before = before
        /\ entry.after = after
        /\ entry.after = BalanceAfter(entry.type, entry.before, entry.amount)
    BY <1>1, <1>2, <2>1 DEF Entry, EntryType
  <2>3. BalanceEvent(k, entry, version) \in EventType
    BY <1>1, <2>2 DEF BalanceEvent, EventType, BalanceEventType
  <2> HIDE DEF before, after, version, entry
  <2>4. /\ wallets' = [wallets EXCEPT ![w].balance = after,
                                      ![w].version = version]
        /\ ledger' = [ledger EXCEPT ![w] = Append(@, entry)]
        /\ outbox' = [outbox EXCEPT ![w] =
              @ \o <<OutcomeEvent(k, d.status), BalanceEvent(k, entry, version)>>]
    BY <1>9 DEF Save, NextVersion, before, after, version, entry
  <2>5. /\ wallets' \in [Wallets -> WalletType \cup {None}]
        /\ wallets'[w] \in WalletType
        /\ wallets'[w].balance = after
        /\ wallets'[w].version = version
        /\ \A v \in Wallets \ {w} : wallets'[v] = wallets[v]
    BY <1>1, <1>2, <2>4 DEF TypeOK, WalletType
  <2>6. /\ ledger' \in [Wallets -> Seq(EntryType)]
        /\ ledger'[w] = Append(ledger[w], entry)
        /\ \A v \in Wallets \ {w} : ledger'[v] = ledger[v]
    BY <2>2, <2>4 DEF TypeOK
  <2>7. outbox' \in [Wallets -> Seq(EventType)]
    <3>1. <<OutcomeEvent(k, d.status), BalanceEvent(k, entry, version)>>
             \in Seq(EventType)
      BY <1>7, <2>3
    <3>2. outbox[w] \o <<OutcomeEvent(k, d.status), BalanceEvent(k, entry, version)>>
             \in Seq(EventType)
      BY <3>1, ConcatProperties DEF TypeOK
    <3> QED BY <2>4, <3>2 DEF TypeOK
  <2>8. LedgerExplainsBalance'
    <3> SUFFICES ASSUME NEW v \in Wallets
                 PROVE  IF wallets'[v] = None THEN ledger'[v] = <<>>
                        ELSE Chained(ledger'[v], wallets'[v].balance)
      BY DEF LedgerExplainsBalance
    <3>1. CASE v # w
      BY <2>5, <2>6, <3>1 DEF LedgerExplainsBalance
    <3>2. CASE v = w
      <4>1. Chained(ledger[w], before)
        BY DEF LedgerExplainsBalance, before
      <4>2. ledger[w] \in Seq(EntryType)
        BY DEF TypeOK
      <4>3. Chained(Append(ledger[w], entry), after)
        BY <2>2, <4>1, <4>2, ChainExtends
      <4> QED BY <2>5, <2>6, <3>2, <4>3, NoneAssumption
    <3> QED BY <3>1, <3>2
  <2>9. VersionCountsEntries'
    <3> SUFFICES ASSUME NEW v \in Wallets, wallets'[v] # None
                 PROVE  wallets'[v].version = Len(ledger'[v])
      BY DEF VersionCountsEntries
    <3>1. CASE v # w
      BY <2>5, <2>6, <3>1 DEF VersionCountsEntries
    <3>2. CASE v = w
      <4>1. Len(Append(ledger[w], entry)) = Len(ledger[w]) + 1
        BY <2>2, AppendProperties DEF TypeOK
      <4>2. wallets[w].version = Len(ledger[w])
        BY DEF VersionCountsEntries
      <4> QED BY <1>1, <2>5, <2>6, <3>2, <4>1, <4>2
    <3> QED BY <3>1, <3>2
  <2> QED BY <1>6, <2>5, <2>6, <2>7, <2>8, <2>9, NoneAssumption
<1> QED BY <1>8, <1>9

-----------------------------------------------------------------------------
(***************************************************************************)
(* The ledger invariant holds initially and every action keeps it.         *)
(***************************************************************************)
LEMMA LedgerInvInit == Init => LedgerInv
BY NoneAssumption
DEF Init, LedgerInv, TypeOK, RowsHaveWallets, ReadingIsPending, Exists,
    LedgerExplainsBalance, VersionCountsEntries

LEMMA RequestsTyped ==
    ASSUME NEW r \in Requests
    PROVE  /\ r \in RequestType
           /\ r.key \in Keys /\ r.key \in TxIds
           /\ r.wallet \in Wallets
           /\ r.kind \in WagerKinds
BY RequestsAssumption DEF RequestType, TxIds

LEMMA RowTyped ==
    ASSUME TypeOK, NEW k \in TxIds, Exists(k)
    PROVE  /\ txs[k] \in TransactionType
           /\ txs[k].req \in RequestType
           /\ txs[k].req.wallet \in Wallets
BY DEF TypeOK, Exists, TransactionType, RequestType

\* Creating a wallet: its first ledger entry is the opening one.
LEMMA CreateWalletKeepsLedger ==
    ASSUME LedgerInv, NEW w \in Wallets, NEW p \in Players,
           NEW c \in Currencies, NEW b \in InitialBalances,
           CreateWallet(w, p, c, b)
    PROVE  LedgerInv'
<1> DEFINE entry == Entry(w, "CREDIT", b, 0)
           wallet == [player |-> p, currency |-> c, balance |-> b, version |-> 1]
           row == [req |-> OpeningRequest(w, p, c, b), status |-> "PROCESSED",
                   failure |-> None, reference |-> None, balanceAfter |-> b]
<1>1. b \in 0..MaxBalance /\ IsPositive(b)
  BY InitialBalancesAssumption DEF IsPositive
<1>2. /\ entry \in EntryType
      /\ entry.before = 0 /\ entry.after = b
      /\ entry.after = BalanceAfter(entry.type, entry.before, entry.amount)
  BY <1>1 DEF Entry, EntryType, EntryTypes, BalanceAfter, TxIds
<1>3. wallet \in WalletType
  BY <1>1 DEF WalletType
<1>4. row \in TransactionType
  BY <1>1 DEF TransactionType, OpeningRequest, RequestType, TxIds, Kinds, Statuses
<1>5. /\ OutcomeEvent(w, "PROCESSED") \in EventType
      /\ BalanceEvent(w, entry, 1) \in EventType
  BY <1>2 DEF OutcomeEvent, BalanceEvent, EventType, OutcomeEventType,
              BalanceEventType, TxIds, Statuses
<1>6. row.req.wallet = w
  BY DEF OpeningRequest
<1> HIDE DEF entry, wallet, row
<1>7. /\ wallets[w] = None
      /\ wallets' = [wallets EXCEPT ![w] = wallet]
      /\ txs' = [txs EXCEPT ![w] = row]
      /\ ledger' = [ledger EXCEPT ![w] = Append(@, entry)]
      /\ outbox' = [outbox EXCEPT ![w] =
            @ \o <<OutcomeEvent(w, "PROCESSED"), BalanceEvent(w, entry, 1)>>]
      /\ reading' = reading
  BY <1>1 DEF CreateWallet, entry, wallet, row
<1>8. ledger[w] = <<>>
  BY <1>7 DEF LedgerInv, LedgerExplainsBalance
<1>9. w \in TxIds /\ w \notin Keys
  BY DisjointAssumption DEF TxIds
<1>10. /\ ledger'[w] = <<entry>>
       /\ \A v \in Wallets \ {w} : /\ ledger'[v] = ledger[v]
                                   /\ wallets'[v] = wallets[v]
       /\ wallets'[w] = wallet /\ wallet # None
       /\ txs'[w] = row
       /\ \A t \in TxIds \ {w} : txs'[t] = txs[t]
  BY <1>3, <1>7, <1>8, <1>9, NoneAssumption DEF LedgerInv, TypeOK
<1>11. TypeOK'
  <2>1. <<OutcomeEvent(w, "PROCESSED"), BalanceEvent(w, entry, 1)>> \in Seq(EventType)
    BY <1>5
  <2>2. outbox[w] \o <<OutcomeEvent(w, "PROCESSED"), BalanceEvent(w, entry, 1)>>
           \in Seq(EventType)
    BY <2>1, ConcatProperties DEF LedgerInv, TypeOK
  <2>3. outbox' \in [Wallets -> Seq(EventType)]
    BY <1>7, <2>2 DEF LedgerInv, TypeOK
  <2>4. ledger' \in [Wallets -> Seq(EntryType)]
    BY <1>2, <1>7 DEF LedgerInv, TypeOK
  <2> QED BY <1>3, <1>4, <1>7, <1>9, <2>3, <2>4 DEF LedgerInv, TypeOK
<1>12. RowsHaveWallets'
  <2> SUFFICES ASSUME NEW t \in TxIds, txs'[t] # None
               PROVE  wallets'[txs'[t].req.wallet] # None
    BY DEF RowsHaveWallets, Exists
  <2>1. CASE t = w
    BY <1>6, <1>10, <2>1
  <2>2. CASE t # w
    <3>1. Exists(t) /\ txs'[t] = txs[t]
      BY <1>10, <2>2 DEF Exists
    <3>2. txs[t].req.wallet \in Wallets /\ wallets[txs[t].req.wallet] # None
      BY <3>1, RowTyped DEF LedgerInv, RowsHaveWallets
    <3> QED BY <1>10, <3>1, <3>2
  <2> QED BY <2>1, <2>2
<1>13. ReadingIsPending'
  BY <1>7, <1>9, <1>10 DEF LedgerInv, ReadingIsPending, Exists, TxIds
<1>14. Chained(<<entry>>, b)
  <2>1. Len(<<entry>>) = 1 /\ <<entry>>[1] = entry /\ <<entry>> # <<>>
    OBVIOUS
  <2> QED BY <1>2, <2>1 DEF Chained
<1>15. LedgerExplainsBalance'
  BY <1>10, <1>14 DEF LedgerInv, LedgerExplainsBalance, wallet
<1>16. VersionCountsEntries'
  <2>1. wallet.version = 1 /\ Len(<<entry>>) = 1
    BY DEF wallet
  <2> QED BY <1>10, <2>1 DEF LedgerInv, VersionCountsEntries
<1> QED BY <1>11, <1>12, <1>13, <1>15, <1>16 DEF LedgerInv

(***************************************************************************)
(* A saved decision keeps the ledger invariant, provided the transaction   *)
(* it saves is no longer being reprocessed afterwards.                     *)
(***************************************************************************)
LEMMA SaveKeepsLedger ==
    ASSUME LedgerInv,
           NEW k \in TxIds, NEW req \in RequestType, wallets[req.wallet] # None,
           NEW d, d.status # "ABORTED",
           SoundDecision(d, wallets[req.wallet], req),
           NEW reference \in TxIds \cup {None},
           Save(k, req, req.wallet, d, reference),
           reading' \in [Keys -> ReadingType \cup {None}],
           \A t \in Keys : reading'[t] # None => reading[t] # None /\ t # k
    PROVE  LedgerInv'
<1>1. req.wallet \in Wallets
  BY DEF RequestType
<1>2. /\ wallets' \in [Wallets -> WalletType \cup {None}]
      /\ txs' \in [TxIds -> TransactionType \cup {None}]
      /\ ledger' \in [Wallets -> Seq(EntryType)]
      /\ outbox' \in [Wallets -> Seq(EventType)]
      /\ \A v \in Wallets : wallets[v] # None => wallets'[v] # None
      /\ txs'[k] # None /\ txs'[k].req = req /\ txs'[k].status = d.status
      /\ \A t \in TxIds \ {k} : txs'[t] = txs[t]
      /\ LedgerExplainsBalance'
      /\ VersionCountsEntries'
  BY <1>1, SaveKeepsTables DEF LedgerInv
<1>3. TypeOK'
  BY <1>2 DEF TypeOK
<1>4. RowsHaveWallets'
  <2> SUFFICES ASSUME NEW t \in TxIds, txs'[t] # None
               PROVE  wallets'[txs'[t].req.wallet] # None
    BY DEF RowsHaveWallets, Exists
  <2>1. CASE t = k
    BY <1>1, <1>2, <2>1
  <2>2. CASE t # k
    <3>1. Exists(t) /\ txs'[t] = txs[t]
      BY <1>2, <2>2 DEF Exists
    <3>2. txs[t].req.wallet \in Wallets /\ wallets[txs[t].req.wallet] # None
      BY <3>1, RowTyped DEF LedgerInv, RowsHaveWallets
    <3> QED BY <1>2, <3>1, <3>2
  <2> QED BY <2>1, <2>2
<1>5. ReadingIsPending'
  BY <1>2 DEF LedgerInv, ReadingIsPending, Exists, TxIds
<1> QED BY <1>2, <1>3, <1>4, <1>5 DEF LedgerInv

LEMMA SubmitKeepsLedger ==
    ASSUME LedgerInv, NEW r \in Requests, Submit(r)
    PROVE  LedgerInv'
<1>1. r \in RequestType /\ r.key \in Keys /\ r.key \in TxIds /\ r.wallet \in Wallets
  BY RequestsTyped
<1>2. /\ wallets[r.wallet] # None
      /\ ~Exists(r.key)
      /\ reading' = reading
  BY DEF Submit, Insertable
<1>3. PICK read \in ReferenceReadings(r) :
         LET d == Decide(wallets[r.wallet], r, RowRead(read),
                         AlreadyReversed(read.reference, r.kind))
         IN  d.status # "ABORTED" /\ Save(r.key, r, r.wallet, d, read.reference)
  BY DEF Submit
<1> DEFINE d == Decide(wallets[r.wallet], r, RowRead(read),
                       AlreadyReversed(read.reference, r.kind))
<1>4. read.reference \in TxIds \cup {None}
  BY DEF ReferenceReadings, CurrentReadings, EarlierReadings, MissingReading,
         Reading, WithExternal
<1>5. wallets[r.wallet] \in WalletType
  BY <1>1, <1>2 DEF LedgerInv, TypeOK
<1>6. SoundDecision(d, wallets[r.wallet], r)
  BY <1>1, <1>5, DecideSound
<1>7. d.status # "ABORTED" /\ Save(r.key, r, r.wallet, d, read.reference)
  BY <1>3
<1>8. reading' \in [Keys -> ReadingType \cup {None}]
  BY <1>2 DEF LedgerInv, TypeOK
<1>9. \A t \in Keys : reading'[t] # None => reading[t] # None /\ t # r.key
  BY <1>2 DEF LedgerInv, ReadingIsPending
<1> HIDE DEF d
<1> QED BY <1>1, <1>2, <1>4, <1>6, <1>7, <1>8, <1>9, SaveKeepsLedger

LEMMA FailTransactionKeepsLedger ==
    ASSUME LedgerInv, NEW r \in Requests, FailTransaction(r)
    PROVE  LedgerInv'
<1> DEFINE row == [req |-> r, status |-> "FAILED",
                   failure |-> "PERMANENT_INFRASTRUCTURE_ERROR",
                   reference |-> None, balanceAfter |-> wallets[r.wallet].balance]
<1>1. r \in RequestType /\ r.key \in Keys /\ r.key \in TxIds /\ r.wallet \in Wallets
  BY RequestsTyped
<1>2. wallets[r.wallet] # None /\ ~Exists(r.key)
  BY DEF FailTransaction, Insertable
<1>3. wallets[r.wallet].balance \in 0..MaxBalance
  BY <1>1, <1>2 DEF LedgerInv, TypeOK, WalletType
<1>4. row \in TransactionType
  BY <1>1, <1>3 DEF TransactionType, Statuses, FailureCodes
<1>5. row.req = r
  OBVIOUS
<1> HIDE DEF row
<1>6. /\ txs' = [txs EXCEPT ![r.key] = row]
      /\ UNCHANGED <<wallets, ledger, outbox, reading>>
  BY DEF FailTransaction, row
<1>7. TypeOK'
  BY <1>4, <1>6 DEF LedgerInv, TypeOK
<1>8. /\ txs'[r.key] = row
      /\ \A t \in TxIds \ {r.key} : txs'[t] = txs[t]
  BY <1>1, <1>6 DEF LedgerInv, TypeOK
<1>9. RowsHaveWallets'
  BY <1>2, <1>5, <1>6, <1>8 DEF LedgerInv, RowsHaveWallets, Exists
<1>10. ReadingIsPending'
  BY <1>2, <1>6, <1>8 DEF LedgerInv, ReadingIsPending, Exists, TxIds
<1> QED BY <1>6, <1>7, <1>9, <1>10
        DEF LedgerInv, LedgerExplainsBalance, VersionCountsEntries

LEMMA BeginReprocessKeepsLedger ==
    ASSUME LedgerInv, NEW k \in Keys, NEW last \in BOOLEAN,
           BeginReprocess(k, last)
    PROVE  LedgerInv'
<1>1. PICK read \in CurrentReadings(txs[k].req.reference) :
         reading' = [reading EXCEPT ![k] =
             [reference |-> read.reference, status |-> read.status,
              rejectIfMissing |-> last]]
  BY DEF BeginReprocess
<1>2. read.reference \in TxIds \cup {None} /\ read.status \in Statuses \cup {None}
  BY DEF CurrentReadings, MissingReading, Reading, WithExternal, Exists,
         LedgerInv, TypeOK, TransactionType
<1>3. reading' \in [Keys -> ReadingType \cup {None}]
  BY <1>1, <1>2 DEF LedgerInv, TypeOK, ReadingType
<1>4. UNCHANGED <<wallets, txs, ledger, outbox>>
  BY DEF BeginReprocess
<1>5. ReadingIsPending'
  BY <1>1, <1>4 DEF BeginReprocess, LedgerInv, TypeOK, ReadingIsPending, Exists
<1> QED BY <1>3, <1>4, <1>5
        DEF LedgerInv, TypeOK, RowsHaveWallets, Exists,
            LedgerExplainsBalance, VersionCountsEntries

LEMMA FinishWithoutReferenceKeepsLedger ==
    ASSUME LedgerInv, NEW k \in Keys, FinishWithoutReference(k)
    PROVE  LedgerInv'
<1>1. /\ UNCHANGED <<wallets, ledger>>
      /\ reading' = [reading EXCEPT ![k] = None]
      /\ k \in TxIds /\ Exists(k) /\ reading[k] # None
  BY DEF FinishWithoutReference, LedgerInv, ReadingIsPending, TxIds
<1>2. reading' \in [Keys -> ReadingType \cup {None}]
  BY <1>1 DEF LedgerInv, TypeOK
<1>3. \A t \in Keys : reading'[t] # None => reading[t] # None /\ t # k
  BY <1>1 DEF LedgerInv, TypeOK
<1>4. CASE reading[k].rejectIfMissing
  <2>1. /\ txs' = [txs EXCEPT ![k].status = "REJECTED",
                              ![k].failure = "REFERENCE_NOT_FOUND"]
        /\ outbox' = [outbox EXCEPT ![txs[k].req.wallet] =
                         Append(@, OutcomeEvent(k, "REJECTED"))]
    BY <1>4 DEF FinishWithoutReference
  <2>2. txs[k] \in TransactionType /\ txs[k].req.wallet \in Wallets
    BY <1>1, RowTyped DEF LedgerInv
  <2>3. OutcomeEvent(k, "REJECTED") \in EventType
    BY <1>1 DEF OutcomeEvent, EventType, OutcomeEventType, Statuses
  <2>4. outbox' \in [Wallets -> Seq(EventType)]
    BY <2>1, <2>2, <2>3 DEF LedgerInv, TypeOK
  <2>5. /\ txs' \in [TxIds -> TransactionType \cup {None}]
        /\ txs'[k] # None /\ txs'[k].req = txs[k].req
        /\ \A t \in TxIds \ {k} : txs'[t] = txs[t]
    <3>1. [txs[k] EXCEPT !.status = "REJECTED", !.failure = "REFERENCE_NOT_FOUND"]
             \in TransactionType
      BY <2>2 DEF TransactionType, Statuses, FailureCodes
    <3> QED BY <1>1, <2>1, <2>2, <3>1, NoneAssumption
            DEF LedgerInv, TypeOK, TransactionType
  <2>6. TypeOK'
    BY <1>1, <1>2, <2>4, <2>5 DEF LedgerInv, TypeOK
  <2>7. RowsHaveWallets'
    BY <1>1, <2>5 DEF LedgerInv, RowsHaveWallets, Exists
  <2>8. ReadingIsPending'
    BY <1>3, <2>5 DEF LedgerInv, ReadingIsPending, Exists, TxIds
  <2> QED BY <1>1, <2>6, <2>7, <2>8
          DEF LedgerInv, LedgerExplainsBalance, VersionCountsEntries
<1>5. CASE ~reading[k].rejectIfMissing
  <2>1. UNCHANGED <<txs, outbox>>
    BY <1>5 DEF FinishWithoutReference
  <2> QED BY <1>1, <1>2, <1>3, <2>1
          DEF LedgerInv, TypeOK, RowsHaveWallets, ReadingIsPending, Exists,
              LedgerExplainsBalance, VersionCountsEntries
<1> QED BY <1>4, <1>5

LEMMA FinishWithReferenceKeepsLedger ==
    ASSUME LedgerInv, NEW k \in Keys, FinishWithReference(k)
    PROVE  LedgerInv'
<1> DEFINE req == txs[k].req
           d == DecideReversal(wallets[req.wallet], req, RowRead(reading[k]),
                               AlreadyReversed(reading[k].reference, req.kind))
<1>1. /\ k \in TxIds /\ Exists(k) /\ reading[k] # None
      /\ reading' = [reading EXCEPT ![k] = None]
      /\ d.status # "ABORTED"
      /\ Save(k, req, req.wallet, d, reading[k].reference)
  BY DEF FinishWithReference, LedgerInv, ReadingIsPending, TxIds
<1>2. /\ req \in RequestType
      /\ req.wallet \in Wallets
      /\ wallets[req.wallet] # None
  BY <1>1, RowTyped DEF LedgerInv, RowsHaveWallets
<1>3. wallets[req.wallet] \in WalletType
  BY <1>2 DEF LedgerInv, TypeOK
<1>4. reading[k].reference \in TxIds \cup {None}
  BY <1>1 DEF LedgerInv, TypeOK, ReadingType
<1>5. /\ reading' \in [Keys -> ReadingType \cup {None}]
      /\ \A t \in Keys : reading'[t] # None => reading[t] # None /\ t # k
  BY <1>1 DEF LedgerInv, TypeOK
<1> HIDE DEF req
<1>6. SoundDecision(d, wallets[req.wallet], req)
  BY <1>2, <1>3, DecideReversalSound
<1> HIDE DEF d
<1> QED BY <1>1, <1>2, <1>4, <1>5, <1>6, SaveKeepsLedger

LEMMA AbortReprocessKeepsLedger ==
    ASSUME LedgerInv, NEW k \in Keys, AbortReprocess(k)
    PROVE  LedgerInv'
BY DEF AbortReprocess, LedgerInv, TypeOK, RowsHaveWallets, ReadingIsPending,
       Exists, LedgerExplainsBalance, VersionCountsEntries

LEMMA LedgerInvStep == LedgerInv /\ [Next]_vars => LedgerInv'
<1> SUFFICES ASSUME LedgerInv, [Next]_vars PROVE LedgerInv'
  OBVIOUS
<1>1. ASSUME NEW w \in Wallets, NEW p \in Players, NEW c \in Currencies,
             NEW b \in InitialBalances, CreateWallet(w, p, c, b)
      PROVE  LedgerInv'
  BY <1>1, CreateWalletKeepsLedger
<1>2. ASSUME NEW r \in Requests, Submit(r) PROVE LedgerInv'
  BY <1>2, SubmitKeepsLedger
<1>3. ASSUME NEW r \in Failing, FailTransaction(r) PROVE LedgerInv'
  BY <1>3, FailingAssumption, FailTransactionKeepsLedger
<1>4. ASSUME NEW k \in Keys, NEW last \in BOOLEAN, BeginReprocess(k, last)
      PROVE  LedgerInv'
  BY <1>4, BeginReprocessKeepsLedger
<1>5. ASSUME NEW k \in Keys, FinishWithoutReference(k) PROVE LedgerInv'
  BY <1>5, FinishWithoutReferenceKeepsLedger
<1>6. ASSUME NEW k \in Keys, FinishWithReference(k) PROVE LedgerInv'
  BY <1>6, FinishWithReferenceKeepsLedger
<1>7. ASSUME NEW k \in Keys, AbortReprocess(k) PROVE LedgerInv'
  BY <1>7, AbortReprocessKeepsLedger
<1>8. CASE UNCHANGED vars
  BY <1>8 DEF vars, LedgerInv, TypeOK, RowsHaveWallets, ReadingIsPending,
              Exists, LedgerExplainsBalance, VersionCountsEntries
<1> QED BY <1>1, <1>2, <1>3, <1>4, <1>5, <1>6, <1>7, <1>8 DEF Next

(***************************************************************************)
(* Every reachable state is well typed: no balance ever leaves the range   *)
(* from zero to what the column holds, whatever the wallets, the requests  *)
(* and the workers are.                                                    *)
(***************************************************************************)
THEOREM TypeCorrect == Spec => []TypeOK
<1>1. LedgerInv => TypeOK
  BY DEF LedgerInv
<1> QED BY <1>1, LedgerInvInit, LedgerInvStep, PTL DEF Spec

(***************************************************************************)
(* The balance of every wallet is explained by its ledger, for every set   *)
(* of requests and every interleaving of submissions and reprocessings.    *)
(***************************************************************************)
THEOREM LedgerCorrect == Spec => []LedgerExplainsBalance
<1>1. LedgerInv => LedgerExplainsBalance
  BY DEF LedgerInv
<1> QED BY <1>1, LedgerInvInit, LedgerInvStep, PTL DEF Spec

(***************************************************************************)
(* The version of a wallet is the number of entries of its ledger.         *)
(***************************************************************************)
THEOREM VersionCorrect == Spec => []VersionCountsEntries
<1>1. LedgerInv => VersionCountsEntries
  BY DEF LedgerInv
<1> QED BY <1>1, LedgerInvInit, LedgerInvStep, PTL DEF Spec

-----------------------------------------------------------------------------
(***************************************************************************)
(* Reversals.  The invariant they need: only a reversal is ever pending,   *)
(* and a reprocessing under way holds the row it named, which stays        *)
(* processed once it was read as processed.                                *)
(***************************************************************************)
PendingIsReversal ==
    \A k \in TxIds :
        Exists(k) /\ txs[k].status = "PENDING_REFERENCE" => IsReversal(txs[k].req)

ReadingNamesReference ==
    \A k \in Keys :
        reading[k] # None /\ reading[k].reference # None =>
            /\ reading[k].reference \in WithExternal(txs[k].req.reference)
            /\ reading[k].status = "PROCESSED" =>
                  txs[reading[k].reference].status = "PROCESSED"

\* The row keyed by a wallet is its opening transaction.
OpeningsAreOwn ==
    \A w \in Wallets : Exists(w) => txs[w].req.wallet = w

ReversalInv ==
    /\ OpeningsAreOwn
    /\ PendingIsReversal
    /\ ReadingNamesReference
    /\ ReversedOncePerKind
    /\ ReversalMatchesReference

\* What must hold of reference row ref for a reversal of it to be processed.
MayReverse(req, ref) ==
    /\ ref \in WithExternal(req.reference)
    /\ txs[ref].status = "PROCESSED"
    /\ SameContext(req, txs[ref].req)
    /\ txs[ref].req.amount = req.amount
    /\ ReversalAllowed(req.kind, txs[ref].req.kind)
    /\ ~AlreadyReversed(ref, req.kind)

LEMMA MoveMoneyStatus ==
    ASSUME NEW wallet, NEW req, NEW type, NEW code
    PROVE  MoveMoney(wallet, req, type, code).status
              \in {"PROCESSED", "REJECTED", "ABORTED"}
BY DEF MoveMoney, Processed, Rejected, Aborted

LEMMA DecideReversalStatus ==
    ASSUME NEW wallet, NEW req, NEW reference, NEW reversed \in BOOLEAN
    PROVE  LET d == DecideReversal(wallet, req, reference, reversed)
           IN  /\ d.status \in {"PROCESSED", "REJECTED", "ABORTED"}
               /\ d.status = "PROCESSED" =>
                     /\ reference.status = "PROCESSED"
                     /\ SameContext(req, reference.req)
                     /\ reference.req.amount = req.amount
                     /\ ReversalAllowed(req.kind, reference.req.kind)
                     /\ ~reversed
<1> DEFINE failure == ReversalFailure(req, reference, reversed)
<1>1. CASE failure # None
  BY <1>1 DEF DecideReversal, Rejected
<1>2. CASE failure = None
  <2>1. /\ reference.status = "PROCESSED"
        /\ SameContext(req, reference.req)
        /\ reference.req.amount = req.amount
        /\ ReversalAllowed(req.kind, reference.req.kind)
        /\ ~reversed
    BY <1>2, NoneAssumption DEF ReversalFailure, FailureCodes, ReferenceFailures
  <2>2. DecideReversal(wallet, req, reference, reversed).status
           \in {"PROCESSED", "REJECTED", "ABORTED"}
    BY <1>2, MoveMoneyStatus DEF DecideReversal
  <2> QED BY <2>1, <2>2
<1> QED BY <1>1, <1>2

(***************************************************************************)
(* The one step lemma: a step that writes one row, absent or pending       *)
(* before, and processes a reversal only if it may, keeps the invariant.   *)
(***************************************************************************)
LEMMA RowWriteKeepsReversals ==
    ASSUME LedgerInv, ReversalInv, NEW k \in TxIds,
           Exists(k) => txs[k].status = "PENDING_REFERENCE",
           Exists(k) => txs'[k].req = txs[k].req,
           txs'[k] # None,
           k \in Wallets => txs'[k].req.wallet = k,
           \A t \in TxIds \ {k} : txs'[t] = txs[t],
           txs'[k].status = "PENDING_REFERENCE" => IsReversal(txs'[k].req),
           txs'[k].status = "PROCESSED" /\ IsReversal(txs'[k].req) =>
               MayReverse(txs'[k].req, txs'[k].reference),
           \A t \in Keys : reading'[t] # None => reading'[t] = reading[t]
    PROVE  ReversalInv'
<1>1. \A t \in TxIds : Exists(t) =>
         txs'[t] # None /\ txs'[t].req = txs[t].req
  BY DEF Exists
<1>2. \A t \in TxIds : Exists(t) /\ txs[t].status = "PROCESSED" =>
         t # k /\ txs'[t] = txs[t]
  OBVIOUS
<1>3. PendingIsReversal'
  BY DEF ReversalInv, PendingIsReversal, Exists, IsReversal
<1>4. ReadingNamesReference'
  <2> SUFFICES ASSUME NEW t \in Keys,
                      reading'[t] # None, reading'[t].reference # None
               PROVE  /\ reading'[t].reference \in TxIds
                      /\ txs'[reading'[t].reference] # None
                      /\ txs'[reading'[t].reference].req.external
                            = txs'[t].req.reference
                      /\ reading'[t].status = "PROCESSED" =>
                           txs'[reading'[t].reference].status = "PROCESSED"
    BY DEF ReadingNamesReference, WithExternal, Exists
  <2>1. reading'[t] = reading[t] /\ t \in TxIds
    BY DEF TxIds
  <2>2. /\ reading[t].reference \in WithExternal(txs[t].req.reference)
        /\ reading[t].status = "PROCESSED" =>
              txs[reading[t].reference].status = "PROCESSED"
    BY <2>1 DEF ReversalInv, ReadingNamesReference
  <2>3. txs'[t].req = txs[t].req
    BY <2>1 DEF LedgerInv, ReadingIsPending
  <2>4. reading[t].reference \in TxIds /\ Exists(reading[t].reference)
    BY <2>2 DEF WithExternal
  <2> QED BY <1>1, <1>2, <2>1, <2>2, <2>3, <2>4 DEF WithExternal
<1>5. ReversedOncePerKind'
  <2> SUFFICES ASSUME NEW s \in TxIds, NEW t \in TxIds,
                      txs'[s] # None, txs'[s].status = "PROCESSED",
                      IsReversal(txs'[s].req),
                      txs'[t] # None, txs'[t].status = "PROCESSED",
                      IsReversal(txs'[t].req),
                      txs'[s].reference = txs'[t].reference,
                      txs'[s].req.kind = txs'[t].req.kind,
                      s # t
               PROVE  FALSE
    BY DEF ReversedOncePerKind, Exists, IsReversal
  <2>1. CASE s # k /\ t # k
    BY <2>1 DEF ReversalInv, ReversedOncePerKind, Exists
  <2>2. CASE s = k
    <3>1. txs'[t] = txs[t]
      BY <2>2
    <3>2. ~AlreadyReversed(txs'[k].reference, txs'[k].req.kind)
      BY <2>2 DEF MayReverse
    <3> QED BY <2>2, <3>1, <3>2 DEF AlreadyReversed, Exists
  <2>3. CASE t = k
    <3>1. txs'[s] = txs[s]
      BY <2>3
    <3>2. ~AlreadyReversed(txs'[k].reference, txs'[k].req.kind)
      BY <2>3 DEF MayReverse
    <3> QED BY <2>3, <3>1, <3>2 DEF AlreadyReversed, Exists
  <2> QED BY <2>1, <2>2, <2>3
<1>6. ReversalMatchesReference'
  <2> SUFFICES ASSUME NEW t \in TxIds, txs'[t] # None,
                      txs'[t].status = "PROCESSED", IsReversal(txs'[t].req)
               PROVE  LET reference == txs'[txs'[t].reference]
                      IN  /\ txs'[t].reference \in TxIds
                          /\ reference # None
                          /\ reference.req.external = txs'[t].req.reference
                          /\ reference.status = "PROCESSED"
                          /\ SameContext(txs'[t].req, reference.req)
                          /\ reference.req.amount = txs'[t].req.amount
                          /\ ReversalAllowed(txs'[t].req.kind, reference.req.kind)
    BY DEF ReversalMatchesReference, WithExternal, Exists, IsReversal,
           SameContext, ReversalAllowed
  <2> DEFINE ref == txs'[t].reference
  <2>1. /\ ref \in WithExternal(txs'[t].req.reference)
        /\ txs[ref].status = "PROCESSED"
        /\ SameContext(txs'[t].req, txs[ref].req)
        /\ txs[ref].req.amount = txs'[t].req.amount
        /\ ReversalAllowed(txs'[t].req.kind, txs[ref].req.kind)
    <3>1. CASE t = k
      BY <3>1 DEF MayReverse
    <3>2. CASE t # k
      <4>1. txs'[t] = txs[t] /\ Exists(t)
        BY <3>2 DEF Exists
      <4> QED BY <4>1 DEF ReversalInv, ReversalMatchesReference
    <3> QED BY <3>1, <3>2
  <2>2. ref \in TxIds /\ Exists(ref)
    BY <2>1 DEF WithExternal
  <2>3. txs'[ref] = txs[ref]
    BY <1>2, <2>1, <2>2
  <2> QED BY <1>1, <2>1, <2>2, <2>3 DEF WithExternal
<1>7. OpeningsAreOwn'
  BY DEF ReversalInv, OpeningsAreOwn, Exists, TxIds
<1> QED BY <1>3, <1>4, <1>5, <1>6, <1>7 DEF ReversalInv

LEMMA SaveRow ==
    ASSUME TypeOK, NEW k \in TxIds, NEW req, NEW w, NEW d, NEW reference,
           Save(k, req, w, d, reference)
    PROVE  /\ txs'[k].req = req
           /\ txs'[k].status = d.status
           /\ d.status = "PROCESSED" => txs'[k].reference = reference
BY DEF Save, NextVersion, TypeOK

LEMMA CreateWalletKeepsReversals ==
    ASSUME LedgerInv, ReversalInv, NEW w \in Wallets, NEW p \in Players,
           NEW c \in Currencies, NEW b \in InitialBalances,
           CreateWallet(w, p, c, b)
    PROVE  ReversalInv'
<1> DEFINE row == [req |-> OpeningRequest(w, p, c, b), status |-> "PROCESSED",
                   failure |-> None, reference |-> None, balanceAfter |-> b]
<1>1. /\ txs' = [txs EXCEPT ![w] = row]
      /\ reading' = reading
  BY InitialBalancesAssumption DEF CreateWallet, IsPositive
<1>2. w \in TxIds /\ txs'[w] = row /\ \A t \in TxIds \ {w} : txs'[t] = txs[t]
  BY <1>1 DEF LedgerInv, TypeOK, TxIds
<1>3. txs'[w] # None
  <2>1. b \in 0..MaxBalance
    BY InitialBalancesAssumption
  <2>2. row \in TransactionType
    BY <2>1 DEF TransactionType, OpeningRequest, RequestType, TxIds, Kinds, Statuses
  <2> QED BY <1>2, <2>2, NoneAssumption
<1>4. ~IsReversal(txs'[w].req) /\ txs'[w].status = "PROCESSED"
  BY <1>2 DEF IsReversal, OpeningRequest, ReversalKinds
<1>5. ~Exists(w)
  <2> SUFFICES ASSUME Exists(w) PROVE FALSE
    OBVIOUS
  <2> QED BY DEF CreateWallet, ReversalInv, OpeningsAreOwn, LedgerInv,
                 RowsHaveWallets, TxIds
<1>6. txs'[w].req.wallet = w
  BY <1>2 DEF OpeningRequest
<1> QED BY <1>1, <1>2, <1>3, <1>4, <1>5, <1>6, RowWriteKeepsReversals

LEMMA SubmitKeepsReversals ==
    ASSUME LedgerInv, ReversalInv, NEW r \in Requests, Submit(r)
    PROVE  ReversalInv'
<1>1. /\ r \in RequestType /\ r.wallet \in Wallets
      /\ r.key \in Keys /\ r.key \in TxIds /\ r.key \notin Wallets
      /\ r.kind \in WagerKinds
  BY RequestsTyped, DisjointAssumption
<1>2. /\ wallets[r.wallet] # None
      /\ ~Exists(r.key)
      /\ reading' = reading
  BY DEF Submit, Insertable
<1>3. PICK read \in ReferenceReadings(r) :
         LET d == Decide(wallets[r.wallet], r, RowRead(read),
                         AlreadyReversed(read.reference, r.kind))
         IN  d.status # "ABORTED" /\ Save(r.key, r, r.wallet, d, read.reference)
  BY DEF Submit
<1> DEFINE reversed == AlreadyReversed(read.reference, r.kind)
           d == Decide(wallets[r.wallet], r, RowRead(read), reversed)
<1>4. d.status # "ABORTED" /\ Save(r.key, r, r.wallet, d, read.reference)
  BY <1>3
<1>5. read.reference \in TxIds \cup {None}
  BY DEF ReferenceReadings, CurrentReadings, EarlierReadings, MissingReading,
         Reading, WithExternal
<1>6. wallets[r.wallet] \in WalletType
  BY <1>1, <1>2 DEF LedgerInv, TypeOK
<1>7. SoundDecision(d, wallets[r.wallet], r)
  BY <1>1, <1>6, DecideSound
<1>8. reversed \in BOOLEAN
  BY DEF AlreadyReversed
<1>9. d.status = "PENDING_REFERENCE" => IsReversal(r)
  <2>1. CASE r.kind \in {"BET", "WIN", "LOSS"}
    BY <2>1, MoveMoneyStatus DEF Decide, Processed
  <2>2. CASE r.kind \notin {"BET", "WIN", "LOSS"}
    BY <1>1, <2>2 DEF IsReversal, WagerKinds, ReversalKinds
  <2> QED BY <2>1, <2>2
<1>10. d.status = "PROCESSED" /\ IsReversal(r) => MayReverse(r, read.reference)
  <2> SUFFICES ASSUME d.status = "PROCESSED", IsReversal(r)
               PROVE  MayReverse(r, read.reference)
    OBVIOUS
  <2> DEFINE row == RowRead(read)
  <2>1. r.kind \notin {"BET", "WIN", "LOSS"}
    BY DEF IsReversal, ReversalKinds
  <2>2. row # None
    BY <2>1 DEF Decide, Pending
  <2>3. d = DecideReversal(wallets[r.wallet], r, row, reversed)
    BY <2>1, <2>2 DEF Decide
  <2>4. row = [req |-> txs[read.reference].req, status |-> read.status]
    BY <2>2 DEF RowRead
  <2> HIDE DEF row
  <2>5. /\ row.status = "PROCESSED"
        /\ SameContext(r, row.req)
        /\ row.req.amount = r.amount
        /\ ReversalAllowed(r.kind, row.req.kind)
        /\ ~reversed
    BY <1>8, <2>3, DecideReversalStatus
  <2>6. read.status = "PROCESSED"
    BY <2>4, <2>5
  <2>7. read \in CurrentReadings(r.reference)
    BY <2>2, <2>6 DEF ReferenceReadings, EarlierReadings, IsReversal,
                      MissingReading, Reading, RowRead, row
  <2>8. /\ read.reference \in WithExternal(r.reference)
        /\ txs[read.reference].status = "PROCESSED"
    BY <2>2, <2>6, <2>7
    DEF CurrentReadings, MissingReading, Reading, RowRead, row
  <2> QED BY <2>4, <2>5, <2>8 DEF MayReverse
<1>11. /\ txs'[r.key] # None
       /\ \A t \in TxIds \ {r.key} : txs'[t] = txs[t]
  <2> HIDE DEF d
  <2> QED BY <1>1, <1>2, <1>4, <1>5, <1>7, SaveKeepsTables DEF LedgerInv
<1>12. /\ txs'[r.key].req = r
       /\ txs'[r.key].status = d.status
       /\ d.status = "PROCESSED" => txs'[r.key].reference = read.reference
  <2> HIDE DEF d
  <2> QED BY <1>1, <1>4, SaveRow DEF LedgerInv
<1> HIDE DEF d, reversed
<1> QED BY <1>1, <1>2, <1>9, <1>10, <1>11, <1>12, RowWriteKeepsReversals

LEMMA FailTransactionKeepsReversals ==
    ASSUME LedgerInv, ReversalInv, NEW r \in Requests, FailTransaction(r)
    PROVE  ReversalInv'
<1> DEFINE row == [req |-> r, status |-> "FAILED",
                   failure |-> "PERMANENT_INFRASTRUCTURE_ERROR",
                   reference |-> None, balanceAfter |-> wallets[r.wallet].balance]
<1>1. /\ r \in RequestType /\ r.wallet \in Wallets
      /\ r.key \in Keys /\ r.key \in TxIds /\ r.key \notin Wallets
  BY RequestsTyped, DisjointAssumption
<1>2. wallets[r.wallet] # None /\ ~Exists(r.key)
  BY DEF FailTransaction, Insertable
<1>3. wallets[r.wallet].balance \in 0..MaxBalance
  BY <1>1, <1>2 DEF LedgerInv, TypeOK, WalletType
<1>4. row \in TransactionType
  BY <1>1, <1>3 DEF TransactionType, Statuses, FailureCodes
<1>5. row.status = "FAILED"
  OBVIOUS
<1> HIDE DEF row
<1>6. txs' = [txs EXCEPT ![r.key] = row] /\ reading' = reading
  BY DEF FailTransaction, row
<1>7. /\ txs'[r.key] = row /\ row # None
      /\ \A t \in TxIds \ {r.key} : txs'[t] = txs[t]
  BY <1>1, <1>4, <1>6, NoneAssumption DEF LedgerInv, TypeOK
<1> QED BY <1>1, <1>2, <1>5, <1>6, <1>7, RowWriteKeepsReversals

LEMMA BeginReprocessKeepsReversals ==
    ASSUME LedgerInv, ReversalInv, NEW k \in Keys, NEW last \in BOOLEAN,
           BeginReprocess(k, last)
    PROVE  ReversalInv'
<1>1. PICK read \in CurrentReadings(txs[k].req.reference) :
         reading' = [reading EXCEPT ![k] =
             [reference |-> read.reference, status |-> read.status,
              rejectIfMissing |-> last]]
  BY DEF BeginReprocess
<1>2. UNCHANGED txs
  BY DEF BeginReprocess
<1>3. read.reference # None =>
         /\ read.reference \in WithExternal(txs[k].req.reference)
         /\ read.status = txs[read.reference].status
  BY DEF CurrentReadings, MissingReading, Reading
<1>4. ReadingNamesReference'
  BY <1>1, <1>2, <1>3
  DEF ReversalInv, ReadingNamesReference, LedgerInv, TypeOK, WithExternal, Exists
<1> QED BY <1>2, <1>4
        DEF ReversalInv, OpeningsAreOwn, PendingIsReversal, ReversedOncePerKind,
            ReversalMatchesReference, WithExternal, Exists, IsReversal

LEMMA FinishWithoutReferenceKeepsReversals ==
    ASSUME LedgerInv, ReversalInv, NEW k \in Keys, FinishWithoutReference(k)
    PROVE  ReversalInv'
<1>1. /\ k \in TxIds /\ k \notin Wallets
      /\ Exists(k) /\ txs[k].status = "PENDING_REFERENCE"
      /\ reading' = [reading EXCEPT ![k] = None]
  BY DisjointAssumption
  DEF FinishWithoutReference, LedgerInv, ReadingIsPending, TxIds
<1>2. \A t \in Keys : reading'[t] # None => reading'[t] = reading[t]
  BY <1>1 DEF LedgerInv, TypeOK
<1>3. CASE reading[k].rejectIfMissing
  <2>1. txs' = [txs EXCEPT ![k].status = "REJECTED",
                           ![k].failure = "REFERENCE_NOT_FOUND"]
    BY <1>3 DEF FinishWithoutReference
  <2>2. txs[k] \in TransactionType
    BY <1>1, RowTyped DEF LedgerInv
  <2>3. [txs[k] EXCEPT !.status = "REJECTED", !.failure = "REFERENCE_NOT_FOUND"]
           \in TransactionType
    BY <2>2 DEF TransactionType, Statuses, FailureCodes
  <2>4. /\ txs'[k] # None /\ txs'[k].req = txs[k].req
        /\ txs'[k].status = "REJECTED"
        /\ \A t \in TxIds \ {k} : txs'[t] = txs[t]
    BY <1>1, <2>1, <2>2, <2>3, NoneAssumption
    DEF LedgerInv, TypeOK, TransactionType
  <2> QED BY <1>1, <1>2, <2>4, RowWriteKeepsReversals
<1>4. CASE ~reading[k].rejectIfMissing
  <2>1. UNCHANGED txs
    BY <1>4 DEF FinishWithoutReference
  <2> QED BY <1>2, <2>1
          DEF ReversalInv, OpeningsAreOwn, PendingIsReversal,
              ReadingNamesReference, ReversedOncePerKind,
              ReversalMatchesReference, WithExternal, Exists, IsReversal
<1> QED BY <1>3, <1>4

LEMMA FinishWithReferenceKeepsReversals ==
    ASSUME LedgerInv, ReversalInv, NEW k \in Keys, FinishWithReference(k)
    PROVE  ReversalInv'
<1> DEFINE req == txs[k].req
           ref == reading[k].reference
           row == RowRead(reading[k])
           reversed == AlreadyReversed(ref, req.kind)
           d == DecideReversal(wallets[req.wallet], req, row, reversed)
<1>1. /\ k \in TxIds /\ k \notin Wallets
      /\ Exists(k) /\ txs[k].status = "PENDING_REFERENCE"
      /\ reading[k] # None /\ ref # None
      /\ reading' = [reading EXCEPT ![k] = None]
      /\ d.status # "ABORTED"
      /\ Save(k, req, req.wallet, d, ref)
  BY DisjointAssumption
  DEF FinishWithReference, LedgerInv, ReadingIsPending, TxIds
<1>2. /\ req \in RequestType
      /\ req.wallet \in Wallets
      /\ wallets[req.wallet] # None
  BY <1>1, RowTyped DEF LedgerInv, RowsHaveWallets
<1>3. wallets[req.wallet] \in WalletType
  BY <1>2 DEF LedgerInv, TypeOK
<1>4. ref \in TxIds \cup {None}
  BY <1>1 DEF LedgerInv, TypeOK, ReadingType
<1>5. \A t \in Keys : reading'[t] # None => reading'[t] = reading[t]
  BY <1>1 DEF LedgerInv, TypeOK
<1>6. row = [req |-> txs[ref].req, status |-> reading[k].status]
  BY <1>1 DEF RowRead
<1>7. /\ ref \in WithExternal(req.reference)
      /\ reading[k].status = "PROCESSED" => txs[ref].status = "PROCESSED"
  BY <1>1 DEF ReversalInv, ReadingNamesReference
<1>8. IsReversal(req)
  BY <1>1 DEF ReversalInv, PendingIsReversal
<1>9. reversed \in BOOLEAN
  BY DEF AlreadyReversed
<1> HIDE DEF req, row
<1>10. SoundDecision(d, wallets[req.wallet], req)
  BY <1>2, <1>3, DecideReversalSound
<1>11. /\ d.status \in {"PROCESSED", "REJECTED", "ABORTED"}
       /\ d.status = "PROCESSED" => MayReverse(req, ref)
  BY <1>6, <1>7, <1>9, DecideReversalStatus DEF MayReverse
<1> HIDE DEF d
<1>12. /\ txs'[k] # None /\ txs'[k].req = req /\ txs'[k].status = d.status
       /\ \A t \in TxIds \ {k} : txs'[t] = txs[t]
  BY <1>1, <1>2, <1>4, <1>10, SaveKeepsTables DEF LedgerInv
<1>13. d.status = "PROCESSED" => txs'[k].reference = ref
  BY <1>1, SaveRow DEF LedgerInv
<1>14. req = txs[k].req
  BY DEF req
<1> QED BY <1>1, <1>5, <1>8, <1>11, <1>12, <1>13, <1>14, RowWriteKeepsReversals

LEMMA ReversalInvInit == Init => ReversalInv
BY DisjointAssumption
DEF Init, ReversalInv, OpeningsAreOwn, PendingIsReversal, ReadingNamesReference,
    ReversedOncePerKind, ReversalMatchesReference, Exists, TxIds

LEMMA ReversalInvStep == LedgerInv /\ ReversalInv /\ [Next]_vars => ReversalInv'
<1> SUFFICES ASSUME LedgerInv, ReversalInv, [Next]_vars PROVE ReversalInv'
  OBVIOUS
<1>1. ASSUME NEW w \in Wallets, NEW p \in Players, NEW c \in Currencies,
             NEW b \in InitialBalances, CreateWallet(w, p, c, b)
      PROVE  ReversalInv'
  BY <1>1, CreateWalletKeepsReversals
<1>2. ASSUME NEW r \in Requests, Submit(r) PROVE ReversalInv'
  BY <1>2, SubmitKeepsReversals
<1>3. ASSUME NEW r \in Failing, FailTransaction(r) PROVE ReversalInv'
  BY <1>3, FailingAssumption, FailTransactionKeepsReversals
<1>4. ASSUME NEW k \in Keys, NEW last \in BOOLEAN, BeginReprocess(k, last)
      PROVE  ReversalInv'
  BY <1>4, BeginReprocessKeepsReversals
<1>5. ASSUME NEW k \in Keys, FinishWithoutReference(k) PROVE ReversalInv'
  BY <1>5, FinishWithoutReferenceKeepsReversals
<1>6. ASSUME NEW k \in Keys, FinishWithReference(k) PROVE ReversalInv'
  BY <1>6, FinishWithReferenceKeepsReversals
<1>7. ASSUME NEW k \in Keys, AbortReprocess(k) PROVE ReversalInv'
  BY <1>7
  DEF AbortReprocess, LedgerInv, TypeOK, ReversalInv, OpeningsAreOwn,
      PendingIsReversal, ReadingNamesReference, ReversedOncePerKind,
      ReversalMatchesReference, WithExternal, Exists, IsReversal
<1>8. CASE UNCHANGED vars
  BY <1>8
  DEF vars, ReversalInv, OpeningsAreOwn, PendingIsReversal,
      ReadingNamesReference, ReversedOncePerKind, ReversalMatchesReference,
      WithExternal, Exists, IsReversal
<1> QED BY <1>1, <1>2, <1>3, <1>4, <1>5, <1>6, <1>7, <1>8 DEF Next

(***************************************************************************)
(* No row is ever reversed twice by the same kind of reversal: the check   *)
(* under the wallet lock is enough, the partial unique index of migration  *)
(* 0006 is a second line that never fires.                                 *)
(***************************************************************************)
THEOREM ReversalsCorrect == Spec => []ReversedOncePerKind
<1>1. ReversalInv => ReversedOncePerKind
  BY DEF ReversalInv
<1> QED BY <1>1, LedgerInvInit, LedgerInvStep, ReversalInvInit,
           ReversalInvStep, PTL DEF Spec

(***************************************************************************)
(* Every processed reversal undoes the processed transaction it named, in  *)
(* the same context and for the same amount, although the reprocessing     *)
(* reads that transaction before it takes the wallet's lock.               *)
(***************************************************************************)
THEOREM ReferencesCorrect == Spec => []ReversalMatchesReference
<1>1. ReversalInv => ReversalMatchesReference
  BY DEF ReversalInv
<1> QED BY <1>1, LedgerInvInit, LedgerInvStep, ReversalInvInit,
           ReversalInvStep, PTL DEF Spec

-----------------------------------------------------------------------------
(***************************************************************************)
(* History: rows, ledger and outbox only grow.                             *)
(***************************************************************************)
LEMMA AppendExtends ==
    ASSUME NEW S, NEW s \in Seq(S), NEW e \in S
    PROVE  Extends(Append(s, e), s)
BY AppendProperties DEF Extends

LEMMA ConcatExtends ==
    ASSUME NEW S, NEW s \in Seq(S), NEW t \in Seq(S)
    PROVE  Extends(s \o t, s)
BY ConcatProperties, LenProperties DEF Extends

LEMMA SameExtends == ASSUME NEW S, NEW s \in Seq(S) PROVE Extends(s, s)
BY LenProperties DEF Extends

\* A step that writes at most one row, absent or pending before, and lets the
\* ledger and the outbox grow.
LEMMA RowWriteKeepsHistory ==
    ASSUME NEW k \in TxIds,
           Exists(k) => txs[k].status = "PENDING_REFERENCE",
           Exists(k) => txs'[k].req = txs[k].req,
           \A t \in TxIds \ {k} : txs'[t] = txs[t],
           \A w \in Wallets : Extends(ledger'[w], ledger[w]),
           \A w \in Wallets : Extends(outbox'[w], outbox[w])
    PROVE  HistoryKept
BY DEF HistoryKept, TerminalStatuses

LEMMA SaveKeepsHistory ==
    ASSUME LedgerInv,
           NEW k \in TxIds, NEW req \in RequestType, wallets[req.wallet] # None,
           NEW d, d.status # "ABORTED",
           SoundDecision(d, wallets[req.wallet], req),
           NEW reference \in TxIds \cup {None},
           Save(k, req, req.wallet, d, reference),
           Exists(k) => txs[k].status = "PENDING_REFERENCE",
           Exists(k) => req = txs[k].req
    PROVE  HistoryKept
<1> DEFINE w == req.wallet
           entry == Entry(k, d.type, req.amount, wallets[w].balance)
           outcome == OutcomeEvent(k, d.status)
           change == BalanceEvent(k, entry, wallets[w].version + 1)
<1>1. /\ w \in Wallets
      /\ wallets[w] \in WalletType
  BY DEF RequestType, LedgerInv, TypeOK
<1>2. /\ ledger' \in [Wallets -> Seq(EntryType)]
      /\ txs'[k].req = req
      /\ \A t \in TxIds \ {k} : txs'[t] = txs[t]
  BY <1>1, SaveKeepsTables DEF LedgerInv
<1>3. /\ ledger \in [Wallets -> Seq(EntryType)]
      /\ outbox \in [Wallets -> Seq(EventType)]
      /\ \A v \in Wallets : Extends(ledger[v], ledger[v])
      /\ \A v \in Wallets : Extends(outbox[v], outbox[v])
  BY SameExtends DEF LedgerInv, TypeOK
<1>4. outcome \in EventType
  BY DEF SoundDecision, OutcomeEvent, EventType, OutcomeEventType
<1>5. CASE d.type = None
  <2>1. /\ outbox' = [outbox EXCEPT ![w] = Append(@, outcome)]
        /\ ledger' = ledger
    BY <1>5 DEF Save, NextVersion
  <2>2. Extends(Append(outbox[w], outcome), outbox[w])
    BY <1>1, <1>3, <1>4, AppendExtends
  <2> HIDE DEF w, outcome
  <2>3. \A v \in Wallets : Extends(outbox'[v], outbox[v])
    BY <1>1, <1>3, <2>1, <2>2
  <2> QED BY <1>2, <1>3, <2>1, <2>3, RowWriteKeepsHistory
<1>6. CASE d.type # None
  <2>1. d.type \in EntryTypes
    BY <1>6 DEF SoundDecision
  <2>2. entry \in EntryType
    BY <1>1, <2>1
    DEF Entry, EntryType, WalletType, RequestType, SoundDecision, BalanceAfter,
        EntryTypes
  <2>3. change \in EventType
    BY <1>1, <2>2 DEF BalanceEvent, EventType, BalanceEventType, WalletType
  <2>4. /\ outbox' = [outbox EXCEPT ![w] = @ \o <<outcome, change>>]
        /\ ledger' = [ledger EXCEPT ![w] = Append(@, entry)]
    BY <1>6 DEF Save, NextVersion
  <2> HIDE DEF w, entry, outcome, change
  <2>5. <<outcome, change>> \in Seq(EventType)
    BY <1>4, <2>3
  <2>6. Extends(outbox[w] \o <<outcome, change>>, outbox[w])
    BY <1>1, <1>3, <2>5, ConcatExtends
  <2>7. Extends(Append(ledger[w], entry), ledger[w])
    BY <1>1, <1>3, <2>2, AppendExtends
  <2>8. \A v \in Wallets : Extends(outbox'[v], outbox[v])
    BY <1>1, <1>3, <2>4, <2>6
  <2>9. \A v \in Wallets : Extends(ledger'[v], ledger[v])
    BY <1>1, <1>3, <2>4, <2>7
  <2> QED BY <1>2, <2>8, <2>9, RowWriteKeepsHistory
<1> QED BY <1>5, <1>6

LEMMA CreateWalletKeepsHistory ==
    ASSUME LedgerInv, ReversalInv, NEW w \in Wallets, NEW p \in Players,
           NEW c \in Currencies, NEW b \in InitialBalances,
           CreateWallet(w, p, c, b)
    PROVE  HistoryKept
<1> DEFINE entry == Entry(w, "CREDIT", b, 0)
           outcome == OutcomeEvent(w, "PROCESSED")
           change == BalanceEvent(w, entry, 1)
<1>1. b \in 0..MaxBalance /\ w \in TxIds
  BY InitialBalancesAssumption DEF TxIds
<1>2. /\ entry \in EntryType /\ outcome \in EventType /\ change \in EventType
  BY <1>1 DEF Entry, EntryType, EntryTypes, BalanceAfter, OutcomeEvent,
              BalanceEvent, EventType, OutcomeEventType, BalanceEventType, Statuses
<1>3. /\ wallets[w] = None
      /\ \E row : txs' = [txs EXCEPT ![w] = row]
      /\ outbox' = [outbox EXCEPT ![w] = @ \o <<outcome, change>>]
      /\ ledger' = [ledger EXCEPT ![w] = Append(@, entry)]
  BY <1>1 DEF CreateWallet, IsPositive
<1>4. ~Exists(w)
  BY <1>1, <1>3 DEF ReversalInv, OpeningsAreOwn, LedgerInv, RowsHaveWallets
<1> HIDE DEF entry, outcome, change
<1>5. /\ ledger \in [Wallets -> Seq(EntryType)]
      /\ outbox \in [Wallets -> Seq(EventType)]
      /\ \A v \in Wallets : Extends(ledger[v], ledger[v])
      /\ \A v \in Wallets : Extends(outbox[v], outbox[v])
  BY SameExtends DEF LedgerInv, TypeOK
<1>6. <<outcome, change>> \in Seq(EventType)
  BY <1>2
<1>7. Extends(outbox[w] \o <<outcome, change>>, outbox[w])
  BY <1>5, <1>6, ConcatExtends
<1>8. Extends(Append(ledger[w], entry), ledger[w])
  BY <1>2, <1>5, AppendExtends
<1>9. /\ \A v \in Wallets : Extends(outbox'[v], outbox[v])
      /\ \A v \in Wallets : Extends(ledger'[v], ledger[v])
  BY <1>3, <1>5, <1>7, <1>8
<1>10. \A t \in TxIds \ {w} : txs'[t] = txs[t]
  BY <1>3 DEF LedgerInv, TypeOK
<1> QED BY <1>1, <1>4, <1>9, <1>10, RowWriteKeepsHistory

LEMMA SubmitKeepsHistory ==
    ASSUME LedgerInv, NEW r \in Requests, Submit(r)
    PROVE  HistoryKept
<1>1. r \in RequestType /\ r.key \in TxIds /\ r.wallet \in Wallets
  BY RequestsTyped
<1>2. wallets[r.wallet] # None /\ ~Exists(r.key)
  BY DEF Submit, Insertable
<1>3. PICK read \in ReferenceReadings(r) :
         LET d == Decide(wallets[r.wallet], r, RowRead(read),
                         AlreadyReversed(read.reference, r.kind))
         IN  d.status # "ABORTED" /\ Save(r.key, r, r.wallet, d, read.reference)
  BY DEF Submit
<1> DEFINE d == Decide(wallets[r.wallet], r, RowRead(read),
                       AlreadyReversed(read.reference, r.kind))
<1>4. read.reference \in TxIds \cup {None}
  BY DEF ReferenceReadings, CurrentReadings, EarlierReadings, MissingReading,
         Reading, WithExternal
<1>5. wallets[r.wallet] \in WalletType
  BY <1>1, <1>2 DEF LedgerInv, TypeOK
<1>6. SoundDecision(d, wallets[r.wallet], r)
  BY <1>1, <1>5, DecideSound
<1>7. d.status # "ABORTED" /\ Save(r.key, r, r.wallet, d, read.reference)
  BY <1>3
<1> HIDE DEF d
<1> QED BY <1>1, <1>2, <1>4, <1>6, <1>7, SaveKeepsHistory

LEMMA ReprocessKeepsHistory ==
    ASSUME LedgerInv, NEW k \in Keys,
           FinishWithReference(k) \/ FinishWithoutReference(k)
    PROVE  HistoryKept
<1>1. /\ k \in TxIds /\ Exists(k) /\ txs[k].status = "PENDING_REFERENCE"
      /\ reading[k] # None
  BY DEF FinishWithReference, FinishWithoutReference, LedgerInv,
         ReadingIsPending, TxIds
<1>2. /\ txs[k] \in TransactionType
      /\ txs[k].req \in RequestType
      /\ txs[k].req.wallet \in Wallets
      /\ wallets[txs[k].req.wallet] # None
  BY <1>1, RowTyped DEF LedgerInv, RowsHaveWallets
<1>3. /\ ledger \in [Wallets -> Seq(EntryType)]
      /\ outbox \in [Wallets -> Seq(EventType)]
      /\ \A v \in Wallets : Extends(ledger[v], ledger[v])
      /\ \A v \in Wallets : Extends(outbox[v], outbox[v])
  BY SameExtends DEF LedgerInv, TypeOK
<1>4. CASE FinishWithReference(k)
  <2> DEFINE req == txs[k].req
             d == DecideReversal(wallets[req.wallet], req, RowRead(reading[k]),
                                 AlreadyReversed(reading[k].reference, req.kind))
  <2>1. d.status # "ABORTED" /\ Save(k, req, req.wallet, d, reading[k].reference)
    BY <1>4 DEF FinishWithReference
  <2>2. reading[k].reference \in TxIds \cup {None}
    BY <1>1 DEF LedgerInv, TypeOK, ReadingType
  <2>3. wallets[req.wallet] \in WalletType
    BY <1>2 DEF LedgerInv, TypeOK
  <2>4. SoundDecision(d, wallets[req.wallet], req)
    BY <1>2, <2>3, DecideReversalSound
  <2> HIDE DEF d
  <2> QED BY <1>1, <1>2, <2>1, <2>2, <2>4, SaveKeepsHistory
<1>5. CASE FinishWithoutReference(k)
  <2>1. ledger' = ledger
    BY <1>5 DEF FinishWithoutReference
  <2>2. CASE ~reading[k].rejectIfMissing
    BY <1>3, <1>5, <2>1, <2>2 DEF FinishWithoutReference, HistoryKept
  <2>3. CASE reading[k].rejectIfMissing
    <3>1. /\ txs' = [txs EXCEPT ![k].status = "REJECTED",
                                ![k].failure = "REFERENCE_NOT_FOUND"]
          /\ outbox' = [outbox EXCEPT ![txs[k].req.wallet] =
                           Append(@, OutcomeEvent(k, "REJECTED"))]
      BY <1>5, <2>3 DEF FinishWithoutReference
    <3>2. /\ txs'[k].req = txs[k].req
          /\ \A t \in TxIds \ {k} : txs'[t] = txs[t]
      BY <1>1, <1>2, <3>1 DEF LedgerInv, TypeOK, TransactionType
    <3>3. OutcomeEvent(k, "REJECTED") \in EventType
      BY <1>1 DEF OutcomeEvent, EventType, OutcomeEventType, Statuses
    <3>4. \A v \in Wallets : Extends(outbox'[v], outbox[v])
      BY <1>2, <1>3, <3>1, <3>3, AppendExtends
    <3> QED BY SMTT(30), <1>1, <1>3, <2>1, <3>2, <3>4, RowWriteKeepsHistory
  <2> QED BY SMTT(30), <2>2, <2>3
<1> QED BY <1>4, <1>5

LEMMA HistoryStep ==
    LedgerInv /\ ReversalInv /\ [Next]_vars => [HistoryKept]_vars
<1> SUFFICES ASSUME LedgerInv, ReversalInv, Next PROVE HistoryKept
  OBVIOUS
<1>1. /\ \A v \in Wallets : Extends(ledger[v], ledger[v])
      /\ \A v \in Wallets : Extends(outbox[v], outbox[v])
  BY SameExtends DEF LedgerInv, TypeOK
<1>2. ASSUME NEW w \in Wallets, NEW p \in Players, NEW c \in Currencies,
             NEW b \in InitialBalances, CreateWallet(w, p, c, b)
      PROVE  HistoryKept
  BY <1>2, CreateWalletKeepsHistory
<1>3. ASSUME NEW r \in Requests, Submit(r) PROVE HistoryKept
  BY <1>3, SubmitKeepsHistory
<1>4. ASSUME NEW r \in Failing, FailTransaction(r) PROVE HistoryKept
  <2>1. r.key \in TxIds /\ ~Exists(r.key) /\ UNCHANGED <<ledger, outbox>>
    BY <1>4, FailingAssumption, RequestsTyped DEF FailTransaction, Insertable
  <2>2. \A t \in TxIds \ {r.key} : txs'[t] = txs[t]
    BY <1>4, <2>1 DEF FailTransaction, LedgerInv, TypeOK
  <2> QED BY <1>1, <2>1, <2>2, RowWriteKeepsHistory
<1>5. ASSUME NEW k \in Keys,
             FinishWithReference(k) \/ FinishWithoutReference(k)
      PROVE  HistoryKept
  BY <1>5, ReprocessKeepsHistory
<1>6. ASSUME UNCHANGED <<wallets, txs, ledger, outbox>> PROVE HistoryKept
  BY <1>1, <1>6 DEF HistoryKept
<1> QED BY <1>2, <1>3, <1>4, <1>5, <1>6
        DEF Next, BeginReprocess, AbortReprocess

(***************************************************************************)
(* No step changes a terminal row, the request of a row, or what the       *)
(* ledger and the outbox already hold.                                     *)
(***************************************************************************)
THEOREM HistoryCorrect == Spec => HistoryIsImmutable
BY LedgerInvInit, LedgerInvStep, ReversalInvInit, ReversalInvStep,
   HistoryStep, PTL DEF Spec, HistoryIsImmutable
=============================================================================
