-------------------------- MODULE EffectOnceProofs --------------------------
(***************************************************************************)
(* Proof that a wager takes effect once, for any number of wallets, wagers *)
(* and workers.  It rests on the invariants of WageringTransactionsProofs: *)
(* a reversal's direction follows from its reference, which they keep.     *)
(***************************************************************************)
EXTENDS WageringTransactionsProofs

-----------------------------------------------------------------------------
(***************************************************************************)
(* What a decision moves: nothing unless it is PROCESSED, and then in the  *)
(* direction the kind of the wager, or of its reference, asks for.         *)
(***************************************************************************)
MovesOnly(d, type) == d.type = IF d.status = "PROCESSED" THEN type ELSE None

LEMMA MoveMoneyMoves ==
    ASSUME NEW wallet, NEW req, NEW type, NEW code
    PROVE  MovesOnly(MoveMoney(wallet, req, type, code), type)
BY DEF MovesOnly, MoveMoney, Processed, Rejected, Aborted

LEMMA DecideReversalMoves ==
    ASSUME NEW wallet, NEW req, NEW reference, NEW reversed
    PROVE  MovesOnly(DecideReversal(wallet, req, reference, reversed),
                     ReversalLedgerType(req.kind, reference.req.kind))
<1> DEFINE failure == ReversalFailure(req, reference, reversed)
           type == ReversalLedgerType(req.kind, reference.req.kind)
<1>1. CASE failure # None
  BY <1>1 DEF DecideReversal, Rejected, MovesOnly
<1>2. CASE failure = None
  <2>1. DecideReversal(wallet, req, reference, reversed)
          = MoveMoney(wallet, req, type, "REVERSAL_WOULD_CAUSE_NEGATIVE_BALANCE")
    BY <1>2 DEF DecideReversal
  <2> HIDE DEF type
  <2>2. MovesOnly(DecideReversal(wallet, req, reference, reversed), type)
    BY <2>1, MoveMoneyMoves
  <2> QED BY <2>2 DEF type
<1> QED BY <1>1, <1>2

\* The type of the entry a submission of req may lead to.
TypeFor(req, reference) ==
    IF req.kind = "BET" THEN "DEBIT"
    ELSE IF req.kind = "WIN" THEN "CREDIT"
    ELSE IF req.kind = "LOSS" THEN None
    ELSE ReversalLedgerType(req.kind, reference.req.kind)

LEMMA DecideMoves ==
    ASSUME NEW wallet, NEW req, NEW reference, NEW reversed
    PROVE  MovesOnly(Decide(wallet, req, reference, reversed),
                     TypeFor(req, reference))
<1>1. CASE req.kind = "BET"
  BY <1>1, MoveMoneyMoves DEF Decide, TypeFor
<1>2. CASE req.kind = "WIN"
  BY <1>2, MoveMoneyMoves DEF Decide, TypeFor
<1>3. CASE req.kind = "LOSS"
  BY <1>3 DEF Decide, TypeFor, Processed, MovesOnly
<1>4. CASE req.kind \notin {"BET", "WIN", "LOSS"} /\ reference = None
  BY <1>4 DEF Decide, Pending, MovesOnly
<1>5. CASE req.kind \notin {"BET", "WIN", "LOSS"} /\ reference # None
  BY <1>5, DecideReversalMoves DEF Decide, TypeFor
<1> QED BY <1>1, <1>2, <1>3, <1>4, <1>5

-----------------------------------------------------------------------------
\* A step that writes row k, absent or pending before, and no other row.
WritesRow(k) ==
    /\ Exists(k) => /\ txs[k].status = "PENDING_REFERENCE"
                    /\ txs'[k].req = txs[k].req
    /\ \A t \in TxIds \ {k} : txs'[t] = txs[t]

\* The direction of a wager that moved money does not change.
LEMMA DirectionStays ==
    ASSUME LedgerInv, ReversalInv, NEW k \in TxIds, WritesRow(k),
           NEW t \in TxIds \ {k}, MovesMoney(t)
    PROVE  DirectionOf(t)' = DirectionOf(t)
<1>1. txs'[t] = txs[t]
  BY DEF WritesRow
<1>2. CASE txs[t].req.kind \in {"BET", "WIN", "OPENING"}
  BY <1>1, <1>2 DEF DirectionOf
<1>3. CASE txs[t].req.kind \notin {"BET", "WIN", "OPENING"}
  <2>1. txs[t].req.kind \in Kinds
    BY RowTyped DEF MovesMoney, LedgerInv, RequestType
  <2>2. IsReversal(txs[t].req)
    BY <1>3, <2>1 DEF MovesMoney, IsReversal, Kinds, WagerKinds, ReversalKinds
  <2>3. txs[t].reference \in TxIds /\ Exists(txs[t].reference)
    BY <2>2 DEF ReversalInv, ReversalMatchesReference, MovesMoney, WithExternal
  <2>4. txs'[txs[t].reference].req = txs[txs[t].reference].req
    BY <2>3 DEF WritesRow
  <2> QED BY <1>1, <2>4 DEF DirectionOf
<1> QED BY <1>2, <1>3

(***************************************************************************)
(* The one step lemma: a step that writes a row and, exactly if the row    *)
(* moves money, its one entry in its wallet's ledger.                      *)
(***************************************************************************)
LEMMA RowWriteKeepsEffect ==
    ASSUME LedgerInv, ReversalInv, EffectOnce,
           NEW k \in TxIds, WritesRow(k),
           NEW w \in Wallets, txs'[k].req.wallet = w,
           \/ ~MovesMoney(k)' /\ ledger' = ledger
           \/ /\ MovesMoney(k)'
              /\ \E e \in EntryType :
                    /\ EntryFor(e, k)'
                    /\ ledger' = [ledger EXCEPT ![w] = Append(@, e)]
    PROVE  EffectOnce'
<1>1. ledger \in [Wallets -> Seq(EntryType)]
  BY DEF LedgerInv, TypeOK
<1>2. \A t \in TxIds \ {k} :
         /\ txs'[t] = txs[t]
         /\ MovesMoney(t)' <=> MovesMoney(t)
         /\ MovesMoney(t) => DirectionOf(t)' = DirectionOf(t)
  BY DirectionStays DEF WritesRow, MovesMoney, Exists
<1>3. ~MovesMoney(k)
  BY DEF WritesRow, MovesMoney
<1>4. \A v \in Wallets : \A i \in DOMAIN ledger[v] :
         /\ ledger[v][i].tx \in TxIds \ {k}
         /\ MovesMoney(ledger[v][i].tx)
         /\ txs[ledger[v][i].tx].req.wallet = v
  <2>1. \A v \in Wallets : \A i \in DOMAIN ledger[v] : ledger[v][i] \in EntryType
    BY SMTT(30), <1>1, LenProperties, ElementOfSeq
  <2> QED BY <1>3, <2>1 DEF EffectOnce, EntryType
\* The entries of the other wagers are where they were.
<1>5. ASSUME NEW t \in TxIds \ {k}, MovesMoney(t)',
             \A v \in Wallets : \A i \in DOMAIN ledger[v] :
                i \in DOMAIN ledger'[v] /\ ledger'[v][i] = ledger[v][i]
      PROVE  \E i \in DOMAIN ledger'[txs'[t].req.wallet] :
                /\ ledger'[txs'[t].req.wallet][i].tx = t
                /\ ledger'[txs'[t].req.wallet][i].amount = txs'[t].req.amount
                /\ ledger'[txs'[t].req.wallet][i].type = DirectionOf(t)'
  <2>1. MovesMoney(t) /\ txs'[t] = txs[t] /\ DirectionOf(t)' = DirectionOf(t)
    BY <1>2, <1>5
  <2>2. txs[t].req.wallet \in Wallets
    BY <2>1, RowTyped DEF MovesMoney, LedgerInv
  <2>3. PICK i \in DOMAIN ledger[txs[t].req.wallet] :
           EntryFor(ledger[txs[t].req.wallet][i], t)
    BY <2>1 DEF EffectOnce
  <2> QED BY <1>5, <2>1, <2>2, <2>3 DEF EntryFor
<1>6. CASE ~MovesMoney(k)' /\ ledger' = ledger
  <2>1. ASSUME NEW t \in TxIds, MovesMoney(t)'
        PROVE  \E i \in DOMAIN ledger'[txs'[t].req.wallet] :
                  EntryFor(ledger[txs[t].req.wallet][i], t)'
    BY <1>5, <1>6, <2>1 DEF EntryFor
  <2> QED BY <1>2, <1>4, <1>6, <2>1 DEF EffectOnce
<1>7. CASE /\ MovesMoney(k)'
           /\ \E e \in EntryType :
                 EntryFor(e, k)' /\ ledger' = [ledger EXCEPT ![w] = Append(@, e)]
  <2>1. PICK e \in EntryType :
           EntryFor(e, k)' /\ ledger' = [ledger EXCEPT ![w] = Append(@, e)]
    BY <1>7
  <2>2. /\ e.tx = k
        /\ e.amount = txs'[k].req.amount
        /\ e.type = DirectionOf(k)'
    BY <2>1 DEF EntryFor
  <2>3. ledger'[w] = Append(ledger[w], e) /\ \A v \in Wallets \ {w} : ledger'[v] = ledger[v]
    BY <1>1, <2>1
  <2>4. PICK n \in Nat : /\ DOMAIN ledger[w] = 1..n
                         /\ DOMAIN ledger'[w] = 1..(n + 1)
                         /\ ledger'[w][n + 1] = e
                         /\ \A i \in 1..n : ledger'[w][i] = ledger[w][i]
    <3>1. ledger[w] \in Seq(EntryType)
      BY <1>1
    <3>2. Len(ledger[w]) \in Nat /\ DOMAIN ledger[w] = 1..Len(ledger[w])
      BY <3>1, LenProperties
    <3>3. /\ Append(ledger[w], e) \in Seq(EntryType)
          /\ Len(Append(ledger[w], e)) = Len(ledger[w]) + 1
          /\ \A i \in 1..Len(ledger[w]) : Append(ledger[w], e)[i] = ledger[w][i]
          /\ Append(ledger[w], e)[Len(ledger[w]) + 1] = e
      BY <3>1, AppendProperties
    <3>4. DOMAIN Append(ledger[w], e) = 1..(Len(ledger[w]) + 1)
      BY <3>3, LenProperties
    <3> QED BY <2>3, <3>2, <3>3, <3>4
  <2>5. ASSUME NEW v \in Wallets
        PROVE  \A i \in DOMAIN ledger[v] :
                  i \in DOMAIN ledger'[v] /\ ledger'[v][i] = ledger[v][i]
    BY <2>3, <2>4
  <2>6. ASSUME NEW v \in Wallets, NEW i \in DOMAIN ledger'[v]
        PROVE  \/ v = w /\ i = n + 1 /\ ledger'[v][i].tx = k
               \/ /\ i \in DOMAIN ledger[v] /\ ledger'[v][i] = ledger[v][i]
                  /\ ledger'[v][i].tx \in TxIds \ {k}
    <3>1. CASE v = w /\ i = n + 1
      BY <2>2, <2>4, <3>1
    <3>2. CASE ~(v = w /\ i = n + 1)
      <4>1. i \in DOMAIN ledger[v] /\ ledger'[v][i] = ledger[v][i]
        BY <2>3, <2>4, <2>6, <3>2
      <4> QED BY <1>4, <4>1
    <3> QED BY <3>1, <3>2
  <2>7. ASSUME NEW t \in TxIds, MovesMoney(t)'
        PROVE  \E i \in DOMAIN ledger'[txs'[t].req.wallet] :
                  /\ ledger'[txs'[t].req.wallet][i].tx = t
                  /\ ledger'[txs'[t].req.wallet][i].amount = txs'[t].req.amount
                  /\ ledger'[txs'[t].req.wallet][i].type = DirectionOf(t)'
    <3>1. CASE t = k
      <4>1. n + 1 \in DOMAIN ledger'[w]
        BY <2>4
      <4> QED BY <2>2, <2>4, <3>1, <4>1
    <3>2. CASE t # k
      BY <1>5, <2>5, <2>7, <3>2
    <3> QED BY <3>1, <3>2
  <2>8. ASSUME NEW v \in Wallets, NEW i \in DOMAIN ledger'[v]
        PROVE  /\ MovesMoney(ledger[v][i].tx)'
               /\ txs'[ledger'[v][i].tx].req.wallet = v
    <3>1. CASE v = w /\ i = n + 1 /\ ledger'[v][i].tx = k
      BY <1>7, <3>1
    <3>2. CASE /\ i \in DOMAIN ledger[v] /\ ledger'[v][i] = ledger[v][i]
               /\ ledger'[v][i].tx \in TxIds \ {k}
      <4>1. MovesMoney(ledger[v][i].tx) /\ txs[ledger[v][i].tx].req.wallet = v
        BY <1>4, <3>2
      <4>2. PICK t \in TxIds \ {k} : ledger[v][i].tx = t
        BY <1>4, <3>2
      <4>3. MovesMoney(t)' /\ txs'[t].req.wallet = v
        BY <1>2, <4>1, <4>2
      <4> QED BY <3>2, <4>2, <4>3
    <3> QED BY <2>6, <3>1, <3>2
  <2>9. ASSUME NEW v \in Wallets, NEW i \in DOMAIN ledger'[v],
               NEW j \in DOMAIN ledger'[v], ledger'[v][i].tx = ledger'[v][j].tx
        PROVE  i = j
    BY <2>6, <2>9 DEF EffectOnce
  <2>10. ASSUME NEW t \in TxIds, MovesMoney(t)'
         PROVE  \E i \in DOMAIN ledger'[txs'[t].req.wallet] :
                   EntryFor(ledger[txs[t].req.wallet][i], t)'
    BY <2>7, <2>10 DEF EntryFor
  <2> QED BY <2>8, <2>9, <2>10 DEF EffectOnce
<1> QED BY <1>6, <1>7

\* A step that writes neither rows nor the ledger.
LEMMA SameKeepsEffect ==
    ASSUME EffectOnce, UNCHANGED <<txs, ledger>>
    PROVE  EffectOnce'
BY DEF EffectOnce, MovesMoney, Exists, EntryFor, DirectionOf

LEMMA EntryTyped ==
    ASSUME NEW k \in TxIds, NEW type \in EntryTypes, NEW amount \in 0..MaxBalance,
           NEW before \in 0..MaxBalance, NEW after \in 0..MaxBalance
    PROVE  [tx |-> k, type |-> type, amount |-> amount, before |-> before,
            after |-> after] \in EntryType
BY DEF EntryType

\* The opening entry is the one of the wallet's opening transaction.
LEMMA CreateWalletKeepsEffect ==
    ASSUME LedgerInv, ReversalInv, EffectOnce,
           NEW w \in Wallets, NEW p \in Players, NEW c \in Currencies,
           NEW b \in InitialBalances, CreateWallet(w, p, c, b)
    PROVE  EffectOnce'
<1> DEFINE entry == Entry(w, "CREDIT", b, 0)
           row == [req |-> OpeningRequest(w, p, c, b), status |-> "PROCESSED",
                   failure |-> None, reference |-> None, balanceAfter |-> b]
<1>1. b \in 0..MaxBalance /\ w \in TxIds
  BY InitialBalancesAssumption DEF TxIds
<1>2. /\ wallets[w] = None
      /\ txs' = [txs EXCEPT ![w] = row]
      /\ ledger' = [ledger EXCEPT ![w] = Append(@, entry)]
  BY <1>1 DEF CreateWallet, IsPositive
<1>3. ~Exists(w)
  BY <1>1, <1>2 DEF ReversalInv, OpeningsAreOwn, LedgerInv, RowsHaveWallets
<1>4. txs'[w] = row /\ \A t \in TxIds \ {w} : txs'[t] = txs[t]
  BY <1>1, <1>2 DEF LedgerInv, TypeOK
<1>5. /\ txs'[w].req = OpeningRequest(w, p, c, b)
      /\ txs'[w].status = "PROCESSED"
  BY <1>4
<1>6. /\ txs'[w].req.kind = "OPENING"
      /\ txs'[w].req.amount = b
      /\ txs'[w].req.wallet = w
  BY <1>5 DEF OpeningRequest
<1>7. txs'[w] # None
  <2>1. LedgerInv'
    BY LedgerInvStep DEF Next
  <2>2. None \notin TransactionType
    BY NoneAssumption
  <2>3. row \in TransactionType
    <3>1. /\ OpeningRequest(w, p, c, b) \in RequestType
      BY <1>1 DEF OpeningRequest, RequestType, Kinds
    <3> QED BY <1>1, <3>1 DEF TransactionType, Statuses
  <2> HIDE DEF row
  <2> QED BY <1>4, <2>2, <2>3
<1>8. entry \in EntryType /\ EntryFor(entry, w)'
  <2>1. entry = [tx |-> w, type |-> "CREDIT", amount |-> b, before |-> 0, after |-> b]
    BY <1>1 DEF Entry, BalanceAfter
  <2>2. DirectionOf(w)' = "CREDIT"
    BY <1>6 DEF DirectionOf
  <2>3. \E e \in EntryType : e = entry
    BY <1>1, <2>1, MaxBalanceAssumption DEF EntryType, EntryTypes
  <2> HIDE DEF entry
  <2> QED BY <1>6, <2>1, <2>2, <2>3 DEF EntryFor
<1>9. MovesMoney(w)'
  BY <1>5, <1>6, <1>7 DEF MovesMoney, Exists
<1>10. WritesRow(w)
  BY <1>3, <1>4 DEF WritesRow
<1> HIDE DEF entry, row
<1> QED BY <1>1, <1>2, <1>6, <1>8, <1>9, <1>10, RowWriteKeepsEffect

(***************************************************************************)
(* What Save does with a decision that moves only what the direction of    *)
(* its row asks for.                                                       *)
(***************************************************************************)
LEMMA SaveKeepsEffect ==
    ASSUME LedgerInv, ReversalInv, EffectOnce,
           NEW k \in TxIds, NEW req \in RequestType, wallets[req.wallet] # None,
           Exists(k) => txs[k].status = "PENDING_REFERENCE" /\ txs[k].req = req,
           NEW d, d.status # "ABORTED", SoundDecision(d, wallets[req.wallet], req),
           NEW reference \in TxIds \cup {None},
           Save(k, req, req.wallet, d, reference),
           NEW type \in EntryTypes \cup {None}, MovesOnly(d, type),
           d.status = "PROCESSED" =>
               IF req.kind = "LOSS" THEN type = None
               ELSE type = DirectionOf(k)' /\ type # None
    PROVE  EffectOnce'
<1> DEFINE w == req.wallet
           entry == Entry(k, d.type, req.amount, wallets[w].balance)
<1>1. w \in Wallets /\ wallets[w] \in WalletType
  BY DEF RequestType, LedgerInv, TypeOK
<1>2. /\ txs'[k] # None /\ txs'[k].req = req /\ txs'[k].status = d.status
      /\ \A t \in TxIds \ {k} : txs'[t] = txs[t]
  BY <1>1, SaveKeepsTables DEF LedgerInv
<1>3. WritesRow(k) /\ txs'[k].req.wallet = w
  BY <1>2 DEF WritesRow
<1>4. ledger' = IF d.type # None THEN [ledger EXCEPT ![w] = Append(@, entry)]
                                 ELSE ledger
  BY DEF Save
<1>5. MovesMoney(k)' <=> (d.status = "PROCESSED" /\ req.kind # "LOSS")
  BY <1>2 DEF MovesMoney, Exists
<1>6. MovesMoney(k)' <=> d.type # None
  BY <1>5, NoneAssumption DEF MovesOnly
<1>7. CASE d.type = None
  BY <1>1, <1>3, <1>4, <1>6, <1>7, RowWriteKeepsEffect
<1>8. CASE d.type # None
  <2>1. d.type = type /\ type = DirectionOf(k)' /\ type \in EntryTypes
    BY <1>5, <1>6, <1>8 DEF MovesOnly
  <2>2. /\ wallets[w].balance \in 0..MaxBalance
        /\ req.amount \in 0..MaxBalance
        /\ d.type = "DEBIT" => req.amount <= wallets[w].balance
        /\ d.type = "CREDIT" => wallets[w].balance + req.amount <= MaxBalance
    BY <1>1 DEF WalletType, RequestType, SoundDecision
  <2>3. entry \in EntryType
    <3> DEFINE before == wallets[w].balance
               after == BalanceAfter(d.type, before, req.amount)
    <3>1. d.type \in {"DEBIT", "CREDIT"}
      BY <2>1 DEF EntryTypes
    <3>2. after \in 0..MaxBalance
      BY <2>2, <3>1, MaxBalanceAssumption DEF BalanceAfter
    <3>3. entry = [tx |-> k, type |-> d.type, amount |-> req.amount,
                   before |-> before, after |-> after]
      BY DEF Entry
    <3> HIDE DEF after, before, entry
    <3>4. before \in 0..MaxBalance
      BY <2>2 DEF before
    <3>5. d.type \in EntryTypes /\ req.amount \in 0..MaxBalance
      BY <2>1, <2>2
    <3> QED BY <3>2, <3>3, <3>4, <3>5, EntryTyped
  <2>4. entry.tx = k /\ entry.amount = req.amount /\ entry.type = d.type
    BY DEF Entry
  <2> HIDE DEF entry
  <2>5. PICK e \in EntryType : e = entry
    BY <2>3
  <2>6. EntryFor(e, k)'
    BY <1>2, <2>1, <2>4, <2>5 DEF EntryFor
  <2>7. ledger' = [ledger EXCEPT ![w] = Append(@, e)]
    BY <1>4, <1>8, <2>5
  <2> QED BY <1>1, <1>3, <1>6, <1>8, <2>6, <2>7, RowWriteKeepsEffect
<1> QED BY <1>7, <1>8

\* The rows a submission reads as its reference are there.
LEMMA SubmitKeepsEffect ==
    ASSUME LedgerInv, ReversalInv, EffectOnce, NEW r \in Requests, Submit(r)
    PROVE  EffectOnce'
<1>1. /\ r \in RequestType /\ r.wallet \in Wallets
      /\ r.key \in Keys /\ r.key \in TxIds
      /\ r.kind \in WagerKinds
  BY RequestsTyped
<1>2. wallets[r.wallet] # None /\ ~Exists(r.key)
  BY DEF Submit, Insertable
<1>3. PICK read \in ReferenceReadings(r) :
         LET d == Decide(wallets[r.wallet], r, RowRead(read),
                         AlreadyReversed(read.reference, r.kind))
         IN  d.status # "ABORTED" /\ Save(r.key, r, r.wallet, d, read.reference)
  BY DEF Submit
<1> DEFINE row == RowRead(read)
           type == TypeFor(r, row)
           d == Decide(wallets[r.wallet], r, row,
                       AlreadyReversed(read.reference, r.kind))
<1>4. d.status # "ABORTED" /\ Save(r.key, r, r.wallet, d, read.reference)
  BY <1>3
<1>5. read.reference \in TxIds \cup {None}
  BY DEF ReferenceReadings, CurrentReadings, EarlierReadings, MissingReading,
         Reading, WithExternal
<1>6. wallets[r.wallet] \in WalletType
  BY <1>1, <1>2 DEF LedgerInv, TypeOK
<1>7. SoundDecision(d, wallets[r.wallet], r)
  BY <1>1, <1>6, DecideSound
<1>8. MovesOnly(d, type)
  BY DecideMoves
<1>9. type \in EntryTypes \cup {None}
  BY DEF TypeFor, EntryTypes, ReversalLedgerType
<1>10. /\ txs'[r.key].req = r
       /\ txs'[r.key].status = d.status
       /\ d.status = "PROCESSED" => txs'[r.key].reference = read.reference
  <2> HIDE DEF d
  <2> QED BY <1>1, <1>4, SaveRow DEF LedgerInv
<1>11. \A t \in TxIds \ {r.key} : txs'[t] = txs[t]
  <2> HIDE DEF d
  <2> QED BY <1>1, <1>2, <1>4, <1>5, <1>7, SaveKeepsTables DEF LedgerInv
<1>12. ReversalInv'
  BY SubmitKeepsReversals
<1>13. ASSUME d.status = "PROCESSED", r.kind # "LOSS"
       PROVE  type = DirectionOf(r.key)' /\ type # None
  <2>1. CASE r.kind \in {"BET", "WIN"}
    BY <1>10, <2>1, NoneAssumption DEF TypeFor, DirectionOf, EntryTypes
  <2>2. CASE r.kind \notin {"BET", "WIN"}
    <3>1. IsReversal(r)
      BY <1>1, <1>13, <2>2 DEF IsReversal, WagerKinds, ReversalKinds
    <3>2. row # None
      BY <1>13, <2>2 DEF Decide, Pending
    <3>3. read.reference # None /\ row.req = txs[read.reference].req
      BY <3>2 DEF RowRead
    <3>4. read.reference \in TxIds \ {r.key}
      <4>1. r.kind \in ReversalKinds
        BY <3>1 DEF IsReversal
      <4>2. read.reference \in WithExternal(r.reference)
        BY <3>3, <4>1
        DEF ReferenceReadings, CurrentReadings, EarlierReadings,
            MissingReading, Reading
      <4> QED BY <1>2, <4>2 DEF WithExternal
    <3>5. row.req = txs'[txs'[r.key].reference].req
      BY <1>10, <1>11, <1>13, <3>3, <3>4
    <3>6. ReversalAllowed(r.kind, row.req.kind)
      <4>1. /\ txs'[r.key].status = "PROCESSED"
            /\ txs'[r.key].req = r
        BY <1>10, <1>13
      <4>2. txs'[r.key] # None
        BY <1>1, <1>2, <1>4, <1>5, <1>7, SaveKeepsTables DEF LedgerInv
      <4> HIDE DEF row, d, type
      <4> QED BY <1>1, <1>12, <3>1, <3>5, <4>1, <4>2
              DEF ReversalInv, ReversalMatchesReference, IsReversal, Exists
    <3>7. type = IF r.kind = "REFUND" \/ row.req.kind = "BET"
                 THEN "CREDIT" ELSE "DEBIT"
      BY <1>13, <2>2 DEF TypeFor, ReversalLedgerType
    <3> HIDE DEF row, type, d
    <3>8. DirectionOf(r.key)' = IF row.req.kind = "BET" THEN "CREDIT" ELSE "DEBIT"
      BY <1>10, <2>2, <3>1, <3>5 DEF DirectionOf, IsReversal, ReversalKinds
    <3> QED BY <3>6, <3>7, <3>8, NoneAssumption DEF ReversalAllowed, EntryTypes
  <2> QED BY <2>1, <2>2
<1>14. r.kind = "LOSS" => type = None
  BY DEF TypeFor
<1> HIDE DEF d, type, row
<1> QED
  BY <1>1, <1>2, <1>4, <1>5, <1>7, <1>8, <1>9, <1>13, <1>14, SaveKeepsEffect

\* A FAILED row moves nothing.
LEMMA FailTransactionKeepsEffect ==
    ASSUME LedgerInv, ReversalInv, EffectOnce, NEW r \in Requests,
           FailTransaction(r)
    PROVE  EffectOnce'
<1>1. r.key \in TxIds /\ r.wallet \in Wallets /\ ~Exists(r.key)
  BY RequestsTyped DEF FailTransaction, Insertable
<1>2. /\ txs'[r.key].req = r
      /\ txs'[r.key].status = "FAILED"
      /\ \A t \in TxIds \ {r.key} : txs'[t] = txs[t]
      /\ ledger' = ledger
  BY <1>1 DEF FailTransaction, LedgerInv, TypeOK
<1>3. WritesRow(r.key) /\ ~MovesMoney(r.key)'
  BY <1>1, <1>2 DEF WritesRow, MovesMoney
<1> QED BY <1>1, <1>2, <1>3, RowWriteKeepsEffect

\* A rejection for a missing reference moves nothing.
LEMMA FinishWithoutReferenceKeepsEffect ==
    ASSUME LedgerInv, ReversalInv, EffectOnce, NEW k \in Keys,
           FinishWithoutReference(k)
    PROVE  EffectOnce'
<1>1. /\ k \in TxIds /\ Exists(k) /\ txs[k].status = "PENDING_REFERENCE"
      /\ ledger' = ledger
  BY DEF FinishWithoutReference, LedgerInv, ReadingIsPending, TxIds
<1>2. txs[k] \in TransactionType /\ txs[k].req.wallet \in Wallets
  BY <1>1, RowTyped DEF LedgerInv
<1>3. CASE UNCHANGED txs
  BY <1>1, <1>3, SameKeepsEffect
<1>4. CASE txs' = [txs EXCEPT ![k].status = "REJECTED",
                              ![k].failure = "REFERENCE_NOT_FOUND"]
  <2>1. /\ txs'[k].req = txs[k].req
        /\ txs'[k].status = "REJECTED"
        /\ \A t \in TxIds \ {k} : txs'[t] = txs[t]
    BY <1>1, <1>2, <1>4 DEF LedgerInv, TypeOK, TransactionType
  <2>2. WritesRow(k) /\ ~MovesMoney(k)'
    BY <1>1, <2>1 DEF WritesRow, MovesMoney
  <2> QED BY <1>1, <1>2, <2>1, <2>2, RowWriteKeepsEffect
<1> QED BY <1>3, <1>4 DEF FinishWithoutReference

\* A reprocessing decides with the reference it has read, which is still there.
LEMMA FinishWithReferenceKeepsEffect ==
    ASSUME LedgerInv, ReversalInv, EffectOnce, NEW k \in Keys,
           FinishWithReference(k)
    PROVE  EffectOnce'
<1> DEFINE req == txs[k].req
           ref == reading[k].reference
           row == RowRead(reading[k])
           type == ReversalLedgerType(req.kind, row.req.kind)
           d == DecideReversal(wallets[req.wallet], req, row,
                               AlreadyReversed(ref, req.kind))
<1>1. /\ k \in TxIds /\ Exists(k) /\ txs[k].status = "PENDING_REFERENCE"
      /\ reading[k] # None /\ ref # None
      /\ d.status # "ABORTED"
      /\ Save(k, req, req.wallet, d, ref)
  BY DEF FinishWithReference, LedgerInv, ReadingIsPending, TxIds
<1>2. /\ req \in RequestType
      /\ req.wallet \in Wallets
      /\ wallets[req.wallet] # None
  BY <1>1, RowTyped DEF LedgerInv, RowsHaveWallets
<1>3. wallets[req.wallet] \in WalletType
  BY <1>2 DEF LedgerInv, TypeOK
<1>4. ref \in TxIds
  BY <1>1 DEF LedgerInv, TypeOK, ReadingType
<1>5. SoundDecision(d, wallets[req.wallet], req)
  BY <1>2, <1>3, DecideReversalSound
<1>6. MovesOnly(d, type)
  BY DecideReversalMoves
<1>7. type \in EntryTypes
  BY DEF EntryTypes, ReversalLedgerType
<1>8. IsReversal(req)
  BY <1>1 DEF ReversalInv, PendingIsReversal
<1>9. row.req = txs[ref].req
  BY <1>1 DEF RowRead
<1>10. ReversalInv'
  BY FinishWithReferenceKeepsReversals
<1>11. /\ txs'[k] # None
       /\ txs'[k].req = req /\ txs'[k].status = d.status
       /\ d.status = "PROCESSED" => txs'[k].reference = ref
       /\ \A t \in TxIds \ {k} : txs'[t] = txs[t]
  <2> HIDE DEF d, req
  <2> QED BY <1>1, <1>2, <1>4, <1>5, SaveKeepsTables, SaveRow DEF LedgerInv
<1>12. ASSUME d.status = "PROCESSED" PROVE type = DirectionOf(k)'
  <2>1. row.req = txs'[txs'[k].reference].req
    BY <1>4, <1>9, <1>11, <1>12
  <2>2. ReversalAllowed(req.kind, row.req.kind)
    <3> HIDE DEF d, req, row
    <3> QED BY <1>1, <1>8, <1>10, <1>11, <1>12, <2>1
            DEF ReversalInv, ReversalMatchesReference, IsReversal, Exists
  <2>3. req.kind \in {"REFUND", "ROLLBACK"}
    BY <1>8 DEF IsReversal, ReversalKinds
  <2>4. DirectionOf(k)' = IF row.req.kind = "BET" THEN "CREDIT" ELSE "DEBIT"
    <3> HIDE DEF d, req, row
    <3> QED BY <1>11, <2>1, <2>3 DEF DirectionOf
  <2> QED BY <2>2, <2>3, <2>4 DEF ReversalLedgerType, ReversalAllowed
<1>13. req.kind # "LOSS" /\ type # None
  BY <1>7, <1>8, NoneAssumption DEF IsReversal, ReversalKinds
<1>14. Exists(k) => txs[k].status = "PENDING_REFERENCE" /\ txs[k].req = req
  BY <1>1
<1> HIDE DEF d, req, row, type
<1> QED
  BY <1>1, <1>2, <1>4, <1>5, <1>6, <1>7, <1>12, <1>13, <1>14, SaveKeepsEffect

LEMMA EffectOnceInit == Init => EffectOnce
BY DEF Init, EffectOnce, MovesMoney, Exists

LEMMA EffectOnceStep ==
    LedgerInv /\ ReversalInv /\ EffectOnce /\ [Next]_vars => EffectOnce'
<1> SUFFICES ASSUME LedgerInv, ReversalInv, EffectOnce, [Next]_vars
             PROVE  EffectOnce'
  OBVIOUS
<1>1. ASSUME NEW w \in Wallets, NEW p \in Players, NEW c \in Currencies,
             NEW b \in InitialBalances, CreateWallet(w, p, c, b)
      PROVE  EffectOnce'
  BY <1>1, CreateWalletKeepsEffect
<1>2. ASSUME NEW r \in Requests, Submit(r) PROVE EffectOnce'
  BY <1>2, SubmitKeepsEffect
<1>3. ASSUME NEW r \in Failing, FailTransaction(r) PROVE EffectOnce'
  BY <1>3, FailingAssumption, FailTransactionKeepsEffect
<1>4. ASSUME NEW k \in Keys, FinishWithoutReference(k) PROVE EffectOnce'
  BY <1>4, FinishWithoutReferenceKeepsEffect
<1>5. ASSUME NEW k \in Keys, FinishWithReference(k) PROVE EffectOnce'
  BY <1>5, FinishWithReferenceKeepsEffect
<1>6. ASSUME UNCHANGED <<txs, ledger>> PROVE EffectOnce'
  BY <1>6, SameKeepsEffect
<1> QED
  BY <1>1, <1>2, <1>3, <1>4, <1>5, <1>6
  DEF Next, BeginReprocess, AbortReprocess, vars

(***************************************************************************)
(* A wager moves money once, in its own wallet, by its own amount and in   *)
(* the direction of its kind, however often it is delivered, reprocessed   *)
(* or reversed, for every set of wallets, wagers and workers.              *)
(***************************************************************************)
THEOREM EffectsCorrect == Spec => []EffectOnce
BY LedgerInvInit, LedgerInvStep, ReversalInvInit, ReversalInvStep,
   EffectOnceInit, EffectOnceStep, PTL DEF Spec
=============================================================================
