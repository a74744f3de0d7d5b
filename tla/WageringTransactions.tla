------------------------ MODULE WageringTransactions ------------------------
(***************************************************************************)
(* The database of the wallet service, one action per use case, each an    *)
(* atomic database transaction: the tables wallets, wager_transactions,    *)
(* wallet_ledger_entries and outbox_messages as a committed reader sees    *)
(* them.  The handlers serialise on the FOR UPDATE lock of the wallet row; *)
(* what they read without a lock is modelled as it was read:               *)
(*   - the reprocessing of a pending reversal reads its reference before   *)
(*     it locks the wallet, so it is two steps with `reading' between them;*)
(*   - a submission reads a reference whose row it does not lock; a        *)
(*     reference of another wallet may move on before the commit, so any   *)
(*     earlier reading of it is possible (ReferenceReadings).              *)
(*                                                                         *)
(* A wager transaction row is identified by its idempotency key, which is  *)
(* unique.  The opening transaction of wallet w has the key "wallet-open:w"*)
(* and the external id "wallet-open:w"; the wallet itself stands for both. *)
(* An external id stands for the pair (providerId, externalTransactionId). *)
(***************************************************************************)
EXTENDS WageringRules, Sequences, FiniteSets

CONSTANTS
    Wallets, Players, Currencies, Rounds,
    Keys,       \* idempotency keys of the submitted wagers
    Externals,  \* (provider, external transaction id) pairs
    Requests,   \* the wagers that are submitted
    InitialBalances,  \* the initial balances wallets are created with
    Failing,    \* the requests that can meet a permanent infrastructure error
    Workers     \* how many instances of the reprocessing worker run

TxIds == Keys \cup Wallets

RequestType ==
    [key: TxIds, external: Externals \cup Wallets, wallet: Wallets,
     player: Players, currency: Currencies, round: Rounds \cup {None},
     kind: Kinds, amount: 0..MaxBalance,
     reference: Externals \cup Wallets \cup {None}]

WalletType ==
    [player: Players, currency: Currencies, balance: 0..MaxBalance,
     version: Nat]

TransactionType ==
    [req: RequestType, status: Statuses, failure: FailureCodes \cup {None},
     reference: TxIds \cup {None}, balanceAfter: 0..MaxBalance]

EntryType ==
    [tx: TxIds, type: EntryTypes, amount: 0..MaxBalance,
     before: 0..MaxBalance, after: 0..MaxBalance]

OutcomeEventType ==
    [tx: TxIds, type: Statuses, entry: {None}, version: {0}]
BalanceEventType ==
    [tx: TxIds, type: {"BALANCE_CHANGED"}, entry: EntryType, version: Nat]
EventType == OutcomeEventType \cup BalanceEventType

ReadingType ==
    [reference: TxIds \cup {None}, status: Statuses \cup {None},
     rejectIfMissing: BOOLEAN]

ASSUME RequestsAssumption ==
    /\ Requests \subseteq RequestType
    /\ \A r \in Requests : /\ r.key \in Keys
                           /\ r.external \in Externals
                           /\ r.kind \in WagerKinds
ASSUME InitialBalancesAssumption == InitialBalances \subseteq 0..MaxBalance
ASSUME FailingAssumption == Failing \subseteq Requests
ASSUME WorkersAssumption == Workers \in Nat
ASSUME DisjointAssumption ==
    /\ Keys \cap Wallets = {}
    /\ Externals \cap Wallets = {}
ASSUME NoneAssumption ==
    /\ None \notin WalletType
    /\ None \notin TransactionType
    /\ None \notin ReadingType
    /\ None \notin FailureCodes
    /\ None \notin EntryTypes
    /\ None \notin TxIds
    /\ None \notin Externals

VARIABLES
    wallets,  \* wallets[w]: the wallet row, None before it is created
    txs,      \* txs[k]: the wager_transactions row of key k
    ledger,   \* ledger[w]: the ledger entries of w in commit order
    outbox,   \* outbox[w]: the events about w in the order they were enqueued
    reading   \* reading[k]: what a reprocessing of k under way has read

vars == <<wallets, txs, ledger, outbox, reading>>

Exists(k) == txs[k] # None
WithExternal(x) == {k \in TxIds : Exists(k) /\ txs[k].req.external = x}

\* The query for an earlier reversal left out.
NeverReversed(k, kind) == FALSE

\* The query for an earlier reversal of reference row k by the same kind.
AlreadyReversed(k, kind) ==
    \E t \in TxIds : /\ Exists(t)
                     /\ txs[t].status = "PROCESSED"
                     /\ txs[t].req.kind = kind
                     /\ txs[t].reference = k

IsReversal(req) == req.kind \in ReversalKinds

(***************************************************************************)
(* The readings of the reference of a submission: pairs of a row (None     *)
(* when it was missing) and its status.  The wallet lock keeps a reference *)
(* of the same wallet from appearing or being processed meanwhile.         *)
(***************************************************************************)
Reading(k, status) == [reference |-> k, status |-> status]
MissingReading == Reading(None, None)
CurrentReadings(x) ==
    IF WithExternal(x) = {} THEN {MissingReading}
    ELSE {Reading(k, txs[k].status) : k \in WithExternal(x)}
EarlierReadings(x) ==
    {MissingReading} \cup
    {Reading(k, "PENDING_REFERENCE") :
        k \in {t \in WithExternal(x) : IsReversal(txs[t].req)}}
ReferenceReadings(req) ==
    IF req.kind \notin ReversalKinds THEN {MissingReading}
    ELSE CurrentReadings(req.reference) \cup
         (IF \A k \in WithExternal(req.reference) :
                txs[k].req.wallet = req.wallet
          THEN {} ELSE EarlierReadings(req.reference))

\* The row as the rules see it: the request never changes, the status did.
RowRead(r) == IF r.reference = None THEN None
              ELSE [req |-> txs[r.reference].req, status |-> r.status]

\* An entry whose balanceBefore is taken after the wallet was changed.
EntryOfChangedWallet(k, type, amount, before) ==
    LET changed == BalanceAfter(type, before, amount)
    IN  [tx |-> k, type |-> type, amount |-> amount, before |-> changed,
         after |-> changed]

Entry(k, type, amount, before) ==
    [tx |-> k, type |-> type, amount |-> amount, before |-> before,
     after |-> BalanceAfter(type, before, amount)]

\* A rejection reported as processed, and a balance event that carries the
\* version the wallet had before.
OutcomeEventOfSuccess(k, status) ==
    [tx |-> k, type |-> IF status = "REJECTED" THEN "PROCESSED" ELSE status,
     entry |-> None, version |-> 0]
BalanceEventOfOldVersion(k, entry, version) ==
    [tx |-> k, type |-> "BALANCE_CHANGED", entry |-> entry,
     version |-> version - 1]

(***************************************************************************)
(* enqueueWagerTransactionEvents: the outcome event of the status, then    *)
(* WalletBalanceChanged when an entry was written.                         *)
(***************************************************************************)
OutcomeEvent(k, status) ==
    [tx |-> k, type |-> status, entry |-> None, version |-> 0]
BalanceEvent(k, entry, version) ==
    [tx |-> k, type |-> "BALANCE_CHANGED", entry |-> entry,
     version |-> version]

-----------------------------------------------------------------------------
Init ==
    /\ wallets = [w \in Wallets |-> None]
    /\ txs = [k \in TxIds |-> None]
    /\ ledger = [w \in Wallets |-> <<>>]
    /\ outbox = [w \in Wallets |-> <<>>]
    /\ reading = [k \in Keys |-> None]

OpeningRequest(w, p, c, amount) ==
    [key |-> w, external |-> w, wallet |-> w, player |-> p, currency |-> c,
     round |-> None, kind |-> "OPENING", amount |-> amount,
     reference |-> None]

(***************************************************************************)
(* CreateWalletUseCase: one wallet per player and currency (the unique     *)
(* constraint), with an opening transaction, its ledger entry and events   *)
(* when the initial balance is positive.                                   *)
(***************************************************************************)
CreateWallet(w, p, c, initial) ==
    /\ wallets[w] = None
    /\ \A v \in Wallets :
          wallets[v] # None => <<wallets[v].player, wallets[v].currency>> # <<p, c>>
    /\ wallets' = [wallets EXCEPT ![w] =
          [player |-> p, currency |-> c, balance |-> initial, version |-> 1]]
    /\ LET entry == Entry(w, "CREDIT", initial, 0)
       IN IF IsPositive(initial)
          THEN /\ txs' = [txs EXCEPT ![w] =
                     [req |-> OpeningRequest(w, p, c, initial),
                      status |-> "PROCESSED", failure |-> None,
                      reference |-> None, balanceAfter |-> initial]]
               /\ ledger' = [ledger EXCEPT ![w] = Append(@, entry)]
               /\ outbox' = [outbox EXCEPT ![w] =
                     @ \o <<OutcomeEvent(w, "PROCESSED"),
                            BalanceEvent(w, entry, 1)>>]
          ELSE UNCHANGED <<txs, ledger, outbox>>
    /\ UNCHANGED reading

(***************************************************************************)
(* What a decision saves for transaction k on wallet w: the row, and the   *)
(* balance, version, ledger entry and events when money moved.             *)
(***************************************************************************)
Save(k, req, w, d, reference) ==
    LET before  == wallets[w].balance
        moved   == d.type # None
        after   == BalanceAfter(d.type, before, req.amount)
        version == NextVersion(wallets[w])
        entry   == Entry(k, d.type, req.amount, before)
    IN  /\ txs' = [txs EXCEPT ![k] =
              [req |-> req, status |-> d.status, failure |-> d.failure,
               reference |-> IF d.status = "PROCESSED" THEN reference ELSE None,
               balanceAfter |-> after]]
        /\ IF moved
           THEN /\ wallets' = [wallets EXCEPT ![w].balance = after,
                                              ![w].version = version]
                /\ ledger' = [ledger EXCEPT ![w] = Append(@, entry)]
                /\ outbox' = [outbox EXCEPT ![w] =
                      @ \o <<OutcomeEvent(k, d.status),
                             BalanceEvent(k, entry, version)>>]
           ELSE /\ outbox' = [outbox EXCEPT ![w] =
                      Append(@, OutcomeEvent(k, d.status))]
                /\ UNCHANGED <<wallets, ledger>>

(***************************************************************************)
(* The conditions under which a new row for request r can be inserted: the *)
(* key is free (else the handler answers with the stored row), the wallet  *)
(* exists, a reversal names a reference, and no row has its external id.   *)
(***************************************************************************)
Insertable(r) ==
    /\ ~Exists(r.key)
    /\ wallets[r.wallet] # None
    /\ IsReversal(r) => r.reference # None
    /\ WithExternal(r.external) = {}

\* SubmitWagerTransactionUseCase.executeInTransaction, when it commits a row.
Submit(r) ==
    /\ IsPositive(r.amount)
    /\ Insertable(r)
    /\ wallets[r.wallet].player = r.player
    /\ \E read \in ReferenceReadings(r) :
          LET d == Decide(wallets[r.wallet], r, RowRead(read),
                          AlreadyReversed(read.reference, r.kind))
          IN  /\ d.status # "ABORTED"
              /\ Save(r.key, r, r.wallet, d, read.reference)
    /\ UNCHANGED reading

(***************************************************************************)
(* The consumer's persistFailedTransaction, after a permanent error of the *)
(* infrastructure: a FAILED row, no money moved, no event.  It does not    *)
(* look at the player.                                                     *)
(***************************************************************************)
FailTransaction(r) ==
    /\ Insertable(r)
    /\ txs' = [txs EXCEPT ![r.key] =
          [req |-> r, status |-> "FAILED",
           failure |-> "PERMANENT_INFRASTRUCTURE_ERROR", reference |-> None,
           balanceAfter |-> wallets[r.wallet].balance]]
    /\ UNCHANGED <<wallets, ledger, outbox, reading>>

\* A reprocessing that does not look at the status of the row it locked.
BeginReprocessOfAnyStatus(k, rejectIfMissing) ==
    /\ reading[k] = None
    /\ Cardinality({t \in Keys : reading[t] # None}) < Workers
    /\ Exists(k) /\ IsReversal(txs[k].req)
    /\ \E read \in CurrentReadings(txs[k].req.reference) :
          reading' = [reading EXCEPT ![k] =
              [reference |-> read.reference, status |-> read.status,
               rejectIfMissing |-> rejectIfMissing]]
    /\ UNCHANGED <<wallets, txs, ledger, outbox>>

(***************************************************************************)
(* ReprocessPendingReferenceUseCase, up to the lock of the wallet: the row *)
(* is locked, found pending, and its reference read.  Each worker          *)
(* reprocesses one transaction at a time.                                  *)
(***************************************************************************)
BeginReprocess(k, rejectIfMissing) ==
    /\ reading[k] = None
    /\ Cardinality({t \in Keys : reading[t] # None}) < Workers
    /\ Exists(k) /\ txs[k].status = "PENDING_REFERENCE"
    /\ \E read \in CurrentReadings(txs[k].req.reference) :
          reading' = [reading EXCEPT ![k] =
              [reference |-> read.reference, status |-> read.status,
               rejectIfMissing |-> rejectIfMissing]]
    /\ UNCHANGED <<wallets, txs, ledger, outbox>>

\* The reference was missing: rejected on the last attempt, else left pending.
FinishWithoutReference(k) ==
    /\ reading[k] # None /\ reading[k].reference = None
    /\ IF reading[k].rejectIfMissing
       THEN /\ txs' = [txs EXCEPT ![k].status = "REJECTED",
                                  ![k].failure = "REFERENCE_NOT_FOUND"]
            /\ outbox' = [outbox EXCEPT ![txs[k].req.wallet] =
                  Append(@, OutcomeEvent(k, "REJECTED"))]
       ELSE UNCHANGED <<txs, outbox>>
    /\ reading' = [reading EXCEPT ![k] = None]
    /\ UNCHANGED <<wallets, ledger>>

\* The reference was found: the wallet is locked and the reversal decided.
FinishWithReference(k) ==
    /\ reading[k] # None /\ reading[k].reference # None
    /\ LET req == txs[k].req
           d   == DecideReversal(wallets[req.wallet], req, RowRead(reading[k]),
                                 AlreadyReversed(reading[k].reference, req.kind))
       IN  /\ d.status # "ABORTED"
           /\ Save(k, req, req.wallet, d, reading[k].reference)
    /\ reading' = [reading EXCEPT ![k] = None]

\* A crash or an exception rolls the reprocessing back.
AbortReprocess(k) ==
    /\ reading[k] # None
    /\ reading' = [reading EXCEPT ![k] = None]
    /\ UNCHANGED <<wallets, txs, ledger, outbox>>

Next ==
    \/ \E w \in Wallets, p \in Players, c \in Currencies, b \in InitialBalances :
          CreateWallet(w, p, c, b)
    \/ \E r \in Requests : Submit(r)
    \/ \E r \in Failing : FailTransaction(r)
    \/ \E k \in Keys, last \in BOOLEAN : BeginReprocess(k, last)
    \/ \E k \in Keys : FinishWithoutReference(k)
    \/ \E k \in Keys : FinishWithReference(k)
    \/ \E k \in Keys : AbortReprocess(k)

Spec == Init /\ [][Next]_vars

-----------------------------------------------------------------------------
(***************************************************************************)
(* Type invariant: every balance, also in the ledger, is a non-negative    *)
(* amount the column can hold, and every saved row is one of its tables'.  *)
(***************************************************************************)
TypeOK ==
    /\ wallets \in [Wallets -> WalletType \cup {None}]
    /\ txs \in [TxIds -> TransactionType \cup {None}]
    /\ ledger \in [Wallets -> Seq(EntryType)]
    /\ outbox \in [Wallets -> Seq(EventType)]
    /\ reading \in [Keys -> ReadingType \cup {None}]

(***************************************************************************)
(* The wallet's balance can be recomputed from its ledger alone: entries   *)
(* start at zero, each starts where the one before ended, each is balanced,*)
(* and the last one ends at the stored balance, whatever mix of            *)
(* submissions and concurrent reprocessings wrote them.                    *)
(***************************************************************************)
Chained(entries, balance) ==
    /\ entries # <<>>
    /\ entries[1].before = 0
    /\ entries[Len(entries)].after = balance
    /\ \A i \in 1..Len(entries) :
          /\ entries[i].after =
                BalanceAfter(entries[i].type, entries[i].before, entries[i].amount)
          /\ i > 1 => entries[i].before = entries[i - 1].after
LedgerExplainsBalance ==
    \A w \in Wallets :
        IF wallets[w] = None THEN ledger[w] = <<>>
                             ELSE Chained(ledger[w], wallets[w].balance)

\* The wallet's version counts its ledger entries: no change of the balance
\* goes without an entry and no entry is written twice for one change.
VersionCountsEntries ==
    \A w \in Wallets : wallets[w] # None => wallets[w].version = Len(ledger[w])

(***************************************************************************)
(* A transaction has a ledger entry exactly when it is processed and moves *)
(* money, the entry is in its own wallet with its own amount, in the       *)
(* direction its kind asks for, for a reversal the opposite of what it     *)
(* reverses, and there is only one: a wager takes effect once however      *)
(* often it is delivered or reprocessed.                                   *)
(***************************************************************************)
DirectionOf(k) ==
    LET req == txs[k].req
    IN  IF req.kind = "BET" THEN "DEBIT"
        ELSE IF req.kind \in {"WIN", "OPENING"} THEN "CREDIT"
        ELSE IF txs[txs[k].reference].req.kind = "BET" THEN "CREDIT" ELSE "DEBIT"
MovesMoney(k) ==
    Exists(k) /\ txs[k].status = "PROCESSED" /\ txs[k].req.kind # "LOSS"
EntryFor(e, k) ==
    /\ e.tx = k
    /\ e.amount = txs[k].req.amount
    /\ e.type = DirectionOf(k)
EffectOnce ==
    /\ \A k \in TxIds : MovesMoney(k) =>
          \E i \in DOMAIN ledger[txs[k].req.wallet] :
              EntryFor(ledger[txs[k].req.wallet][i], k)
    /\ \A w \in Wallets : \A i, j \in DOMAIN ledger[w] :
          /\ MovesMoney(ledger[w][i].tx)
          /\ txs[ledger[w][i].tx].req.wallet = w
          /\ ledger[w][i].tx = ledger[w][j].tx => i = j

(***************************************************************************)
(* The same row is reversed at most once by each kind of reversal, though  *)
(* reversals arrive by HTTP, by the queue and by the worker.  The partial  *)
(* unique index of migration 0006 never has to refuse one.                 *)
(***************************************************************************)
ReversedOncePerKind ==
    \A s, t \in TxIds :
        /\ Exists(s) /\ txs[s].status = "PROCESSED" /\ IsReversal(txs[s].req)
        /\ Exists(t) /\ txs[t].status = "PROCESSED" /\ IsReversal(txs[t].req)
        /\ txs[s].reference = txs[t].reference
        /\ txs[s].req.kind = txs[t].req.kind
        => s = t

(***************************************************************************)
(* A processed reversal points at a processed transaction it may reverse,  *)
(* of the same wallet, player, currency, round and amount, which is the    *)
(* one it named: also when the reference was read before the lock.         *)
(***************************************************************************)
ReversalMatchesReference ==
    \A k \in TxIds :
        Exists(k) /\ txs[k].status = "PROCESSED" /\ IsReversal(txs[k].req) =>
            LET reference == txs[txs[k].reference]
            IN  /\ txs[k].reference \in WithExternal(txs[k].req.reference)
                /\ reference.status = "PROCESSED"
                /\ SameContext(txs[k].req, reference.req)
                /\ reference.req.amount = txs[k].req.amount
                /\ ReversalAllowed(txs[k].req.kind, reference.req.kind)

(***************************************************************************)
(* The balance events of a wallet, in the order they were enqueued, are    *)
(* its ledger: a consumer that replays them by version has every entry     *)
(* once, with no gap.                                                      *)
(***************************************************************************)
ChangesIn(events) == {i \in DOMAIN events : events[i].type = "BALANCE_CHANGED"}
Mirrors(events, entries) ==
    /\ \A i \in ChangesIn(events) :
          LET n == events[i].version
          IN  /\ n \in DOMAIN entries
              /\ events[i].entry = entries[n]
              /\ events[i].tx = entries[n].tx
    /\ \A n \in DOMAIN entries : \E i \in ChangesIn(events) : events[i].version = n
    /\ \A i, j \in ChangesIn(events) : i < j => events[i].version < events[j].version
EventsMirrorLedger == \A w \in Wallets : Mirrors(outbox[w], ledger[w])

(***************************************************************************)
(* The outcome events tell the story of the row: its status last, before   *)
(* that at most that it was pending, and nothing of a FAILED one.          *)
(***************************************************************************)
OutcomesIn(events, k) ==
    {i \in DOMAIN events : events[i].tx = k /\ events[i].type # "BALANCE_CHANGED"}
Tells(events, k, status) ==
    IF status = "FAILED" THEN OutcomesIn(events, k) = {}
    ELSE \E last \in OutcomesIn(events, k) :
            /\ events[last].type = status
            /\ \A i \in OutcomesIn(events, k) \ {last} :
                  /\ i < last
                  /\ events[i].type = "PENDING_REFERENCE" /\ events[i].type # status
            /\ \A i, j \in OutcomesIn(events, k) \ {last} : i = j
OutcomesTellStatus ==
    \A k \in TxIds :
        Exists(k) => Tells(outbox[txs[k].req.wallet], k, txs[k].status)

(***************************************************************************)
(* What is decided stays decided: a step never changes a terminal row, the *)
(* request of any row, or what the ledger and the outbox already say.      *)
(***************************************************************************)
Extends(longer, shorter) ==
    /\ Len(longer) >= Len(shorter)
    /\ \A i \in DOMAIN shorter : longer[i] = shorter[i]
HistoryKept ==
    /\ \A k \in TxIds : Exists(k) =>
          /\ txs[k]'.req = txs[k].req
          /\ txs[k].status \in TerminalStatuses => txs[k]' = txs[k]
    /\ \A w \in Wallets : Extends(ledger[w]', ledger[w])
    /\ \A w \in Wallets : Extends(outbox[w]', outbox[w])
HistoryIsImmutable == [][HistoryKept]_vars

(***************************************************************************)
(* README.md, 6.2: the currency of an operation is that of its wallet.     *)
(* Wallet.credit and Wallet.debit check it; a LOSS calls neither.          *)
(***************************************************************************)
WagersInWalletCurrency ==
    \A k \in TxIds :
        Exists(k) /\ txs[k].status = "PROCESSED" =>
            txs[k].req.currency = wallets[txs[k].req.wallet].currency

(***************************************************************************)
(* README.md, 6.2: the version is incremented only when the balance        *)
(* changes; the version counts the entries, so each of them has to move    *)
(* money.  The check of the amount lets zero pass.                         *)
(***************************************************************************)
EntriesMoveMoney ==
    \A w \in Wallets : \A i \in DOMAIN ledger[w] :
        ledger[w][i].after # ledger[w][i].before
=============================================================================
