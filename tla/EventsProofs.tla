---------------------------- MODULE EventsProofs ----------------------------
(***************************************************************************)
(* Proofs about the outbox of WageringTransactions, for any number of      *)
(* wallets, wagers and workers: the balance events of a wallet are its     *)
(* ledger, and the outcome events of a row tell its statuses in order.     *)
(* Events are only ever appended, so it is enough to know what one more    *)
(* event does to what the events before it said.                           *)
(***************************************************************************)
EXTENDS EffectOnceProofs

-----------------------------------------------------------------------------
(***************************************************************************)
(* One more event.                                                         *)
(***************************************************************************)
LEMMA OneMoreEvent ==
    ASSUME NEW s \in Seq(EventType), NEW e \in EventType
    PROVE  /\ Append(s, e) \in Seq(EventType)
           /\ DOMAIN Append(s, e) = DOMAIN s \cup {Len(s) + 1}
           /\ Len(s) + 1 \notin DOMAIN s
           /\ Append(s, e)[Len(s) + 1] = e
           /\ \A i \in DOMAIN s : Append(s, e)[i] = s[i] /\ i \in Int /\ i < Len(s) + 1
           /\ Len(s) + 1 \in Int
BY AppendProperties, LenProperties

\* An event of an outcome is not one of the ledger's.
LEMMA MirrorsOutcome ==
    ASSUME NEW s \in Seq(EventType), NEW e \in EventType, NEW entries,
           e.type # "BALANCE_CHANGED", Mirrors(s, entries)
    PROVE  Mirrors(Append(s, e), entries)
<1> DEFINE t == Append(s, e)
<1>1. /\ ChangesIn(t) = ChangesIn(s)
      /\ \A i \in ChangesIn(s) : t[i] = s[i]
  BY OneMoreEvent DEF ChangesIn
<1> HIDE DEF t
<1>2. Mirrors(t, entries)
  BY <1>1 DEF Mirrors
<1> QED BY <1>2 DEF t

\* The event of one more entry, with the next version.
LEMMA MirrorsChange ==
    ASSUME NEW s \in Seq(EventType), NEW e \in EventType,
           NEW entries \in Seq(EntryType), NEW x \in EntryType, Mirrors(s, entries),
           e.type = "BALANCE_CHANGED", e.version = Len(entries) + 1,
           e.entry = x, e.tx = x.tx
    PROVE  Mirrors(Append(s, e), Append(entries, x))
<1> DEFINE t == Append(s, e)
           longer == Append(entries, x)
           n == Len(s) + 1
<1>1. /\ ChangesIn(t) = ChangesIn(s) \cup {n}
      /\ n \notin ChangesIn(s) /\ t[n] = e /\ n \in Int
      /\ \A i \in ChangesIn(s) : t[i] = s[i] /\ i \in Int /\ i < n
  BY OneMoreEvent DEF ChangesIn
<1>2. /\ DOMAIN entries = 1..Len(entries) /\ Len(entries) \in Nat
      /\ DOMAIN longer = 1..(Len(entries) + 1)
      /\ longer[Len(entries) + 1] = x
      /\ \A i \in DOMAIN entries : longer[i] = entries[i]
  BY AppendProperties, LenProperties
<1> HIDE DEF t, longer, n
<1>3. ASSUME NEW i \in ChangesIn(t)
      PROVE  /\ t[i].version \in DOMAIN longer
             /\ t[i].entry = longer[t[i].version]
             /\ t[i].tx = longer[t[i].version].tx
  <2>1. CASE i \in ChangesIn(s)
    <3>1. /\ t[i].version \in DOMAIN entries
          /\ t[i].entry = entries[t[i].version]
          /\ t[i].tx = entries[t[i].version].tx
      BY <1>1, <2>1 DEF Mirrors
    <3> QED BY <1>2, <3>1
  <2>2. CASE i = n
    BY <1>1, <1>2, <2>2
  <2> QED BY <1>1, <2>1, <2>2
<1>4. ASSUME NEW m \in DOMAIN longer
      PROVE  \E i \in ChangesIn(t) : t[i].version = m
  <2>1. CASE m \in DOMAIN entries
    <3>1. PICK i \in ChangesIn(s) : s[i].version = m
      BY <2>1 DEF Mirrors
    <3> QED BY <1>1, <3>1
  <2>2. CASE m = Len(entries) + 1
    BY <1>1, <2>2
  <2> QED BY <1>2, <2>1, <2>2
<1>5. \A i, j \in ChangesIn(t) : i < j => t[i].version < t[j].version
  BY <1>1, <1>2 DEF Mirrors
<1>6. Mirrors(t, longer)
  BY <1>3, <1>4, <1>5 DEF Mirrors
<1> QED BY <1>6 DEF t, longer

\* An event that says nothing of the outcome of row k.
LEMMA TellsStill ==
    ASSUME NEW s \in Seq(EventType), NEW e \in EventType, NEW k, NEW status,
           e.tx # k \/ e.type = "BALANCE_CHANGED", Tells(s, k, status)
    PROVE  Tells(Append(s, e), k, status)
<1> DEFINE t == Append(s, e)
<1>1. /\ OutcomesIn(t, k) = OutcomesIn(s, k)
      /\ \A i \in OutcomesIn(s, k) : t[i] = s[i]
  BY OneMoreEvent DEF OutcomesIn
<1> HIDE DEF t
<1>2. Tells(t, k, status)
  BY <1>1 DEF Tells
<1> QED BY <1>2 DEF t

\* The outcome of a row that had none, or was pending.
LEMMA TellsNext ==
    ASSUME NEW s \in Seq(EventType), NEW e \in EventType, NEW k,
           e.tx = k, e.type \notin {"BALANCE_CHANGED", "FAILED"},
           \/ OutcomesIn(s, k) = {}
           \/ Tells(s, k, "PENDING_REFERENCE") /\ e.type # "PENDING_REFERENCE"
    PROVE  Tells(Append(s, e), k, e.type)
<1> DEFINE t == Append(s, e)
           n == Len(s) + 1
<1>1. /\ OutcomesIn(t, k) = OutcomesIn(s, k) \cup {n}
      /\ n \notin OutcomesIn(s, k) /\ t[n] = e
      /\ \A i \in OutcomesIn(s, k) : t[i] = s[i] /\ i < n
  BY OneMoreEvent DEF OutcomesIn
<1> HIDE DEF t, n
<1>2. OutcomesIn(t, k) \ {n} = OutcomesIn(s, k)
  BY <1>1
<1>3. \A i \in OutcomesIn(s, k) :
         t[i].type = "PENDING_REFERENCE" /\ t[i].type # e.type
  BY <1>1 DEF Tells
<1>4. \A i, j \in OutcomesIn(s, k) : i = j
  BY DEF Tells
<1>5. Tells(t, k, e.type)
  BY <1>1, <1>2, <1>3, <1>4 DEF Tells
<1> QED BY <1>5 DEF t

-----------------------------------------------------------------------------
(***************************************************************************)
(* What a step enqueues.  The invariant adds that every event is of a row  *)
(* of its own wallet, so that a new row has no events yet.                 *)
(***************************************************************************)
EventsHaveRows ==
    \A w \in Wallets : \A i \in DOMAIN outbox[w] :
        Exists(outbox[w][i].tx) /\ txs[outbox[w][i].tx].req.wallet = w

EventsInv == EventsMirrorLedger /\ OutcomesTellStatus /\ EventsHaveRows

\* Row k, of wallet w, is new or was pending, and the others stay.
WritesRowOf(k, w) ==
    /\ txs'[k] # None /\ txs'[k].req.wallet = w
    /\ Exists(k) => /\ txs[k].status = "PENDING_REFERENCE" /\ txs[k].req.wallet = w
                    /\ txs'[k].status # "PENDING_REFERENCE"
    /\ \A t \in TxIds \ {k} : txs'[t] = txs[t]

\* Its outcome is enqueued, and its entry with the event of it.
EnqueuesOutcome(k, w) ==
    /\ ledger' = ledger
    /\ outbox' = [outbox EXCEPT ![w] = Append(@, OutcomeEvent(k, txs'[k].status))]
EnqueuesChange(k, w, entry) ==
    /\ entry.tx = k
    /\ ledger' = [ledger EXCEPT ![w] = Append(@, entry)]
    /\ outbox' = [outbox EXCEPT ![w] =
          @ \o <<OutcomeEvent(k, txs'[k].status),
                 BalanceEvent(k, entry, Len(ledger[w]) + 1)>>]

LEMMA EventsTyped ==
    ASSUME NEW k \in TxIds, NEW status \in Statuses, NEW entry \in EntryType,
           NEW version \in Nat
    PROVE  /\ OutcomeEvent(k, status) \in EventType
           /\ OutcomeEvent(k, status).tx = k /\ OutcomeEvent(k, status).type = status
           /\ status # "BALANCE_CHANGED"
           /\ BalanceEvent(k, entry, version) \in EventType
           /\ BalanceEvent(k, entry, version).tx = k
           /\ BalanceEvent(k, entry, version).type = "BALANCE_CHANGED"
           /\ BalanceEvent(k, entry, version).entry = entry
           /\ BalanceEvent(k, entry, version).version = version
BY DEF OutcomeEvent, BalanceEvent, EventType, OutcomeEventType, BalanceEventType, Statuses

\* An absent row has no events yet.
LEMMA AbsentIsUntold ==
    ASSUME EventsInv, NEW k \in TxIds, ~Exists(k), NEW w \in Wallets
    PROVE  OutcomesIn(outbox[w], k) = {}
BY DEF EventsInv, EventsHaveRows, OutcomesIn

\* The events of other wallets, and what they say of the rows there.
LEMMA OtherWalletsKeepEvents ==
    ASSUME EventsInv, LedgerInv, NEW k \in TxIds, NEW w \in Wallets,
           WritesRowOf(k, w),
           \A v \in Wallets \ {w} : outbox'[v] = outbox[v] /\ ledger'[v] = ledger[v],
           Mirrors(outbox'[w], ledger'[w]),
           \A t \in TxIds : txs'[t] # None /\ txs'[t].req.wallet = w =>
               Tells(outbox'[w], t, txs'[t].status),
           \A i \in DOMAIN outbox'[w] :
               \/ outbox'[w][i].tx = k
               \/ \E j \in DOMAIN outbox[w] : outbox'[w][i].tx = outbox[w][j].tx
    PROVE  EventsInv'
<1>1. EventsMirrorLedger'
  BY DEF EventsInv, EventsMirrorLedger
<1>2. OutcomesTellStatus'
  <2> SUFFICES ASSUME NEW t \in TxIds, txs'[t] # None
               PROVE  Tells(outbox'[txs'[t].req.wallet], t, txs'[t].status)
    BY DEF OutcomesTellStatus, Exists
  <2>1. CASE txs'[t].req.wallet = w
    BY <2>1
  <2>2. CASE txs'[t].req.wallet # w
    <3>1. t # k /\ txs'[t] = txs[t] /\ Exists(t)
      BY <2>2 DEF WritesRowOf, Exists
    <3>2. txs[t].req.wallet \in Wallets \ {w}
      BY <2>2, <3>1, RowTyped DEF LedgerInv
    <3> QED BY <3>1, <3>2 DEF EventsInv, OutcomesTellStatus
  <2> QED BY <2>1, <2>2
<1>3. EventsHaveRows'
  <2> SUFFICES ASSUME NEW v \in Wallets, NEW i \in DOMAIN outbox'[v]
               PROVE  /\ txs'[outbox'[v][i].tx] # None
                      /\ txs'[outbox'[v][i].tx].req.wallet = v
    BY DEF EventsHaveRows, Exists
  <2>1. CASE v = w /\ outbox'[v][i].tx = k
    BY <2>1 DEF WritesRowOf
  <2>2. CASE \E j \in DOMAIN outbox[v] : outbox'[v][i].tx = outbox[v][j].tx
    <3>1. PICK j \in DOMAIN outbox[v] : outbox'[v][i].tx = outbox[v][j].tx
      BY <2>2
    <3>2. /\ Exists(outbox[v][j].tx) /\ txs[outbox[v][j].tx].req.wallet = v
      BY DEF EventsInv, EventsHaveRows
    <3>3. outbox[v][j].tx \in TxIds
      BY DEF LedgerInv, TypeOK, EventType, OutcomeEventType, BalanceEventType
    <3> QED BY <3>1, <3>2, <3>3 DEF WritesRowOf, Exists
  <2> QED BY <2>1, <2>2
<1> QED BY <1>1, <1>2, <1>3 DEF EventsInv

\* A row is written with its outcome.
LEMMA OutcomeKeepsEvents ==
    ASSUME EventsInv, LedgerInv, NEW k \in TxIds, NEW w \in Wallets,
           WritesRowOf(k, w), EnqueuesOutcome(k, w),
           txs'[k].status \in Statuses \ {"FAILED"}
    PROVE  EventsInv'
<1> DEFINE s == outbox[w]
           e == OutcomeEvent(k, txs'[k].status)
<1>1. s \in Seq(EventType) /\ ledger' = ledger
  BY DEF LedgerInv, TypeOK, EnqueuesOutcome
<1>2. e \in EventType /\ e.tx = k /\ e.type = txs'[k].status /\ e.type # "BALANCE_CHANGED"
  BY DEF OutcomeEvent, EventType, OutcomeEventType, Statuses
<1>3. /\ outbox'[w] = Append(s, e)
      /\ \A v \in Wallets \ {w} : outbox'[v] = outbox[v]
  BY DEF EnqueuesOutcome, LedgerInv, TypeOK
<1> HIDE DEF e
<1>4. Mirrors(outbox'[w], ledger'[w])
  BY <1>1, <1>2, <1>3, MirrorsOutcome DEF EventsInv, EventsMirrorLedger
<1>5. ASSUME NEW t \in TxIds, txs'[t] # None, txs'[t].req.wallet = w
      PROVE  Tells(outbox'[w], t, txs'[t].status)
  <2>1. CASE t # k
    <3>1. Tells(s, t, txs'[t].status)
      BY <1>5, <2>1 DEF WritesRowOf, EventsInv, OutcomesTellStatus, Exists
    <3> QED BY <1>1, <1>2, <1>3, <2>1, <3>1, TellsStill
  <2>2. CASE t = k /\ Exists(k)
    <3>1. Tells(s, k, "PENDING_REFERENCE") /\ e.type # "PENDING_REFERENCE"
      BY <1>2, <2>2 DEF WritesRowOf, EventsInv, OutcomesTellStatus
    <3> QED BY <1>1, <1>2, <1>3, <2>2, <3>1, TellsNext
  <2>3. CASE t = k /\ ~Exists(k)
    BY <1>1, <1>2, <1>3, <2>3, TellsNext, AbsentIsUntold
  <2> QED BY <2>1, <2>2, <2>3
<1>6. \A i \in DOMAIN outbox'[w] :
         \/ outbox'[w][i].tx = k
         \/ \E j \in DOMAIN outbox[w] : outbox'[w][i].tx = outbox[w][j].tx
  BY <1>1, <1>2, <1>3, OneMoreEvent
<1> QED BY <1>1, <1>3, <1>4, <1>5, <1>6, OtherWalletsKeepEvents

\* A row is written with its outcome, its entry and the event of the entry.
LEMMA ChangeKeepsEvents ==
    ASSUME EventsInv, LedgerInv, NEW k \in TxIds, NEW w \in Wallets,
           NEW entry \in EntryType,
           WritesRowOf(k, w), EnqueuesChange(k, w, entry),
           txs'[k].status \in Statuses \ {"FAILED"}
    PROVE  EventsInv'
<1> DEFINE s == outbox[w]
           e == OutcomeEvent(k, txs'[k].status)
           b == BalanceEvent(k, entry, Len(ledger[w]) + 1)
           m == Append(s, e)
<1>1. /\ s \in Seq(EventType) /\ ledger[w] \in Seq(EntryType)
      /\ Len(ledger[w]) + 1 \in Nat /\ entry.tx = k
  BY LenProperties DEF LedgerInv, TypeOK, EnqueuesChange
<1>2. e \in EventType /\ e.tx = k /\ e.type = txs'[k].status /\ e.type # "BALANCE_CHANGED"
  BY DEF OutcomeEvent, EventType, OutcomeEventType, Statuses
<1>3. /\ b \in EventType /\ b.tx = k /\ b.type = "BALANCE_CHANGED"
      /\ b.entry = entry /\ b.version = Len(ledger[w]) + 1
  BY <1>1 DEF BalanceEvent, EventType, BalanceEventType
<1>4. /\ outbox'[w] = s \o <<e, b>>
      /\ \A v \in Wallets \ {w} : outbox'[v] = outbox[v] /\ ledger'[v] = ledger[v]
      /\ ledger'[w] = Append(ledger[w], entry)
  BY DEF EnqueuesChange, LedgerInv, TypeOK
<1> HIDE DEF e, b
<1>5. m \in Seq(EventType) /\ outbox'[w] = Append(m, b)
  <2>1. m \in Seq(EventType)
    BY <1>1, <1>2
  <2>2. s \o <<e, b>> = Append(m, b)
    BY ONLY <1>1, <1>2, <1>3 DEF m
  <2> QED BY <1>4, <2>1, <2>2
<1>6. Mirrors(m, ledger[w])
  BY <1>1, <1>2, MirrorsOutcome DEF EventsInv, EventsMirrorLedger
<1>7. ASSUME NEW t \in TxIds, txs'[t] # None, txs'[t].req.wallet = w
      PROVE  Tells(m, t, txs'[t].status)
  <2>1. CASE t # k
    <3>1. Tells(s, t, txs'[t].status)
      BY <1>7, <2>1 DEF WritesRowOf, EventsInv, OutcomesTellStatus, Exists
    <3> QED BY <1>1, <1>2, <2>1, <3>1, TellsStill
  <2>2. CASE t = k /\ Exists(k)
    <3>1. Tells(s, k, "PENDING_REFERENCE") /\ e.type # "PENDING_REFERENCE"
      BY <1>2, <2>2 DEF WritesRowOf, EventsInv, OutcomesTellStatus
    <3> QED BY <1>1, <1>2, <2>2, <3>1, TellsNext
  <2>3. CASE t = k /\ ~Exists(k)
    BY <1>1, <1>2, <2>3, TellsNext, AbsentIsUntold
  <2> QED BY <2>1, <2>2, <2>3
<1>8. \A i \in DOMAIN m :
         m[i].tx = k \/ \E j \in DOMAIN s : m[i].tx = s[j].tx
  BY <1>1, <1>2, OneMoreEvent
<1> HIDE DEF m
<1>9. Mirrors(outbox'[w], ledger'[w])
  BY <1>1, <1>3, <1>4, <1>5, <1>6, MirrorsChange
<1>10. \A t \in TxIds : txs'[t] # None /\ txs'[t].req.wallet = w =>
          Tells(outbox'[w], t, txs'[t].status)
  BY <1>3, <1>5, <1>7, TellsStill
<1>11. \A i \in DOMAIN outbox'[w] :
          \/ outbox'[w][i].tx = k
          \/ \E j \in DOMAIN outbox[w] : outbox'[w][i].tx = outbox[w][j].tx
  BY <1>3, <1>5, <1>8, OneMoreEvent
<1> QED BY <1>4, <1>9, <1>10, <1>11, OtherWalletsKeepEvents

\* A row that is not told of.
LEMMA SilenceKeepsEvents ==
    ASSUME EventsInv, LedgerInv, NEW k \in TxIds, NEW w \in Wallets,
           WritesRowOf(k, w), ~Exists(k), txs'[k].status = "FAILED",
           UNCHANGED <<ledger, outbox>>
    PROVE  EventsInv'
<1>1. Mirrors(outbox'[w], ledger'[w])
  BY DEF EventsInv, EventsMirrorLedger
<1>2. \A t \in TxIds : txs'[t] # None /\ txs'[t].req.wallet = w =>
         Tells(outbox'[w], t, txs'[t].status)
  <2>1. Tells(outbox[w], k, "FAILED")
    BY AbsentIsUntold DEF Tells
  <2> QED BY <2>1 DEF WritesRowOf, EventsInv, OutcomesTellStatus, Exists
<1> QED BY <1>1, <1>2, OtherWalletsKeepEvents

LEMMA SameKeepsEvents ==
    ASSUME EventsInv, UNCHANGED <<txs, ledger, outbox>>
    PROVE  EventsInv'
BY DEF EventsInv, EventsMirrorLedger, OutcomesTellStatus, EventsHaveRows, Exists

-----------------------------------------------------------------------------
(***************************************************************************)
(* Each use case.                                                          *)
(***************************************************************************)
LEMMA CreateWalletKeepsEvents ==
    ASSUME LedgerInv, ReversalInv, EventsInv,
           NEW w \in Wallets, NEW p \in Players, NEW c \in Currencies,
           NEW b \in InitialBalances, CreateWallet(w, p, c, b)
    PROVE  EventsInv'
<1> DEFINE entry == Entry(w, "CREDIT", b, 0)
           row == [req |-> OpeningRequest(w, p, c, b), status |-> "PROCESSED",
                   failure |-> None, reference |-> None, balanceAfter |-> b]
<1>1. b \in 0..MaxBalance /\ w \in TxIds
  BY InitialBalancesAssumption DEF TxIds
<1>2. /\ wallets[w] = None
      /\ txs' = [txs EXCEPT ![w] = row]
      /\ ledger' = [ledger EXCEPT ![w] = Append(@, entry)]
      /\ outbox' = [outbox EXCEPT ![w] =
            @ \o <<OutcomeEvent(w, "PROCESSED"), BalanceEvent(w, entry, 1)>>]
  BY <1>1 DEF CreateWallet, IsPositive
<1>3. ~Exists(w)
  BY <1>1, <1>2 DEF ReversalInv, OpeningsAreOwn, LedgerInv, RowsHaveWallets
<1>4. txs'[w] = row /\ \A t \in TxIds \ {w} : txs'[t] = txs[t]
  BY <1>1, <1>2 DEF LedgerInv, TypeOK
<1>5. txs'[w].status = "PROCESSED" /\ txs'[w].req.wallet = w
  BY <1>4 DEF OpeningRequest
<1>6. txs'[w] # None
  <2>1. OpeningRequest(w, p, c, b) \in RequestType
    BY <1>1 DEF OpeningRequest, RequestType, Kinds
  <2>2. row \in TransactionType
    BY <1>1, <2>1 DEF TransactionType, Statuses
  <2> HIDE DEF row
  <2> QED BY <1>4, <2>2, NoneAssumption
<1>7. entry \in EntryType /\ entry.tx = w
  BY <1>1, EntryTyped, MaxBalanceAssumption DEF Entry, BalanceAfter, EntryTypes
<1>8. Len(ledger[w]) + 1 = 1
  BY <1>2, EmptySeq DEF LedgerInv, LedgerExplainsBalance
<1>9. WritesRowOf(w, w)
  BY <1>3, <1>4, <1>5, <1>6 DEF WritesRowOf
<1> HIDE DEF entry, row
<1>10. EnqueuesChange(w, w, entry)
  BY <1>2, <1>5, <1>7, <1>8 DEF EnqueuesChange
<1> QED BY <1>1, <1>5, <1>7, <1>9, <1>10, ChangeKeepsEvents DEF Statuses

LEMMA SaveKeepsEvents ==
    ASSUME LedgerInv, EventsInv,
           NEW k \in TxIds, NEW req \in RequestType, wallets[req.wallet] # None,
           NEW d, d.status \notin {"ABORTED", "FAILED"},
           SoundDecision(d, wallets[req.wallet], req),
           Exists(k) => /\ txs[k].status = "PENDING_REFERENCE" /\ txs[k].req = req
                        /\ d.status # "PENDING_REFERENCE",
           NEW reference \in TxIds \cup {None},
           Save(k, req, req.wallet, d, reference)
    PROVE  EventsInv'
<1> DEFINE w == req.wallet
           wallet == wallets[w]
           entry == Entry(k, d.type, req.amount, wallet.balance)
<1>1. w \in Wallets /\ wallet \in WalletType
  BY DEF RequestType, LedgerInv, TypeOK
<1>2. /\ txs'[k] # None /\ txs'[k].req = req /\ txs'[k].status = d.status
      /\ \A t \in TxIds \ {k} : txs'[t] = txs[t]
  BY <1>1, SaveKeepsTables DEF LedgerInv
<1>3. WritesRowOf(k, w) /\ txs'[k].status \in Statuses \ {"FAILED"}
  BY <1>2 DEF WritesRowOf, SoundDecision, Statuses
<1>4. CASE d.type = None
  <2>1. EnqueuesOutcome(k, w)
    BY <1>2, <1>4 DEF Save, EnqueuesOutcome
  <2> QED BY <1>1, <1>3, <2>1, OutcomeKeepsEvents
<1>5. CASE d.type # None
  <2>1. /\ d.type \in EntryTypes
        /\ wallet.balance \in 0..MaxBalance /\ req.amount \in 0..MaxBalance
        /\ d.type = "DEBIT" => req.amount <= wallet.balance
        /\ d.type = "CREDIT" => wallet.balance + req.amount <= MaxBalance
    BY <1>1, <1>5 DEF WalletType, RequestType, SoundDecision
  <2>2. BalanceAfter(d.type, wallet.balance, req.amount) \in 0..MaxBalance
    BY <2>1, MaxBalanceAssumption DEF BalanceAfter, EntryTypes
  <2>3. entry \in EntryType /\ entry.tx = k
    BY <2>1, <2>2, EntryTyped DEF Entry
  <2>4. NextVersion(wallet) = Len(ledger[w]) + 1
    BY <1>1 DEF LedgerInv, VersionCountsEntries, NextVersion
  <2>5. EnqueuesChange(k, w, entry)
    BY <1>2, <1>5, <2>3, <2>4 DEF Save, EnqueuesChange
  <2> QED BY <1>1, <1>3, <2>3, <2>5, ChangeKeepsEvents
<1> QED BY <1>4, <1>5

LEMMA DecideStatus ==
    ASSUME NEW wallet, NEW req, NEW reference, NEW reversed \in BOOLEAN
    PROVE  Decide(wallet, req, reference, reversed).status
              \in {"PROCESSED", "REJECTED", "PENDING_REFERENCE", "ABORTED"}
BY MoveMoneyStatus, DecideReversalStatus DEF Decide, Processed, Pending

LEMMA SubmitKeepsEvents ==
    ASSUME LedgerInv, EventsInv, NEW r \in Requests, Submit(r)
    PROVE  EventsInv'
<1>1. /\ r \in RequestType /\ r.wallet \in Wallets /\ r.key \in TxIds
      /\ wallets[r.wallet] # None /\ ~Exists(r.key)
  BY RequestsTyped DEF Submit, Insertable
<1>2. PICK read \in ReferenceReadings(r) :
         LET d == Decide(wallets[r.wallet], r, RowRead(read),
                         AlreadyReversed(read.reference, r.kind))
         IN  d.status # "ABORTED" /\ Save(r.key, r, r.wallet, d, read.reference)
  BY DEF Submit
<1> DEFINE reversed == AlreadyReversed(read.reference, r.kind)
           d == Decide(wallets[r.wallet], r, RowRead(read), reversed)
<1>3. read.reference \in TxIds \cup {None}
  BY DEF ReferenceReadings, CurrentReadings, EarlierReadings, MissingReading,
         Reading, WithExternal
<1>4. SoundDecision(d, wallets[r.wallet], r)
  BY <1>1, DecideSound DEF LedgerInv, TypeOK
<1>5. d.status \notin {"ABORTED", "FAILED"}
  <2>1. reversed \in BOOLEAN
    BY DEF AlreadyReversed
  <2> HIDE DEF reversed
  <2> QED BY <1>2, <2>1, DecideStatus DEF reversed
<1>6. Save(r.key, r, r.wallet, d, read.reference)
  BY <1>2
<1> HIDE DEF d
<1> QED BY <1>1, <1>3, <1>4, <1>5, <1>6, SaveKeepsEvents

LEMMA FinishWithReferenceKeepsEvents ==
    ASSUME LedgerInv, EventsInv, NEW k \in Keys, FinishWithReference(k)
    PROVE  EventsInv'
<1> DEFINE req == txs[k].req
           ref == reading[k].reference
           reversed == AlreadyReversed(ref, req.kind)
           d == DecideReversal(wallets[req.wallet], req, RowRead(reading[k]), reversed)
<1>1. /\ k \in TxIds /\ Exists(k) /\ txs[k].status = "PENDING_REFERENCE"
      /\ reading[k] # None /\ d.status # "ABORTED"
      /\ Save(k, req, req.wallet, d, ref)
  BY DEF FinishWithReference, LedgerInv, ReadingIsPending, TxIds
<1>2. req \in RequestType /\ req.wallet \in Wallets /\ wallets[req.wallet] # None
  BY <1>1, RowTyped DEF LedgerInv, RowsHaveWallets
<1>3. ref \in TxIds \cup {None}
  BY <1>1 DEF LedgerInv, TypeOK, ReadingType
<1>4. SoundDecision(d, wallets[req.wallet], req)
  BY <1>2, DecideReversalSound DEF LedgerInv, TypeOK
<1>5. d.status \in {"PROCESSED", "REJECTED"}
  <2>1. reversed \in BOOLEAN
    BY DEF AlreadyReversed
  <2> HIDE DEF reversed
  <2> QED BY <1>1, <2>1, DecideReversalStatus DEF reversed
<1> HIDE DEF d
<1> QED BY <1>1, <1>2, <1>3, <1>4, <1>5, SaveKeepsEvents

LEMMA FinishWithoutReferenceKeepsEvents ==
    ASSUME LedgerInv, EventsInv, NEW k \in Keys, FinishWithoutReference(k)
    PROVE  EventsInv'
<1> DEFINE w == txs[k].req.wallet
<1>1. /\ k \in TxIds /\ Exists(k) /\ txs[k].status = "PENDING_REFERENCE"
      /\ ledger' = ledger
  BY DEF FinishWithoutReference, LedgerInv, ReadingIsPending, TxIds
<1>2. txs[k] \in TransactionType /\ w \in Wallets
  BY <1>1, RowTyped DEF LedgerInv
<1>3. CASE UNCHANGED <<txs, outbox>>
  BY <1>1, <1>3, SameKeepsEvents
<1>4. CASE /\ txs' = [txs EXCEPT ![k].status = "REJECTED",
                                 ![k].failure = "REFERENCE_NOT_FOUND"]
           /\ outbox' = [outbox EXCEPT ![w] = Append(@, OutcomeEvent(k, "REJECTED"))]
  <2>1. /\ txs'[k] \in TransactionType
        /\ txs'[k].req = txs[k].req /\ txs'[k].status = "REJECTED"
        /\ \A t \in TxIds \ {k} : txs'[t] = txs[t]
    BY <1>1, <1>2, <1>4 DEF LedgerInv, TypeOK, TransactionType, Statuses, FailureCodes
  <2>2. WritesRowOf(k, w) /\ EnqueuesOutcome(k, w)
    BY <1>1, <1>4, <2>1, NoneAssumption DEF WritesRowOf, EnqueuesOutcome
  <2> QED BY <1>1, <1>2, <2>1, <2>2, OutcomeKeepsEvents DEF Statuses
<1> QED BY <1>3, <1>4 DEF FinishWithoutReference

LEMMA FailTransactionKeepsEvents ==
    ASSUME LedgerInv, EventsInv, NEW r \in Requests, FailTransaction(r)
    PROVE  EventsInv'
<1> DEFINE row == [req |-> r, status |-> "FAILED",
                   failure |-> "PERMANENT_INFRASTRUCTURE_ERROR",
                   reference |-> None, balanceAfter |-> wallets[r.wallet].balance]
<1>1. /\ r \in RequestType /\ r.key \in TxIds /\ r.wallet \in Wallets
      /\ wallets[r.wallet] # None /\ ~Exists(r.key)
  BY RequestsTyped DEF FailTransaction, Insertable
<1>2. row \in TransactionType
  BY <1>1 DEF LedgerInv, TypeOK, WalletType, TransactionType, Statuses, FailureCodes
<1>3. txs'[r.key] = row /\ \A t \in TxIds \ {r.key} : txs'[t] = txs[t]
  BY <1>1 DEF FailTransaction, LedgerInv, TypeOK
<1>4. txs'[r.key] # None
  BY <1>2, <1>3, NoneAssumption
<1>5. WritesRowOf(r.key, r.wallet) /\ txs'[r.key].status = "FAILED"
  BY <1>1, <1>3, <1>4 DEF WritesRowOf
<1>6. UNCHANGED <<ledger, outbox>>
  BY DEF FailTransaction
<1> QED BY <1>1, <1>5, <1>6, SilenceKeepsEvents

LEMMA EventsInvInit == Init => EventsInv
BY DEF Init, EventsInv, EventsMirrorLedger, Mirrors, ChangesIn, OutcomesTellStatus,
       EventsHaveRows, Exists

LEMMA EventsInvStep ==
    LedgerInv /\ ReversalInv /\ EventsInv /\ [Next]_vars => EventsInv'
<1> SUFFICES ASSUME LedgerInv, ReversalInv, EventsInv, [Next]_vars PROVE EventsInv'
  OBVIOUS
<1>1. ASSUME NEW w \in Wallets, NEW p \in Players, NEW c \in Currencies,
             NEW b \in InitialBalances, CreateWallet(w, p, c, b)
      PROVE  EventsInv'
  BY <1>1, CreateWalletKeepsEvents
<1>2. ASSUME NEW r \in Requests, Submit(r) PROVE EventsInv'
  BY <1>2, SubmitKeepsEvents
<1>3. ASSUME NEW r \in Failing, FailTransaction(r) PROVE EventsInv'
  BY <1>3, FailingAssumption, FailTransactionKeepsEvents
<1>4. ASSUME NEW k \in Keys, FinishWithoutReference(k) PROVE EventsInv'
  BY <1>4, FinishWithoutReferenceKeepsEvents
<1>5. ASSUME NEW k \in Keys, FinishWithReference(k) PROVE EventsInv'
  BY <1>5, FinishWithReferenceKeepsEvents
<1>6. ASSUME UNCHANGED <<txs, ledger, outbox>> PROVE EventsInv'
  BY <1>6, SameKeepsEvents
<1> QED
  BY <1>1, <1>2, <1>3, <1>4, <1>5, <1>6
  DEF Next, BeginReprocess, AbortReprocess, vars

(***************************************************************************)
(* The balance events of every wallet are its ledger, once each and in     *)
(* order, for any mix of submissions, failures and reprocessings.          *)
(***************************************************************************)
THEOREM EventsFollowLedger == Spec => []EventsMirrorLedger
<1>1. EventsInv => EventsMirrorLedger
  BY DEF EventsInv
<1> QED BY <1>1, LedgerInvInit, LedgerInvStep, ReversalInvInit, ReversalInvStep,
           EventsInvInit, EventsInvStep, PTL DEF Spec

(***************************************************************************)
(* The outcome events of every row tell the statuses it has had, each once *)
(* and its present one last; a FAILED row has none.                        *)
(***************************************************************************)
THEOREM EventsFollowRows == Spec => []OutcomesTellStatus
<1>1. EventsInv => OutcomesTellStatus
  BY DEF EventsInv
<1> QED BY <1>1, LedgerInvInit, LedgerInvStep, ReversalInvInit, ReversalInvStep,
           EventsInvInit, EventsInvStep, PTL DEF Spec
=============================================================================
