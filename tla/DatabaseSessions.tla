-------------------------- MODULE DatabaseSessions --------------------------
(***************************************************************************)
(* The use cases of WageringTransactions statement by statement: each      *)
(* session runs one database transaction at READ COMMITTED, takes its row  *)
(* locks in the order the code does, reads what others have committed, and *)
(* makes its writes visible when it commits.  It may be rolled back at any *)
(* point (a crash, a lost connection, an SQL error).                       *)
(*                                                                         *)
(*   SUBMIT     SubmitWagerTransactionUseCase (HTTP or consumer)           *)
(*   FAIL       the consumer's persistFailedTransaction                    *)
(*   REPROCESS  ReprocessPendingReferenceUseCase                           *)
(*                                                                         *)
(* pc names the statement a session executes next; the locks it holds      *)
(* follow from pc.  The committed tables are those of WageringTransactions,*)
(* and so is what a reprocessing has read of its reference (reading); the  *)
(* atomic use cases of that module are what the sessions implement.        *)
(***************************************************************************)
EXTENDS WageringTransactions

CONSTANTS
    Sessions,   \* the sessions
    Task        \* Task[s]: [kind, req] or, for REPROCESS, [kind, key, last]

VARIABLES
    pc,        \* pc[s]: the next statement of session s
    seen,      \* seen[s]: the reference row submission s read, None before
    loaded,    \* loaded[s]: the wallet row s read when it locked it
    reversed,  \* reversed[s]: the answer of its query for an earlier reversal
    answer     \* answer[s]: what s told its caller, None before

tables == <<wallets, txs, ledger, outbox>>
sessionVars == <<pc, seen, loaded, reversed, answer>>
allVars == <<vars, sessionVars>>

\* A session submits a wager, or records one that failed, or reprocesses a
\* row; each worker reprocesses one at a time.
ASSUME TasksAssumption ==
    \A s \in Sessions :
        \/ Task[s].kind = "SUBMIT" /\ Task[s].req \in Requests
        \/ Task[s].kind = "FAIL" /\ Task[s].req \in Failing
        \/ /\ Task[s].kind = "REPROCESS"
           /\ Task[s].key \in Keys /\ Task[s].last \in BOOLEAN
Reprocessings == {s \in Sessions : Task[s].kind = "REPROCESS"}
ASSUME ReprocessingsAssumption ==
    IsFiniteSet(Reprocessings) /\ Cardinality(Reprocessings) <= Workers

Statements ==
    {"begin", "existing", "wallet", "reference", "previous", "write",
     "commit", "done"}

KindOf(s) == Task[s].kind
IsReprocess(s) == KindOf(s) = "REPROCESS"
KeyOf(s) == IF IsReprocess(s) THEN Task[s].key ELSE Task[s].req.key
RequestOf(s) == IF IsReprocess(s) THEN txs[Task[s].key].req ELSE Task[s].req

\* What s read of its reference: None before, and when it has none to read.
Seen(s) == IF IsReprocess(s) THEN reading[KeyOf(s)] ELSE seen[s]

SeenType == [reference: TxIds \cup {None}, status: Statuses \cup {None}]
AnswerType ==
    [outcome: {"NEW", "REPLAY", "CONFLICT", "ERROR"},
     status: Statuses \cup {None}, balance: (0..MaxBalance) \cup {None}]
ASSUME NothingAssumption ==
    /\ None \notin SeenType
    /\ None \notin AnswerType
    /\ None \notin [req: RequestType, status: Statuses]

(***************************************************************************)
(* Locks.  A row lock is held from the statement that takes it until the   *)
(* transaction ends; the entry of a unique index from the insert on.       *)
(***************************************************************************)
HoldsKey(s, k) ==
    /\ ~IsReprocess(s) /\ KeyOf(s) = k
    /\ pc[s] \notin {"begin", "done"}
HoldsWallet(s, w) ==
    /\ \/ ~IsReprocess(s) /\ pc[s] \in {"reference", "previous", "write", "commit"}
       \/ /\ IsReprocess(s) /\ pc[s] \in {"previous", "write", "commit"}
          /\ Seen(s).reference # None
    /\ RequestOf(s).wallet = w
HoldsRow(s, k) ==
    /\ IsReprocess(s) /\ KeyOf(s) = k
    /\ pc[s] \notin {"begin", "done"}
HoldsExternal(s, x) ==
    /\ ~IsReprocess(s) /\ pc[s] = "commit"
    /\ Task[s].req.external = x

Others(s) == Sessions \ {s}

-----------------------------------------------------------------------------
SessionsInit ==
    /\ Init
    /\ pc = [s \in Sessions |-> "begin"]
    /\ seen = [s \in Sessions |-> None]
    /\ loaded = [s \in Sessions |-> None]
    /\ reversed = [s \in Sessions |-> FALSE]
    /\ answer = [s \in Sessions |-> None]

Goto(s, statement) == pc' = [pc EXCEPT ![s] = statement]
Told(outcome, status, balance) ==
    [outcome |-> outcome, status |-> status, balance |-> balance]
Reply(s, a) == answer' = [answer EXCEPT ![s] = a]
Refused == Told("ERROR", None, None)
FromRow(outcome, row) == Told(outcome, row.status, row.balanceAfter)

\* The end of a transaction, which drops what it had read.
End(s, a) ==
    /\ Goto(s, "done")
    /\ Reply(s, a)
    /\ seen' = [seen EXCEPT ![s] = None]
    /\ loaded' = [loaded EXCEPT ![s] = None]
    /\ reversed' = [reversed EXCEPT ![s] = FALSE]
    /\ reading' = IF IsReprocess(s) THEN [reading EXCEPT ![KeyOf(s)] = None]
                                     ELSE reading
EndWith(s, a) == End(s, a) /\ UNCHANGED tables
Continue(s, statement) ==
    /\ Goto(s, statement)
    /\ UNCHANGED <<vars, seen, loaded, reversed, answer>>

\* Wallets are opened by a single insert; no session has to wait for it.
OpenWallet(w, p, c, initial) ==
    /\ CreateWallet(w, p, c, initial)
    /\ UNCHANGED sessionVars

Decision(s) ==
    LET req == RequestOf(s)
        row == IF Seen(s) = None THEN None ELSE RowRead(Seen(s))
    IN  IF IsReprocess(s)
        THEN DecideReversal(loaded[s], req, row, reversed[s])
        ELSE Decide(loaded[s], req, row, reversed[s])

\* A reference that is read FOR SHARE waits whatever is decided.
WaitsWhateverDecided(s) ==
    Seen(s) # None /\ \E t \in Others(s) : HoldsRow(t, Seen(s).reference)

WaitsForReference(s) ==
    /\ Seen(s) # None /\ Decision(s).status = "PROCESSED"
    /\ \E t \in Others(s) : HoldsRow(t, Seen(s).reference)

\* The insert into idempotency_keys waits for a transaction that inserted the
\* key and has not ended; the select for update then locks the row.
ClaimKey(s) ==
    /\ pc[s] = "begin" /\ ~IsReprocess(s)
    /\ \A t \in Others(s) : ~HoldsKey(t, KeyOf(s))
    /\ IF KindOf(s) = "SUBMIT" => IsPositive(Task[s].req.amount)
       THEN Continue(s, "existing")
       ELSE EndWith(s, Refused)

\* A stored result that is returned as a new one.
FindExistingAsNew(s) ==
    /\ pc[s] = "existing"
    /\ IF ~Exists(KeyOf(s)) THEN Continue(s, "wallet")
       ELSE EndWith(s, FromRow("NEW", txs[KeyOf(s)]))

\* A row with this key: a conflict, or the stored result again.
FindExisting(s) ==
    /\ pc[s] = "existing"
    /\ IF ~Exists(KeyOf(s)) THEN Continue(s, "wallet")
       ELSE IF KindOf(s) = "SUBMIT" /\ txs[KeyOf(s)].req # Task[s].req
       THEN EndWith(s, Told("CONFLICT", None, None))
       ELSE EndWith(s, FromRow("REPLAY", txs[KeyOf(s)]))

\* A missing wallet, another player, a reversal that names no reference.
RefusedOn(s, wallet) ==
    /\ ~IsReprocess(s)
    /\ \/ wallet = None
       \/ KindOf(s) = "SUBMIT" /\ wallet.player # Task[s].req.player
       \/ IsReversal(Task[s].req) /\ Task[s].req.reference = None

AfterWallet(s) ==
    IF IsReprocess(s) THEN "previous"
    ELSE IF KindOf(s) = "SUBMIT" /\ IsReversal(Task[s].req) THEN "reference"
    ELSE "write"

\* The wallet read without LockMode.PESSIMISTIC_WRITE.
ReadWalletUnlocked(s) ==
    LET wallet == wallets[RequestOf(s).wallet]
    IN  /\ pc[s] = "wallet"
        /\ IF RefusedOn(s, wallet) THEN EndWith(s, Refused)
           ELSE /\ loaded' = [loaded EXCEPT ![s] = wallet]
                /\ Goto(s, AfterWallet(s))
                /\ UNCHANGED <<vars, seen, reversed, answer>>

LockWallet(s) ==
    LET wallet == wallets[RequestOf(s).wallet]
    IN  /\ pc[s] = "wallet"
        /\ \A t \in Others(s) : ~HoldsWallet(t, RequestOf(s).wallet)
        /\ IF RefusedOn(s, wallet) THEN EndWith(s, Refused)
           ELSE /\ loaded' = [loaded EXCEPT ![s] = wallet]
                /\ Goto(s, AfterWallet(s))
                /\ UNCHANGED <<vars, seen, reversed, answer>>

\* The reference is read without a lock: by a submission under the wallet's
\* lock, by a reprocessing before it.
ReadReference(s) ==
    /\ pc[s] = "reference"
    /\ \E read \in CurrentReadings(RequestOf(s).reference) :
          /\ IF IsReprocess(s)
             THEN /\ reading' = [reading EXCEPT ![KeyOf(s)] =
                        [reference |-> read.reference, status |-> read.status,
                         rejectIfMissing |-> Task[s].last]]
                  /\ UNCHANGED seen
             ELSE /\ seen' = [seen EXCEPT ![s] = read]
                  /\ UNCHANGED reading
          /\ Goto(s, IF read.reference = None THEN "write"
                     ELSE IF IsReprocess(s) THEN "wallet" ELSE "previous")
    /\ UNCHANGED <<tables, loaded, reversed, answer>>

ReadPrevious(s) ==
    /\ pc[s] = "previous"
    /\ reversed' = [reversed EXCEPT ![s] =
          AlreadyReversed(Seen(s).reference, RequestOf(s).kind)]
    /\ Goto(s, "write")
    /\ UNCHANGED <<vars, seen, loaded, answer>>

(***************************************************************************)
(* The flush.  The insert waits for another uncommitted row with the same  *)
(* (provider, external id) and fails when one is committed.  The foreign   *)
(* key of a processed reversal waits for a lock of the reference's row.    *)
(***************************************************************************)
Flush(s) ==
    /\ pc[s] = "write" /\ ~IsReprocess(s)
    /\ \A t \in Others(s) : ~HoldsExternal(t, Task[s].req.external)
    /\ KindOf(s) = "SUBMIT" => ~WaitsForReference(s)
    /\ IF \/ WithExternal(Task[s].req.external) # {}
          \/ KindOf(s) = "SUBMIT" /\ Decision(s).status = "ABORTED"
       THEN EndWith(s, Refused)
       ELSE Continue(s, "commit")

(***************************************************************************)
(* What the flush writes: the wallet as computed from the row that was     *)
(* loaded, in absolute values, the transaction, the entry and the events.  *)
(***************************************************************************)
Write(s) ==
    LET k == KeyOf(s)
        req == RequestOf(s)
        d == Decision(s)
        before == loaded[s].balance
        after == BalanceAfter(d.type, before, req.amount)
        entry == Entry(k, d.type, req.amount, before)
        outcome == OutcomeEvent(k, d.status)
        version == NextVersion(loaded[s])
    IN  /\ txs' = [txs EXCEPT ![k] =
              [req |-> req, status |-> d.status, failure |-> d.failure,
               reference |-> IF d.status = "PROCESSED" /\ Seen(s) # None
                             THEN Seen(s).reference ELSE None,
               balanceAfter |-> after]]
        /\ IF d.type = None
           THEN /\ outbox' = [outbox EXCEPT ![req.wallet] = Append(@, outcome)]
                /\ UNCHANGED <<wallets, ledger>>
           ELSE /\ wallets' = [wallets EXCEPT ![req.wallet] =
                      [loaded[s] EXCEPT !.balance = after, !.version = version]]
                /\ ledger' = [ledger EXCEPT ![req.wallet] = Append(@, entry)]
                /\ outbox' = [outbox EXCEPT ![req.wallet] =
                      @ \o <<outcome, BalanceEvent(k, entry, version)>>]

\* A FAILED transaction that publishes its status.
WriteFailedWithEvent(s) ==
    /\ txs' = [txs EXCEPT ![KeyOf(s)] =
          [req |-> RequestOf(s), status |-> "FAILED",
           failure |-> "PERMANENT_INFRASTRUCTURE_ERROR", reference |-> None,
           balanceAfter |-> loaded[s].balance]]
    /\ outbox' = [outbox EXCEPT ![RequestOf(s).wallet] =
          Append(@, OutcomeEvent(KeyOf(s), "FAILED"))]
    /\ UNCHANGED <<wallets, ledger>>

WriteFailed(s) ==
    /\ txs' = [txs EXCEPT ![KeyOf(s)] =
          [req |-> RequestOf(s), status |-> "FAILED",
           failure |-> "PERMANENT_INFRASTRUCTURE_ERROR", reference |-> None,
           balanceAfter |-> loaded[s].balance]]
    /\ UNCHANGED <<wallets, ledger, outbox>>

WriteNotFound(s) ==
    /\ txs' = [txs EXCEPT ![KeyOf(s)].status = "REJECTED",
                          ![KeyOf(s)].failure = "REFERENCE_NOT_FOUND"]
    /\ outbox' = [outbox EXCEPT ![RequestOf(s).wallet] =
          Append(@, OutcomeEvent(KeyOf(s), "REJECTED"))]
    /\ UNCHANGED <<wallets, ledger>>

Commit(s) ==
    /\ pc[s] = "commit" /\ ~IsReprocess(s)
    /\ IF KindOf(s) = "SUBMIT" THEN Write(s) ELSE WriteFailed(s)
    /\ End(s, FromRow("NEW", txs'[KeyOf(s)]))

\* A claimed transaction reprocessed whatever its status has become.
LockRowOfAnyStatus(s) ==
    /\ pc[s] = "begin" /\ IsReprocess(s)
    /\ Exists(KeyOf(s))
    /\ Continue(s, "reference")

\* A claimed transaction: its row is locked, and left alone unless pending.
LockRow(s) ==
    /\ pc[s] = "begin" /\ IsReprocess(s)
    /\ Exists(KeyOf(s))
    /\ \A t \in Others(s) : ~HoldsRow(t, KeyOf(s))
    /\ IF txs[KeyOf(s)].status = "PENDING_REFERENCE"
       THEN Continue(s, "reference")
       ELSE EndWith(s, FromRow("REPLAY", txs[KeyOf(s)]))

ReprocessFlush(s) ==
    /\ pc[s] = "write" /\ IsReprocess(s)
    /\ Seen(s).reference # None => ~WaitsForReference(s)
    /\ IF Seen(s).reference # None /\ Decision(s).status = "ABORTED"
       THEN EndWith(s, Refused)
       ELSE Continue(s, "commit")

ReprocessCommit(s) ==
    /\ pc[s] = "commit" /\ IsReprocess(s)
    /\ IF Seen(s).reference # None THEN Write(s)
       ELSE IF Task[s].last THEN WriteNotFound(s)
       ELSE UNCHANGED tables
    /\ End(s, FromRow("NEW", txs'[KeyOf(s)]))

\* The transaction is rolled back and its locks are released.
Abort(s) ==
    /\ pc[s] \notin {"begin", "done"}
    /\ EndWith(s, Refused)

Step(s) ==
    \/ ClaimKey(s) \/ FindExisting(s) \/ LockWallet(s) \/ ReadReference(s)
    \/ ReadPrevious(s) \/ Flush(s) \/ Commit(s)
    \/ LockRow(s) \/ ReprocessFlush(s) \/ ReprocessCommit(s)

SessionsNext ==
    \/ \E w \in Wallets, p \in Players, c \in Currencies, b \in InitialBalances :
          OpenWallet(w, p, c, b)
    \/ \E s \in Sessions : ClaimKey(s)
    \/ \E s \in Sessions : FindExisting(s)
    \/ \E s \in Sessions : LockWallet(s)
    \/ \E s \in Sessions : ReadReference(s)
    \/ \E s \in Sessions : ReadPrevious(s)
    \/ \E s \in Sessions : Flush(s)
    \/ \E s \in Sessions : Commit(s)
    \/ \E s \in Sessions : LockRow(s)
    \/ \E s \in Sessions : ReprocessFlush(s)
    \/ \E s \in Sessions : ReprocessCommit(s)
    \/ \E s \in Sessions : Abort(s)

\* The database runs the statements it is sent and grants free locks.
SessionsSafeSpec == SessionsInit /\ [][SessionsNext]_allVars
SessionsSpec ==
    SessionsSafeSpec /\ \A s \in Sessions : WF_allVars(Step(s))

-----------------------------------------------------------------------------
(***************************************************************************)
(* Type invariant of the sessions; TypeOK is that of the tables.           *)
(***************************************************************************)
SessionsTypeOK ==
    /\ TypeOK
    /\ pc \in [Sessions -> Statements]
    /\ seen \in [Sessions -> SeenType \cup {None}]
    /\ loaded \in [Sessions -> WalletType \cup {None}]
    /\ reversed \in [Sessions -> BOOLEAN]
    /\ answer \in [Sessions -> AnswerType \cup {None}]

(***************************************************************************)
(* The sessions implement WageringTransactions: under every interleaving   *)
(* of their statements and with a rollback anywhere, what is committed is  *)
(* what the atomic use cases could have committed.                         *)
(***************************************************************************)
ImplementsTransactions == Spec

(***************************************************************************)
(* No lost updates: two sessions never write the same wallet or the same   *)
(* key at a time, although a reprocessing takes the wallet's lock late and *)
(* a rejected one never takes it.                                          *)
(***************************************************************************)
Writing(s) == pc[s] \in {"write", "commit"}
NoConcurrentWriters ==
    \A s, t \in Sessions : s # t /\ Writing(s) /\ Writing(t) =>
        /\ KeyOf(s) # KeyOf(t)
        /\ RequestOf(s).wallet = RequestOf(t).wallet =>
              \E u \in {s, t} : IsReprocess(u) /\ Seen(u).reference = None

(***************************************************************************)
(* What a caller was told is the truth: a reported outcome is the stored   *)
(* one unless that was still pending then, so two deliveries of the same   *)
(* wager are told the same final status and the same balance.              *)
(***************************************************************************)
AnswersAreStored ==
    \A s \in Sessions :
        answer[s] # None /\ answer[s].outcome \in {"NEW", "REPLAY"} =>
            /\ Exists(KeyOf(s))
            /\ answer[s].status \in TerminalStatuses =>
                  /\ txs[KeyOf(s)].status = answer[s].status
                  /\ txs[KeyOf(s)].balanceAfter = answer[s].balance

(***************************************************************************)
(* At most one delivery of a wager is told that it was recorded new.       *)
(***************************************************************************)
OneNewAnswerPerKey ==
    \A s, t \in Sessions :
        /\ ~IsReprocess(s) /\ answer[s] # None /\ answer[s].outcome = "NEW"
        /\ ~IsReprocess(t) /\ answer[t] # None /\ answer[t].outcome = "NEW"
        /\ KeyOf(s) = KeyOf(t)
        => s = t

(***************************************************************************)
(* The lock order never makes sessions wait for each other: every session  *)
(* that has begun ends.                                                    *)
(***************************************************************************)
SessionsEnd ==
    \A s \in Sessions : pc[s] # "begin" ~> pc[s] = "done"
=============================================================================
