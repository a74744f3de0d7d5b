------------------------ MODULE DatabaseSessionsProofs ------------------------
(***************************************************************************)
(* Proofs about DatabaseSessions, for any number of sessions, wallets and  *)
(* wagers: no two sessions write the same row or wallet at a time, and the *)
(* sessions implement WageringTransactions, whose invariants carry over.   *)
(*                                                                         *)
(* The inductive invariant says what each session may still rely on when   *)
(* it writes, given the locks it holds: the key it found free is free, the *)
(* wallet it loaded is the wallet as it is, and what it read of its        *)
(* reference without a lock decides as a reading at the commit would.      *)
(***************************************************************************)
EXTENDS DatabaseSessions, EventsProofs, FiniteSetTheorems

\* The statements between which a submission holds its wallet's lock, and
\* those between which a reprocessing does.
UnderWalletLock == {"reference", "previous", "write", "commit"}
AfterReading == {"wallet", "previous", "write", "commit"}
Running(s) == pc[s] \notin {"begin", "done"}
LocksWallet(s) ==
    \/ ~IsReprocess(s) /\ pc[s] \in UnderWalletLock
    \/ /\ IsReprocess(s) /\ pc[s] \in {"previous", "write", "commit"}
       /\ Seen(s).reference # None
SubmitsReversal(s) == KindOf(s) = "SUBMIT" /\ IsReversal(Task[s].req)

-----------------------------------------------------------------------------
(***************************************************************************)
(* What holds of one session.                                              *)
(***************************************************************************)
\* Where a session of its kind can be.
PlaceOK(s) ==
    /\ IsReprocess(s) => pc[s] # "existing"
    /\ pc[s] \in {"reference", "previous"} => IsReprocess(s) \/ SubmitsReversal(s)

\* The wallet a session loaded is the wallet as it is.
LoadedOK(s) ==
    LocksWallet(s) => /\ loaded[s] = wallets[RequestOf(s).wallet]
                      /\ loaded[s] # None

\* What a submission has found out about its request.
ChecksOK(s) ==
    ~IsReprocess(s) =>
        /\ pc[s] \in {"existing", "wallet"} \cup UnderWalletLock /\ KindOf(s) = "SUBMIT"
              => IsPositive(Task[s].req.amount)
        /\ pc[s] \in {"wallet"} \cup UnderWalletLock => ~Exists(KeyOf(s))
        /\ pc[s] \in UnderWalletLock => ~RefusedOn(s, loaded[s])
        /\ pc[s] = "commit" => WithExternal(Task[s].req.external) = {}

(***************************************************************************)
(* What a submission read of its reference: a missing row has not appeared *)
(* in its own wallet; a row is still there, with the status it had, or it  *)
(* was pending and has moved on, but was not processed if it is of the     *)
(* same wallet: it may be rejected without the wallet's lock.              *)
(***************************************************************************)
StillMissing(r) ==
    \A k \in WithExternal(r.reference) : txs[k].req.wallet # r.wallet
StillRead(r, read) ==
    LET k == read.reference
    IN  /\ k \in WithExternal(r.reference)
        /\ read.status # txs[k].status =>
              /\ read.status = "PENDING_REFERENCE"
              /\ IsReversal(txs[k].req)
              /\ txs[k].req.wallet = r.wallet => txs[k].status # "PROCESSED"
HasRead(s) == SubmitsReversal(s) /\ pc[s] \in {"previous", "write", "commit"}
ReadOK(s) ==
    IF HasRead(s)
    THEN /\ seen[s] # None
         /\ seen[s].reference = None =>
               /\ pc[s] # "previous" /\ seen[s] = MissingReading
               /\ StillMissing(Task[s].req)
         /\ seen[s].reference # None => StillRead(Task[s].req, seen[s])
    ELSE seen[s] = None

\* A reprocessing under way has the pending row; what it read is `reading'.
RowOK(s) ==
    IsReprocess(s) =>
        /\ Running(s) =>
              Exists(KeyOf(s)) /\ txs[KeyOf(s)].status = "PENDING_REFERENCE"
        /\ pc[s] \in AfterReading =>
              /\ Seen(s) # None
              /\ Seen(s).rejectIfMissing = Task[s].last
              /\ Seen(s).reference = None => pc[s] \in {"write", "commit"}

(***************************************************************************)
(* The answer of the query for an earlier reversal is still true of a      *)
(* reference of the same wallet; a decision does not ask it of another.    *)
(***************************************************************************)
FoundReference(s) == Seen(s) # None /\ Seen(s).reference # None
ReversedOK(s) ==
    /\ pc[s] \in {"write", "commit"} /\ FoundReference(s)
    /\ txs[Seen(s).reference].req.wallet = RequestOf(s).wallet
    => reversed[s] = AlreadyReversed(Seen(s).reference, RequestOf(s).kind)

\* A decision that aborts is not committed.
DecisionOK(s) ==
    pc[s] = "commit" =>
        \/ KindOf(s) = "FAIL"
        \/ IsReprocess(s) /\ Seen(s).reference = None
        \/ Decision(s).status # "ABORTED"

SessionOK(s) ==
    /\ PlaceOK(s) /\ LoadedOK(s) /\ ChecksOK(s) /\ ReadOK(s)
    /\ RowOK(s) /\ ReversedOK(s) /\ DecisionOK(s)

-----------------------------------------------------------------------------
(***************************************************************************)
(* The locks: of an inserted key, of a reprocessed row, of a wallet, of an *)
(* inserted external id.                                                   *)
(***************************************************************************)
LocksExclude ==
    \A s, t \in Sessions : s # t =>
        /\ (IsReprocess(s) <=> IsReprocess(t)) /\ Running(s) /\ Running(t)
              => KeyOf(s) # KeyOf(t)
        /\ LocksWallet(s) /\ LocksWallet(t)
              => RequestOf(s).wallet # RequestOf(t).wallet
        /\ ~IsReprocess(s) /\ ~IsReprocess(t) /\ pc[s] = "commit" /\ pc[t] = "commit"
              => Task[s].req.external # Task[t].req.external

\* What was read belongs to a reprocessing under way.
ReadingsHeld ==
    \A k \in Keys : reading[k] # None =>
        \E s \in Sessions :
            IsReprocess(s) /\ KeyOf(s) = k /\ pc[s] \in AfterReading

SessionsInv ==
    /\ SessionsTypeOK
    /\ LedgerInv
    /\ ReversalInv
    /\ \A s \in Sessions : SessionOK(s)
    /\ LocksExclude
    /\ ReadingsHeld

-----------------------------------------------------------------------------
LEMMA TaskTyped ==
    ASSUME NEW s \in Sessions
    PROVE  /\ KeyOf(s) \in Keys /\ KeyOf(s) \in TxIds /\ KeyOf(s) \notin Wallets
           /\ KindOf(s) \in {"SUBMIT", "FAIL", "REPROCESS"}
           /\ ~IsReprocess(s) =>
                 /\ Task[s].req \in Requests /\ Task[s].req \in RequestType
                 /\ KeyOf(s) = Task[s].req.key /\ RequestOf(s) = Task[s].req
                 /\ Task[s].req.wallet \in Wallets
                 /\ Task[s].req.external \in Externals
                 /\ Task[s].req.kind \in WagerKinds
           /\ KindOf(s) = "FAIL" => ~IsReprocess(s) /\ Task[s].req \in Failing
           /\ KindOf(s) = "SUBMIT" => ~IsReprocess(s)
           /\ IsReprocess(s) =>
                 /\ Task[s].last \in BOOLEAN
                 /\ KeyOf(s) = Task[s].key /\ RequestOf(s) = txs[KeyOf(s)].req
<1>1. CASE IsReprocess(s)
  BY <1>1, TasksAssumption, DisjointAssumption
  DEF IsReprocess, KindOf, KeyOf, RequestOf, TxIds
<1>2. CASE ~IsReprocess(s)
  <2>1. /\ KindOf(s) \in {"SUBMIT", "FAIL"} /\ Task[s].req \in Requests
        /\ KindOf(s) = "FAIL" => Task[s].req \in Failing
    BY <1>2, TasksAssumption, FailingAssumption DEF IsReprocess, KindOf
  <2>2. Task[s].req \in RequestType /\ Task[s].req.external \in Externals
    BY <2>1, RequestsAssumption
  <2> QED
    BY <1>2, <2>1, <2>2, RequestsTyped, DisjointAssumption
    DEF IsReprocess, KeyOf, RequestOf, TxIds
<1> QED BY <1>1, <1>2

\* The request a session that holds its wallet's lock works on.
LEMMA RequestTyped ==
    ASSUME SessionsInv, NEW s \in Sessions, ~IsReprocess(s) \/ Running(s)
    PROVE  RequestOf(s) \in RequestType /\ RequestOf(s).wallet \in Wallets
<1>1. CASE IsReprocess(s)
  BY <1>1, TaskTyped, RowTyped DEF SessionsInv, SessionOK, RowOK, LedgerInv
<1>2. CASE ~IsReprocess(s)
  BY <1>2, TaskTyped
<1> QED BY <1>1, <1>2

-----------------------------------------------------------------------------
(***************************************************************************)
(* A step that another session, or nobody, takes leaves to session t what  *)
(* t relies on: the rows it locked, the wallet it locked, and the rows of  *)
(* that wallet, apart from a rejection of a pending one.                   *)
(***************************************************************************)
RowsStay(w) ==
    \A k \in TxIds : txs'[k] # None /\ txs'[k].req.wallet = w =>
        /\ txs[k] # None
        /\ txs'[k].status \in {txs[k].status, "REJECTED"}

\* What no step does to a row.
RowsKept ==
    \A k \in TxIds : Exists(k) =>
        /\ txs'[k] # None /\ txs'[k].req = txs[k].req
        /\ txs[k].status \in TerminalStatuses => txs'[k] = txs[k]

StaysPut(t) ==
    /\ pc'[t] = pc[t] /\ seen'[t] = seen[t] /\ loaded'[t] = loaded[t]
    /\ reversed'[t] = reversed[t] /\ answer'[t] = answer[t]
    /\ IsReprocess(t) /\ Running(t) => reading'[KeyOf(t)] = reading[KeyOf(t)]

Untouched(t) ==
    /\ IsReprocess(t) /\ Running(t) => txs'[KeyOf(t)] = txs[KeyOf(t)]
    /\ ~IsReprocess(t) /\ pc[t] \in {"wallet"} \cup UnderWalletLock
          => txs'[KeyOf(t)] = txs[KeyOf(t)]
    /\ ~IsReprocess(t) /\ pc[t] = "commit"
          => WithExternal(Task[t].req.external)' = {}
    /\ LocksWallet(t) => /\ wallets'[RequestOf(t).wallet] = wallets[RequestOf(t).wallet]
                         /\ RowsStay(RequestOf(t).wallet)

\* It reads and computes then what it read and would compute before.
LEMMA SameView ==
    ASSUME SessionsInv, NEW t \in Sessions, StaysPut(t), Untouched(t)
    PROVE  /\ Running(t)' = Running(t)
           /\ ~IsReprocess(t) => Seen(t)' = Seen(t) /\ RequestOf(t)' = RequestOf(t)
           /\ Running(t) => Seen(t)' = Seen(t) /\ RequestOf(t)' = RequestOf(t)
           /\ LocksWallet(t)' = LocksWallet(t)
           /\ LocksWallet(t) => ~IsReprocess(t) \/ Running(t)
<1>1. Running(t)' = Running(t)
  BY DEF Running, StaysPut
<1>2. ~IsReprocess(t) => Seen(t)' = Seen(t) /\ RequestOf(t)' = RequestOf(t)
  BY DEF StaysPut, Seen, RequestOf, IsReprocess, KindOf
<1>3. IsReprocess(t) /\ Running(t)
         => Seen(t)' = Seen(t) /\ RequestOf(t)' = RequestOf(t)
  BY DEF StaysPut, Untouched, Seen, RequestOf, IsReprocess, KindOf, KeyOf
<1>4. LocksWallet(t)' = LocksWallet(t)
  BY <1>3 DEF StaysPut, LocksWallet, Running, IsReprocess, KindOf
<1>5. LocksWallet(t) => ~IsReprocess(t) \/ Running(t)
  BY DEF LocksWallet, Running
<1> QED BY <1>1, <1>2, <1>3, <1>4, <1>5

\* The reference a session found is a row, and the one its request names; the
\* session is about a reversal.
LEMMA FoundIsThere ==
    ASSUME SessionsInv, NEW t \in Sessions, ~IsReprocess(t) \/ Running(t),
           FoundReference(t)
    PROVE  /\ Seen(t).reference \in WithExternal(RequestOf(t).reference)
           /\ Seen(t).reference \in TxIds /\ Exists(Seen(t).reference)
           /\ RequestOf(t).kind \in ReversalKinds
<1>1. CASE IsReprocess(t)
  <2>1. /\ reading[KeyOf(t)] # None /\ reading[KeyOf(t)].reference # None
        /\ KeyOf(t) \in Keys /\ KeyOf(t) \in TxIds
        /\ RequestOf(t) = txs[KeyOf(t)].req
    BY <1>1, TaskTyped DEF FoundReference, Seen
  <2>2. Exists(KeyOf(t)) /\ txs[KeyOf(t)].status = "PENDING_REFERENCE"
    BY <1>1 DEF SessionsInv, SessionOK, RowOK
  <2>3. Seen(t).reference \in WithExternal(RequestOf(t).reference)
    BY <1>1, <2>1 DEF SessionsInv, ReversalInv, ReadingNamesReference, Seen
  <2>4. IsReversal(RequestOf(t))
    BY <2>1, <2>2 DEF SessionsInv, ReversalInv, PendingIsReversal
  <2> QED BY <2>3, <2>4 DEF WithExternal, IsReversal
<1>2. CASE ~IsReprocess(t)
  <2>1. HasRead(t) /\ StillRead(Task[t].req, seen[t])
    BY <1>2 DEF FoundReference, Seen, SessionsInv, SessionOK, ReadOK
  <2> QED
    BY <1>2, <2>1, TaskTyped
    DEF HasRead, SubmitsReversal, StillRead, WithExternal, Seen, IsReversal
<1> QED BY <1>1, <1>2

LEMMA SameDecision ==
    ASSUME SessionsInv, RowsKept, NEW t \in Sessions,
           ~IsReprocess(t) \/ Running(t), StaysPut(t), Untouched(t)
    PROVE  Decision(t)' = Decision(t)
<1>1. /\ Seen(t)' = Seen(t) /\ RequestOf(t)' = RequestOf(t)
      /\ loaded'[t] = loaded[t] /\ reversed'[t] = reversed[t]
  BY SameView DEF StaysPut
<1>2. Seen(t) # None => RowRead(Seen(t))' = RowRead(Seen(t))
  <2>1. CASE FoundReference(t)
    <3>1. txs'[Seen(t).reference].req = txs[Seen(t).reference].req
      BY <2>1, FoundIsThere DEF RowsKept
    <3> QED BY <1>1, <3>1 DEF RowRead
  <2>2. CASE Seen(t) # None /\ Seen(t).reference = None
    BY <1>1, <2>2 DEF RowRead
  <2> QED BY <2>1, <2>2 DEF FoundReference
<1> QED BY <1>1, <1>2 DEF Decision, IsReprocess, KindOf

\* The rows that name x are still there.
LEMMA NamedStay ==
    ASSUME RowsKept, NEW x
    PROVE  WithExternal(x) \subseteq WithExternal(x)'
BY DEF RowsKept, WithExternal, Exists

(***************************************************************************)
(* What is true of a session stays true while others go on.                *)
(***************************************************************************)
LEMMA OthersKeepRead ==
    ASSUME SessionsInv, RowsKept, NEW t \in Sessions, StaysPut(t), Untouched(t)
    PROVE  ReadOK(t)'
<1>1. HasRead(t)' = HasRead(t) /\ seen'[t] = seen[t]
  BY DEF StaysPut, HasRead, SubmitsReversal, KindOf
<1>2. CASE ~HasRead(t)
  BY <1>1, <1>2 DEF SessionsInv, SessionOK, ReadOK
<1>3. CASE HasRead(t)
  <2> DEFINE r == Task[t].req
             read == seen[t]
             k == read.reference
  <2>1. /\ read # None
        /\ k = None => pc[t] # "previous" /\ read = MissingReading /\ StillMissing(r)
        /\ k # None => StillRead(r, read)
    BY <1>3 DEF SessionsInv, SessionOK, ReadOK
  <2>2. LocksWallet(t) /\ RequestOf(t) = r
    BY <1>3, TaskTyped DEF HasRead, SubmitsReversal, LocksWallet, UnderWalletLock
  <2>3. RowsStay(r.wallet)
    BY <2>2 DEF Untouched
  <2>4. StillMissing(r) => StillMissing(r)'
    BY <2>3 DEF StillMissing, RowsStay, RowsKept, WithExternal, Exists
  <2>5. ASSUME StillRead(r, read) PROVE StillRead(r, read)'
    <3>1. /\ k \in TxIds /\ Exists(k) /\ txs[k].req.external = r.reference
          /\ read.status # txs[k].status =>
                /\ read.status = "PENDING_REFERENCE"
                /\ IsReversal(txs[k].req)
                /\ txs[k].req.wallet = r.wallet => txs[k].status # "PROCESSED"
      BY <2>5 DEF StillRead, WithExternal
    <3>2. /\ txs'[k] # None /\ txs'[k].req = txs[k].req
          /\ txs[k].status \in TerminalStatuses => txs'[k] = txs[k]
      BY <3>1 DEF RowsKept
    <3>3. txs[k].status \in Statuses
      BY <3>1, RowTyped DEF SessionsInv, LedgerInv, TransactionType
    <3>4. txs'[k].status # txs[k].status =>
             /\ txs[k].status = "PENDING_REFERENCE" /\ IsReversal(txs[k].req)
             /\ txs[k].req.wallet = r.wallet => txs'[k].status = "REJECTED"
      BY <2>3, <3>1, <3>2, <3>3
      DEF RowsStay, TerminalStatuses, SessionsInv, ReversalInv, PendingIsReversal
    <3>5. read.status # txs'[k].status =>
             /\ read.status = "PENDING_REFERENCE"
             /\ IsReversal(txs'[k].req)
             /\ txs'[k].req.wallet = r.wallet => txs'[k].status # "PROCESSED"
      BY <3>1, <3>2, <3>4
    <3> QED BY <1>1, <3>1, <3>2, <3>5 DEF StillRead, WithExternal, Exists
  <2> QED
    BY <1>1, <1>3, <2>1, <2>4, <2>5 DEF ReadOK, StaysPut
<1> QED BY <1>2, <1>3

LEMMA OthersKeepReversed ==
    ASSUME SessionsInv, RowsKept, ReversalMatchesReference',
           NEW t \in Sessions, StaysPut(t), Untouched(t)
    PROVE  ReversedOK(t)'
<1> SUFFICES ASSUME pc[t] \in {"write", "commit"}, FoundReference(t)',
                    txs'[Seen(t).reference'].req.wallet = RequestOf(t).wallet'
             PROVE  reversed[t] = AlreadyReversed(Seen(t).reference, RequestOf(t).kind)'
  BY DEF ReversedOK, StaysPut
<1>1. Running(t) /\ Seen(t)' = Seen(t) /\ RequestOf(t)' = RequestOf(t)
  BY SameView DEF Running
<1> DEFINE k == Seen(t).reference
           kind == RequestOf(t).kind
           w == RequestOf(t).wallet
<1>2. FoundReference(t)
  BY <1>1 DEF FoundReference
<1>3. /\ k \in TxIds /\ Exists(k) /\ kind \in ReversalKinds
      /\ txs'[k].req = txs[k].req
  BY <1>1, <1>2, FoundIsThere DEF RowsKept
<1>4. txs[k].req.wallet = w
  BY <1>1, <1>3
<1>5. reversed[t] = AlreadyReversed(k, kind)
  BY <1>2, <1>4 DEF SessionsInv, SessionOK, ReversedOK
<1>6. RowsStay(w)
  BY <1>1, <1>2 DEF FoundReference, Untouched, LocksWallet, UnderWalletLock
<1>7. ASSUME NEW u \in TxIds, txs'[u] # None, txs'[u].status = "PROCESSED",
             txs'[u].req.kind = kind, txs'[u].reference = k
      PROVE  AlreadyReversed(k, kind)
  <2>1. txs'[u].req.wallet = txs'[k].req.wallet
    BY <1>3, <1>7 DEF ReversalMatchesReference, Exists, IsReversal, SameContext
  <2>2. txs[u] # None /\ txs[u].status = "PROCESSED"
    BY <1>3, <1>4, <1>6, <1>7, <2>1 DEF RowsStay
  <2>3. txs'[u] = txs[u]
    BY <2>2 DEF RowsKept, Exists, TerminalStatuses, Statuses
  <2> QED BY <1>7, <2>2, <2>3 DEF AlreadyReversed, Exists
<1>8. ASSUME AlreadyReversed(k, kind)
      PROVE  \E u \in TxIds : /\ txs'[u] # None /\ txs'[u].status = "PROCESSED"
                              /\ txs'[u].req.kind = kind /\ txs'[u].reference = k
  BY <1>8 DEF AlreadyReversed, RowsKept, Exists, TerminalStatuses, Statuses
<1>9. AlreadyReversed(k, kind)' = AlreadyReversed(k, kind)
  BY <1>1, <1>7, <1>8 DEF AlreadyReversed, Exists
<1> QED BY <1>5, <1>9

LEMMA OthersKeepSession ==
    ASSUME SessionsInv, RowsKept, ReversalMatchesReference',
           NEW t \in Sessions, StaysPut(t), Untouched(t)
    PROVE  SessionOK(t)'
<1>1. /\ PlaceOK(t) /\ LoadedOK(t) /\ ChecksOK(t) /\ RowOK(t) /\ DecisionOK(t)
      /\ pc'[t] = pc[t] /\ loaded'[t] = loaded[t] /\ seen'[t] = seen[t]
  BY DEF SessionsInv, SessionOK, StaysPut
<1>2. PlaceOK(t)'
  BY <1>1 DEF PlaceOK, IsReprocess, KindOf, SubmitsReversal
<1>3. LoadedOK(t)'
  BY <1>1, SameView DEF LoadedOK, Untouched
<1>4. ChecksOK(t)'
  BY <1>1 DEF ChecksOK, Untouched, IsReprocess, KindOf, KeyOf, Exists, RefusedOn,
              UnderWalletLock
<1>5. RowOK(t)'
  BY <1>1, SameView
  DEF RowOK, Untouched, Exists, AfterReading, Running, IsReprocess, KindOf, KeyOf
<1>6. DecisionOK(t)'
  <2>1. pc[t] = "commit" => Decision(t)' = Decision(t) /\ Seen(t)' = Seen(t)
    BY SameView, SameDecision DEF Running
  <2> QED BY <1>1, <2>1 DEF DecisionOK, IsReprocess, KindOf
<1> QED
  BY <1>2, <1>3, <1>4, <1>5, <1>6, OthersKeepRead, OthersKeepReversed DEF SessionOK

-----------------------------------------------------------------------------
(***************************************************************************)
(* What is left to show of the session that takes a step: that it relies   *)
(* on what is true after it, that it takes only free locks, and that what  *)
(* it reads is its own.                                                    *)
(***************************************************************************)
SessionVarsTyped ==
    /\ pc \in [Sessions -> Statements]
    /\ seen \in [Sessions -> SeenType \cup {None}]
    /\ loaded \in [Sessions -> WalletType \cup {None}]
    /\ reversed \in [Sessions -> BOOLEAN]
    /\ answer \in [Sessions -> AnswerType \cup {None}]

RowFree(s) ==
    \A t \in Sessions \ {s} :
        (IsReprocess(s) <=> IsReprocess(t)) /\ Running(t) => KeyOf(s) # KeyOf(t)
WalletFree(s) ==
    \A t \in Sessions \ {s} :
        LocksWallet(t) => RequestOf(t).wallet # RequestOf(s).wallet
ExternalFree(s) ==
    \A t \in Sessions \ {s} :
        ~IsReprocess(t) /\ pc[t] = "commit"
            => Task[t].req.external # Task[s].req.external

Acquires(s) ==
    /\ Running(s)' => Running(s) \/ RowFree(s)
    /\ LocksWallet(s)' =>
          RequestOf(s)' = RequestOf(s) /\ (LocksWallet(s) \/ WalletFree(s))
    /\ ~IsReprocess(s) /\ pc'[s] = "commit" => pc[s] = "commit" \/ ExternalFree(s)

ReadsOwn(s) ==
    /\ \A k \in Keys : reading'[k] # reading[k] => IsReprocess(s) /\ KeyOf(s) = k
    /\ IsReprocess(s) /\ reading'[KeyOf(s)] # None => pc'[s] \in AfterReading

LEMMA LockedByOne ==
    ASSUME SessionsInv, NEW s \in Sessions
    PROVE  /\ Running(s) => RowFree(s)
           /\ LocksWallet(s) => WalletFree(s)
           /\ ~IsReprocess(s) /\ pc[s] = "commit" => ExternalFree(s)
BY DEF SessionsInv, LocksExclude, RowFree, WalletFree, ExternalFree

LEMMA ActorKeepsInv ==
    ASSUME SessionsInv, RowsKept, LedgerInv', ReversalInv', SessionVarsTyped',
           NEW s \in Sessions,
           \A t \in Sessions \ {s} : StaysPut(t) /\ Untouched(t),
           SessionOK(s)', Acquires(s), ReadsOwn(s)
    PROVE  SessionsInv'
<1>1. SessionsTypeOK'
  BY DEF SessionsTypeOK, SessionVarsTyped, LedgerInv
<1>2. \A t \in Sessions : SessionOK(t)'
  BY OthersKeepSession DEF ReversalInv
<1>3. \A t \in Sessions \ {s} :
         /\ pc'[t] = pc[t] /\ Running(t)' = Running(t)
         /\ LocksWallet(t)' = LocksWallet(t)
         /\ LocksWallet(t) => RequestOf(t)' = RequestOf(t)
  BY SameView DEF StaysPut
<1>4. /\ Running(s)' => RowFree(s)
      /\ LocksWallet(s)' => RequestOf(s)' = RequestOf(s) /\ WalletFree(s)
      /\ ~IsReprocess(s) /\ pc'[s] = "commit" => ExternalFree(s)
  BY LockedByOne DEF Acquires
<1>5. LocksExclude'
  <2> SUFFICES ASSUME NEW u \in Sessions, NEW t \in Sessions, u # t
               PROVE  /\ (IsReprocess(u) <=> IsReprocess(t)) /\ Running(u)' /\ Running(t)'
                            => KeyOf(u) # KeyOf(t)
                      /\ LocksWallet(u)' /\ LocksWallet(t)'
                            => RequestOf(u)'.wallet # RequestOf(t)'.wallet
                      /\ ~IsReprocess(u) /\ ~IsReprocess(t)
                            /\ pc'[u] = "commit" /\ pc'[t] = "commit"
                            => Task[u].req.external # Task[t].req.external
    BY DEF LocksExclude, IsReprocess, KindOf, KeyOf
  <2>1. CASE u # s /\ t # s
    BY <1>3, <2>1 DEF SessionsInv, LocksExclude
  <2>2. CASE u = s
    BY <1>3, <1>4, <2>2 DEF RowFree, WalletFree, ExternalFree
  <2>3. CASE t = s
    BY <1>3, <1>4, <2>3 DEF RowFree, WalletFree, ExternalFree
  <2> QED BY <2>1, <2>2, <2>3
<1>6. ReadingsHeld'
  <2> SUFFICES ASSUME NEW k \in Keys, reading'[k] # None
               PROVE  \E t \in Sessions :
                         IsReprocess(t) /\ KeyOf(t) = k /\ pc'[t] \in AfterReading
    BY DEF ReadingsHeld, IsReprocess, KindOf, KeyOf, AfterReading
  <2>1. CASE IsReprocess(s) /\ KeyOf(s) = k
    BY <2>1 DEF ReadsOwn
  <2>2. CASE ~(IsReprocess(s) /\ KeyOf(s) = k)
    <3>1. PICK t \in Sessions : IsReprocess(t) /\ KeyOf(t) = k /\ pc[t] \in AfterReading
      BY <2>2 DEF ReadsOwn, SessionsInv, ReadingsHeld
    <3> QED BY <1>3, <2>2, <3>1
  <2> QED BY <2>1, <2>2
<1> QED BY <1>1, <1>2, <1>5, <1>6 DEF SessionsInv

\* A step that writes nothing.
LEMMA NothingTouched ==
    ASSUME SessionsInv, UNCHANGED tables
    PROVE  RowsKept /\ \A t \in Sessions : Untouched(t)
<1>1. /\ wallets' = wallets /\ txs' = txs
      /\ \A t \in Sessions : ChecksOK(t)
  BY DEF tables, SessionsInv, SessionOK
<1> QED
  BY <1>1 DEF RowsKept, Exists, Untouched, RowsStay, ChecksOK, WithExternal

LEMMA QuietKeepsInv ==
    ASSUME SessionsInv, UNCHANGED tables, [Next]_vars, SessionVarsTyped',
           NEW s \in Sessions, \A t \in Sessions \ {s} : StaysPut(t),
           SessionOK(s)', Acquires(s), ReadsOwn(s)
    PROVE  SessionsInv'
<1>1. LedgerInv' /\ ReversalInv'
  BY LedgerInvStep, ReversalInvStep DEF SessionsInv
<1> QED BY <1>1, NothingTouched, ActorKeepsInv

-----------------------------------------------------------------------------
(***************************************************************************)
(* The ways a session goes on: it ends, or turns to another statement.     *)
(***************************************************************************)
\* A session that ended relies on nothing.
LEMMA EndedIsOK ==
    ASSUME NEW s \in Sessions, pc'[s] = "done", seen'[s] = None
    PROVE  SessionOK(s)' /\ Acquires(s)
<1>1. ~Running(s)' /\ ~LocksWallet(s)' /\ ~HasRead(s)'
  BY DEF Running, LocksWallet, UnderWalletLock, HasRead
<1> QED
  BY <1>1
  DEF SessionOK, PlaceOK, LoadedOK, ChecksOK, ReadOK, RowOK, ReversedOK,
      DecisionOK, Acquires, UnderWalletLock, AfterReading

LEMMA EndMoves ==
    ASSUME SessionsInv, NEW s \in Sessions, NEW a \in AnswerType, End(s, a),
           RowFree(s)
    PROVE  /\ SessionVarsTyped'
           /\ \A t \in Sessions \ {s} : StaysPut(t)
           /\ SessionOK(s)' /\ Acquires(s) /\ ReadsOwn(s)
           /\ answer'[s] = a
           /\ IF IsReprocess(s) THEN reading' = [reading EXCEPT ![KeyOf(s)] = None]
                                ELSE reading' = reading
<1>1. /\ SessionVarsTyped'
      /\ pc'[s] = "done" /\ seen'[s] = None /\ answer'[s] = a
      /\ \A t \in Sessions \ {s} :
            /\ pc'[t] = pc[t] /\ seen'[t] = seen[t] /\ loaded'[t] = loaded[t]
            /\ reversed'[t] = reversed[t] /\ answer'[t] = answer[t]
  BY DEF SessionsInv, SessionsTypeOK, SessionVarsTyped, Statements, End, Goto, Reply
<1>2. IF IsReprocess(s) THEN reading' = [reading EXCEPT ![KeyOf(s)] = None]
                        ELSE reading' = reading
  BY DEF End
<1>3. reading \in [Keys -> ReadingType \cup {None}] /\ KeyOf(s) \in Keys
  BY TaskTyped DEF SessionsInv, LedgerInv, TypeOK
<1>4. \A t \in Sessions \ {s} : StaysPut(t)
  BY <1>1, <1>2, <1>3, TaskTyped DEF StaysPut, RowFree
<1>5. ReadsOwn(s)
  BY <1>2, <1>3 DEF ReadsOwn
<1> QED BY <1>1, <1>2, <1>4, <1>5, EndedIsOK

\* A rollback, or an answer without a write.
LEMMA EndWithKeepsInv ==
    ASSUME SessionsInv, NEW s \in Sessions, NEW a \in AnswerType, EndWith(s, a),
           RowFree(s)
    PROVE  [Next]_vars /\ SessionsInv' /\ answer'[s] = a
<1>1. End(s, a) /\ UNCHANGED tables
  BY DEF EndWith
<1>2. KeyOf(s) \in Keys /\ reading \in [Keys -> ReadingType \cup {None}]
  BY TaskTyped DEF SessionsInv, LedgerInv, TypeOK
<1>3. reading' = reading \/ AbortReprocess(KeyOf(s))
  BY <1>1, <1>2, EndMoves DEF AbortReprocess, tables
<1>4. [Next]_vars
  BY <1>1, <1>2, <1>3 DEF Next, vars, tables
<1> QED BY <1>1, <1>4, EndMoves, QuietKeepsInv

LEMMA ContinueMoves ==
    ASSUME SessionsInv, NEW s \in Sessions, NEW statement \in Statements,
           Goto(s, statement), UNCHANGED <<vars, seen, loaded, reversed, answer>>
    PROVE  /\ SessionVarsTyped' /\ [Next]_vars /\ UNCHANGED tables
           /\ pc'[s] = statement
           /\ \A t \in Sessions \ {s} : StaysPut(t)
BY DEF SessionsInv, SessionsTypeOK, SessionVarsTyped, Goto, StaysPut, vars, tables

LEMMA AnswersTyped ==
    /\ Refused \in AnswerType
    /\ Told("CONFLICT", None, None) \in AnswerType
    /\ \A outcome \in {"NEW", "REPLAY"}, row \in TransactionType :
          FromRow(outcome, row) \in AnswerType
BY DEF Refused, FromRow, Told, AnswerType, TransactionType

\* A reprocessing that holds its row has read something only after its reading.
LEMMA ReadingIsOwn ==
    ASSUME SessionsInv, NEW s \in Sessions, IsReprocess(s), RowFree(s),
           reading[KeyOf(s)] # None
    PROVE  pc[s] \in AfterReading
BY TaskTyped DEF SessionsInv, ReadingsHeld, RowFree, Running, AfterReading

\* What decides does not change while nothing is written.
LEMMA QuietDecision ==
    ASSUME NEW s \in Sessions, UNCHANGED <<vars, seen, loaded, reversed>>
    PROVE  /\ Decision(s)' = Decision(s)
           /\ Seen(s)' = Seen(s) /\ RequestOf(s)' = RequestOf(s)
<1>1. txs' = txs /\ reading' = reading
  BY DEF vars
<1>2. Seen(s)' = Seen(s) /\ RequestOf(s)' = RequestOf(s)
  BY <1>1 DEF Seen, RequestOf, IsReprocess, KindOf, KeyOf
<1>3. RowRead(Seen(s))' = RowRead(Seen(s))
  BY <1>1, <1>2 DEF RowRead
<1> QED BY <1>2, <1>3 DEF Decision, IsReprocess, KindOf

-----------------------------------------------------------------------------
(***************************************************************************)
(* The statements that write nothing.                                      *)
(***************************************************************************)
LEMMA ClaimKeyStep ==
    ASSUME SessionsInv, NEW s \in Sessions, ClaimKey(s)
    PROVE  [Next]_vars /\ SessionsInv'
<1>1. ~IsReprocess(s) /\ pc[s] = "begin" /\ RowFree(s)
  BY DEF ClaimKey, HoldsKey, Others, RowFree, Running
<1>2. CASE EndWith(s, Refused)
  BY <1>1, <1>2, AnswersTyped, EndWithKeepsInv
<1>3. CASE /\ Continue(s, "existing")
           /\ KindOf(s) = "SUBMIT" => IsPositive(Task[s].req.amount)
  <2>1. /\ SessionVarsTyped' /\ [Next]_vars /\ UNCHANGED tables
        /\ pc'[s] = "existing" /\ seen' = seen /\ reading' = reading
        /\ \A t \in Sessions \ {s} : StaysPut(t)
    BY <1>3, ContinueMoves DEF Continue, Statements, vars
  <2>2. seen[s] = None
    BY <1>1 DEF SessionsInv, SessionOK, ReadOK, HasRead
  <2>3. SessionOK(s)'
    BY <1>1, <1>3, <2>1, <2>2
    DEF SessionOK, PlaceOK, LoadedOK, ChecksOK, ReadOK, RowOK, ReversedOK,
        DecisionOK, LocksWallet, HasRead, UnderWalletLock, IsReprocess, KindOf
  <2>4. Acquires(s) /\ ReadsOwn(s)
    BY <1>1, <2>1
    DEF Acquires, ReadsOwn, LocksWallet, UnderWalletLock, IsReprocess, KindOf
  <2> QED BY <2>1, <2>3, <2>4, QuietKeepsInv
<1> QED BY <1>2, <1>3 DEF ClaimKey

LEMMA FindExistingStep ==
    ASSUME SessionsInv, NEW s \in Sessions, FindExisting(s)
    PROVE  [Next]_vars /\ SessionsInv'
<1>1. /\ ~IsReprocess(s) /\ pc[s] = "existing" /\ RowFree(s)
      /\ seen[s] = None
      /\ KindOf(s) = "SUBMIT" => IsPositive(Task[s].req.amount)
  BY LockedByOne
  DEF FindExisting, SessionsInv, SessionOK, PlaceOK, ReadOK, HasRead, ChecksOK, Running
<1>2. CASE Exists(KeyOf(s))
  <2>1. txs[KeyOf(s)] \in TransactionType
    BY <1>2, TaskTyped, RowTyped DEF SessionsInv, LedgerInv
  <2> QED BY <1>1, <1>2, <2>1, AnswersTyped, EndWithKeepsInv DEF FindExisting
<1>3. CASE ~Exists(KeyOf(s))
  <2>1. Continue(s, "wallet")
    BY <1>3 DEF FindExisting
  <2>2. /\ SessionVarsTyped' /\ [Next]_vars /\ UNCHANGED tables
        /\ pc'[s] = "wallet" /\ seen' = seen /\ reading' = reading /\ txs' = txs
        /\ \A t \in Sessions \ {s} : StaysPut(t)
    BY <2>1, ContinueMoves DEF Continue, Statements, vars
  <2>3. SessionOK(s)'
    BY <1>1, <1>3, <2>2
    DEF SessionOK, PlaceOK, LoadedOK, ChecksOK, ReadOK, RowOK, ReversedOK,
        DecisionOK, LocksWallet, HasRead, UnderWalletLock, IsReprocess, KindOf,
        KeyOf, Exists
  <2>4. Acquires(s) /\ ReadsOwn(s)
    BY <1>1, <2>2
    DEF Acquires, ReadsOwn, LocksWallet, UnderWalletLock, IsReprocess, KindOf, Running
  <2> QED BY <2>2, <2>3, <2>4, QuietKeepsInv
<1> QED BY <1>2, <1>3

LEMMA LockRowStep ==
    ASSUME SessionsInv, NEW s \in Sessions, LockRow(s)
    PROVE  [Next]_vars /\ SessionsInv'
<1>1. IsReprocess(s) /\ pc[s] = "begin" /\ RowFree(s) /\ Exists(KeyOf(s))
  BY DEF LockRow, HoldsRow, Others, RowFree, Running
<1>2. txs[KeyOf(s)] \in TransactionType
  BY <1>1, TaskTyped, RowTyped DEF SessionsInv, LedgerInv
<1>3. CASE EndWith(s, FromRow("REPLAY", txs[KeyOf(s)]))
  BY <1>1, <1>2, <1>3, AnswersTyped, EndWithKeepsInv
<1>4. CASE /\ Continue(s, "reference")
           /\ txs[KeyOf(s)].status = "PENDING_REFERENCE"
  <2>1. /\ SessionVarsTyped' /\ [Next]_vars /\ UNCHANGED tables
        /\ pc'[s] = "reference" /\ seen' = seen /\ reading' = reading /\ txs' = txs
        /\ \A t \in Sessions \ {s} : StaysPut(t)
    BY <1>4, ContinueMoves DEF Continue, Statements, vars
  <2>2. seen[s] = None
    BY <1>1 DEF SessionsInv, SessionOK, ReadOK, HasRead
  <2>3. SessionOK(s)'
    BY <1>1, <1>4, <2>1, <2>2
    DEF SessionOK, PlaceOK, LoadedOK, ChecksOK, ReadOK, RowOK, ReversedOK,
        DecisionOK, LocksWallet, HasRead, UnderWalletLock, AfterReading,
        IsReprocess, KindOf, KeyOf, Exists, Running, SubmitsReversal
  <2>4. Acquires(s) /\ ReadsOwn(s)
    BY <1>1, <2>1, ReadingIsOwn
    DEF Acquires, ReadsOwn, LocksWallet, IsReprocess, KindOf, KeyOf, AfterReading
  <2> QED BY <2>1, <2>3, <2>4, QuietKeepsInv
<1> QED BY <1>3, <1>4 DEF LockRow

LEMMA AbortStep ==
    ASSUME SessionsInv, NEW s \in Sessions, Abort(s)
    PROVE  [Next]_vars /\ SessionsInv'
BY AnswersTyped, LockedByOne, EndWithKeepsInv DEF Abort, Running

LEMMA LockWalletStep ==
    ASSUME SessionsInv, NEW s \in Sessions, LockWallet(s)
    PROVE  [Next]_vars /\ SessionsInv'
<1> DEFINE w == RequestOf(s).wallet
<1>1. pc[s] = "wallet" /\ RowFree(s) /\ SessionOK(s)
  BY LockedByOne DEF LockWallet, Running, SessionsInv
<1>2. CASE EndWith(s, Refused)
  BY <1>1, <1>2, AnswersTyped, EndWithKeepsInv
<1>3. CASE ~EndWith(s, Refused)
  <2>1. /\ ~RefusedOn(s, wallets[w])
        /\ loaded' = [loaded EXCEPT ![s] = wallets[w]]
        /\ Goto(s, AfterWallet(s))
        /\ UNCHANGED <<vars, seen, reversed, answer>>
        /\ WalletFree(s)
    BY <1>3 DEF LockWallet, HoldsWallet, LocksWallet, Others, WalletFree, UnderWalletLock
  <2>2. wallets[w] \in WalletType /\ wallets[w] # None
    <3>1. w \in Wallets
      BY <1>1, RequestTyped DEF Running
    <3>2. IsReprocess(s) => wallets[w] # None
      BY <1>1, TaskTyped DEF SessionOK, RowOK, Running, SessionsInv, LedgerInv, RowsHaveWallets
    <3>3. ~IsReprocess(s) => wallets[w] # None
      BY <2>1 DEF RefusedOn
    <3> QED BY <3>1, <3>2, <3>3 DEF SessionsInv, LedgerInv, TypeOK
  <2>3. /\ AfterWallet(s) \in {"previous", "reference", "write"}
        /\ IsReprocess(s) <=> AfterWallet(s) = "previous"
        /\ AfterWallet(s) = "reference" <=> SubmitsReversal(s)
    BY TaskTyped DEF AfterWallet, SubmitsReversal
  <2>4. /\ SessionVarsTyped' /\ UNCHANGED <<vars, tables>>
        /\ pc'[s] = AfterWallet(s) /\ seen' = seen /\ reading' = reading
        /\ txs' = txs /\ wallets' = wallets /\ loaded'[s] = wallets[w]
        /\ \A t \in Sessions \ {s} : StaysPut(t)
    BY <2>1, <2>2, <2>3
    DEF SessionsInv, SessionsTypeOK, SessionVarsTyped, Statements, Goto, StaysPut,
        vars, tables
  <2>5. Seen(s)' = Seen(s) /\ RequestOf(s)' = RequestOf(s)
    BY <2>4 DEF Seen, RequestOf, IsReprocess, KindOf, KeyOf
  <2>6. /\ PlaceOK(s)' /\ LoadedOK(s)' /\ DecisionOK(s)'
    BY <2>2, <2>3, <2>4, <2>5
    DEF PlaceOK, LoadedOK, DecisionOK, IsReprocess, KindOf, SubmitsReversal
  <2>7. ChecksOK(s)'
    BY <1>1, <2>1, <2>3, <2>4, <2>5
    DEF SessionOK, ChecksOK, IsReprocess, KindOf, KeyOf, Exists, RefusedOn, UnderWalletLock
  <2>8. ~IsReprocess(s) => seen[s] = None
    BY <1>1 DEF SessionOK, ReadOK, HasRead
  <2>9. ReadOK(s)' /\ ReversedOK(s)'
    BY <1>1, <2>3, <2>4, <2>5, <2>8
    DEF SessionOK, ReadOK, HasRead, ReversedOK, FoundReference, Seen, IsReprocess,
        KindOf, SubmitsReversal
  <2>10. RowOK(s)'
    BY <1>1, <2>3, <2>4, <2>5
    DEF SessionOK, RowOK, Running, AfterReading, IsReprocess, KindOf, KeyOf, Exists
  <2>11. Acquires(s) /\ ReadsOwn(s)
    BY <1>1, <2>1, <2>3, <2>4, <2>5
    DEF Acquires, ReadsOwn, AfterReading, Running, IsReprocess, KindOf, KeyOf
  <2> QED
    BY <2>4, <2>6, <2>7, <2>9, <2>10, <2>11, QuietKeepsInv DEF SessionOK
<1> QED BY <1>2, <1>3

(***************************************************************************)
(* The reading of a reference.  Each reprocessing under way is that of one *)
(* session, and there are no more of them than workers.                    *)
(***************************************************************************)
LEMMA WorkerIsFree ==
    ASSUME SessionsInv, NEW s \in Sessions, IsReprocess(s), pc[s] = "reference"
    PROVE  Cardinality({k \in Keys : reading[k] # None}) < Workers
<1> DEFINE others == Reprocessings \ {s}
           f == [t \in others |-> KeyOf(t)]
           keys == {KeyOf(t) : t \in others}
           read == {k \in Keys : reading[k] # None}
<1>1. s \in Reprocessings
  BY DEF IsReprocess, KindOf, Reprocessings
<1>2. /\ IsFiniteSet(Reprocessings) /\ Cardinality(Reprocessings) \in Nat
      /\ Cardinality(Reprocessings) <= Workers
  BY ReprocessingsAssumption, FS_CardinalityType
<1>3. /\ IsFiniteSet(others)
      /\ Cardinality(others) = Cardinality(Reprocessings) - 1
  BY <1>1, <1>2, FS_RemoveElement
<1>4. f \in Surjection(others, keys)
  BY DEF Surjection
<1>5. IsFiniteSet(keys) /\ Cardinality(keys) <= Cardinality(others)
  <2> HIDE DEF f, keys, others
  <2> QED BY <1>3, <1>4, FS_Surjection
<1>6. read \subseteq keys
  BY DEF SessionsInv, ReadingsHeld, Reprocessings, IsReprocess, KindOf, AfterReading
<1>7. IsFiniteSet(read) /\ Cardinality(read) <= Cardinality(keys)
  <2> HIDE DEF keys
  <2> QED BY <1>5, <1>6, FS_Subset
<1>8. Cardinality(read) \in Nat /\ Cardinality(keys) \in Nat
  <2> HIDE DEF keys, read
  <2> QED BY <1>5, <1>7, FS_CardinalityType
<1> HIDE DEF read, keys, others
<1>9. Cardinality(read) < Workers
  BY <1>2, <1>3, <1>5, <1>7, <1>8, WorkersAssumption
<1> QED BY <1>9 DEF read

\* What a reading of the reference named x finds.
LEMMA CurrentReadingTyped ==
    ASSUME SessionsInv, NEW x, NEW read \in CurrentReadings(x)
    PROVE  /\ read \in SeenType /\ read # None
           /\ read.reference = None => read = MissingReading /\ WithExternal(x) = {}
           /\ read.reference # None =>
                 /\ read.reference \in WithExternal(x)
                 /\ read.status = txs[read.reference].status
<1>1. CASE WithExternal(x) = {}
  <2>1. read = MissingReading
    BY <1>1 DEF CurrentReadings
  <2>2. MissingReading \in SeenType /\ MissingReading.reference = None
    BY DEF MissingReading, Reading, SeenType
  <2> QED BY <1>1, <2>1, <2>2, NothingAssumption
<1>2. CASE WithExternal(x) # {}
  <2>1. PICK k \in WithExternal(x) : read = Reading(k, txs[k].status)
    BY <1>2 DEF CurrentReadings
  <2>2. k \in TxIds /\ k # None /\ txs[k].status \in Statuses
    BY RowTyped, NoneAssumption
    DEF WithExternal, SessionsInv, LedgerInv, TransactionType
  <2>3. read \in SeenType
    BY <2>1, <2>2 DEF Reading, SeenType
  <2> QED BY <2>1, <2>2, <2>3, NothingAssumption DEF Reading
<1> QED BY <1>1, <1>2

LEMMA ReadReferenceStep ==
    ASSUME SessionsInv, NEW s \in Sessions, ReadReference(s)
    PROVE  [Next]_vars /\ SessionsInv'
<1>1. pc[s] = "reference" /\ RowFree(s) /\ SessionOK(s) /\ KeyOf(s) \in Keys
  BY LockedByOne, TaskTyped DEF ReadReference, Running, SessionsInv
<1>2. PICK read \in CurrentReadings(RequestOf(s).reference) :
         /\ IF IsReprocess(s)
            THEN /\ reading' = [reading EXCEPT ![KeyOf(s)] =
                       [reference |-> read.reference, status |-> read.status,
                        rejectIfMissing |-> Task[s].last]]
                 /\ UNCHANGED seen
            ELSE /\ seen' = [seen EXCEPT ![s] = read]
                 /\ UNCHANGED reading
         /\ Goto(s, IF read.reference = None THEN "write"
                    ELSE IF IsReprocess(s) THEN "wallet" ELSE "previous")
  BY DEF ReadReference
<1>3. /\ read \in SeenType /\ read # None
      /\ read.reference = None =>
            read = MissingReading /\ WithExternal(RequestOf(s).reference) = {}
      /\ read.reference # None =>
            /\ read.reference \in WithExternal(RequestOf(s).reference)
            /\ read.status = txs[read.reference].status
  BY CurrentReadingTyped
<1>4. /\ UNCHANGED tables /\ wallets' = wallets /\ txs' = txs
      /\ UNCHANGED <<loaded, reversed, answer>>
  BY DEF ReadReference, tables
<1>5. /\ SessionVarsTyped'
      /\ pc'[s] = IF read.reference = None THEN "write"
                  ELSE IF IsReprocess(s) THEN "wallet" ELSE "previous"
      /\ IF IsReprocess(s) THEN seen' = seen ELSE seen'[s] = read
      /\ \A t \in Sessions \ {s} : pc'[t] = pc[t] /\ seen'[t] = seen[t]
  BY <1>2, <1>3, <1>4
  DEF SessionsInv, SessionsTypeOK, SessionVarsTyped, Statements, Goto
<1>6. /\ \A k \in Keys \ {KeyOf(s)} : reading'[k] = reading[k]
      /\ ~IsReprocess(s) => reading' = reading
      /\ IsReprocess(s) =>
            reading'[KeyOf(s)] = [reference |-> read.reference, status |-> read.status,
                                  rejectIfMissing |-> Task[s].last]
  BY <1>1, <1>2 DEF SessionsInv, LedgerInv, TypeOK
<1>7. \A t \in Sessions \ {s} : StaysPut(t)
  BY <1>1, <1>4, <1>5, <1>6, TaskTyped DEF StaysPut, RowFree
<1>8. CASE IsReprocess(s)
  <2>1. reading[KeyOf(s)] = None
    BY <1>1, <1>8, ReadingIsOwn DEF AfterReading
  <2>2. [reference |-> read.reference, status |-> read.status,
         rejectIfMissing |-> Task[s].last] \in ReadingType
    BY <1>3, <1>8, TaskTyped DEF SeenType, ReadingType
  <2>3. reading'[KeyOf(s)] # None
    BY <1>6, <1>8, <2>2, NoneAssumption
  <2>4. BeginReprocess(KeyOf(s), Task[s].last)
    <3>1. Exists(KeyOf(s)) /\ txs[KeyOf(s)].status = "PENDING_REFERENCE"
      BY <1>1, <1>8 DEF SessionOK, RowOK, Running
    <3>2. RequestOf(s) = txs[KeyOf(s)].req
      BY <1>8, TaskTyped
    <3> QED
      BY <1>1, <1>2, <1>4, <1>8, <2>1, <3>1, <3>2, WorkerIsFree
      DEF BeginReprocess, tables
  <2>5. [Next]_vars
    BY <1>1, <1>8, <2>4, TaskTyped DEF Next
  <2>6. Seen(s)' = [reference |-> read.reference, status |-> read.status,
                    rejectIfMissing |-> Task[s].last]
    BY <1>6, <1>8 DEF Seen, IsReprocess, KindOf, KeyOf
  <2>7. RowOK(s)'
    BY <1>1, <1>4, <1>5, <1>8, <2>3, <2>6
    DEF SessionOK, RowOK, Running, Exists, AfterReading, IsReprocess, KindOf, KeyOf, Seen
  <2>8. SessionOK(s)'
    BY <1>1, <1>5, <1>8, <2>6, <2>7
    DEF SessionOK, PlaceOK, LoadedOK, LocksWallet, ChecksOK, ReadOK, HasRead,
        ReversedOK, FoundReference, DecisionOK, IsReprocess, KindOf, SubmitsReversal
  <2>9. Acquires(s) /\ ReadsOwn(s)
    BY <1>1, <1>5, <1>6, <1>8, <2>6
    DEF Acquires, ReadsOwn, LocksWallet, Running, AfterReading, IsReprocess, KindOf
  <2> QED BY <1>4, <1>5, <1>7, <2>5, <2>8, <2>9, QuietKeepsInv
<1>9. CASE ~IsReprocess(s)
  <2>1. SubmitsReversal(s) /\ UNCHANGED vars
    BY <1>1, <1>2, <1>4, <1>9 DEF SessionOK, PlaceOK, vars, tables
  <2>2. RequestOf(s) = Task[s].req /\ RequestOf(s)' = Task[s].req /\ LocksWallet(s)
    BY <1>1, <1>9, TaskTyped
    DEF LocksWallet, UnderWalletLock, RequestOf, IsReprocess, KindOf
  <2>3. PlaceOK(s)' /\ LoadedOK(s)' /\ RowOK(s)' /\ DecisionOK(s)'
    BY <1>1, <1>4, <1>5, <1>9, <2>1, <2>2
    DEF SessionOK, PlaceOK, LoadedOK, RowOK, DecisionOK, IsReprocess, KindOf,
        SubmitsReversal
  <2>4. ChecksOK(s)'
    BY <1>1, <1>4, <1>5, <1>9
    DEF SessionOK, ChecksOK, UnderWalletLock, IsReprocess, KindOf, KeyOf, Exists, RefusedOn
  <2>5. ReadOK(s)'
    BY <1>3, <1>4, <1>5, <1>9, <2>1, <2>2
    DEF ReadOK, HasRead, SubmitsReversal, StillMissing, StillRead, WithExternal,
        Exists, KindOf
  <2>6. ReversedOK(s)'
    BY <1>5, <1>9 DEF ReversedOK, FoundReference, Seen, IsReprocess, KindOf
  <2>7. Acquires(s) /\ ReadsOwn(s)
    BY <1>1, <1>5, <1>6, <1>9, <2>2
    DEF Acquires, ReadsOwn, Running, IsReprocess, KindOf
  <2> QED
    BY <1>4, <1>5, <1>7, <2>1, <2>3, <2>4, <2>5, <2>6, <2>7, QuietKeepsInv DEF SessionOK
<1> QED BY <1>8, <1>9

LEMMA ReadPreviousStep ==
    ASSUME SessionsInv, NEW s \in Sessions, ReadPrevious(s)
    PROVE  [Next]_vars /\ SessionsInv'
<1> DEFINE found == AlreadyReversed(Seen(s).reference, RequestOf(s).kind)
<1>1. /\ pc[s] = "previous" /\ RowFree(s) /\ SessionOK(s)
      /\ reversed' = [reversed EXCEPT ![s] = found] /\ Goto(s, "write")
      /\ UNCHANGED <<vars, seen, loaded, answer>>
  BY LockedByOne DEF ReadPrevious, Running, SessionsInv
<1>2. found \in BOOLEAN
  BY DEF AlreadyReversed
<1>3. /\ SessionVarsTyped' /\ UNCHANGED <<vars, tables>>
      /\ pc'[s] = "write" /\ reversed'[s] = found
      /\ seen' = seen /\ reading' = reading /\ loaded' = loaded
      /\ txs' = txs /\ wallets' = wallets
      /\ \A t \in Sessions \ {s} : StaysPut(t)
  BY <1>1, <1>2
  DEF SessionsInv, SessionsTypeOK, SessionVarsTyped, Statements, Goto, StaysPut,
      vars, tables
<1>4. Seen(s)' = Seen(s) /\ RequestOf(s)' = RequestOf(s)
  BY <1>3 DEF Seen, RequestOf, IsReprocess, KindOf, KeyOf
<1>5. LocksWallet(s)
  BY <1>1 DEF SessionOK, RowOK, LocksWallet, UnderWalletLock, AfterReading
<1>6. PlaceOK(s)' /\ LoadedOK(s)' /\ RowOK(s)' /\ DecisionOK(s)'
  BY <1>1, <1>3, <1>4, <1>5
  DEF SessionOK, PlaceOK, LoadedOK, RowOK, DecisionOK, IsReprocess, KindOf, KeyOf,
      Exists, AfterReading, Running
<1>7. ChecksOK(s)' /\ ReadOK(s)'
  BY <1>1, <1>3
  DEF SessionOK, ChecksOK, UnderWalletLock, IsReprocess, KindOf, KeyOf, Exists,
      RefusedOn, ReadOK, HasRead, SubmitsReversal, StillMissing, StillRead, WithExternal
<1>8. ReversedOK(s)'
  <2>1. AlreadyReversed(Seen(s).reference, RequestOf(s).kind)' = found
    BY <1>3, <1>4 DEF AlreadyReversed, Exists
  <2> QED BY <1>3, <2>1 DEF ReversedOK
<1>9. Acquires(s) /\ ReadsOwn(s)
  BY <1>1, <1>3, <1>4, <1>5, ReadingIsOwn
  DEF Acquires, ReadsOwn, Running, IsReprocess, KindOf, KeyOf, AfterReading
<1> QED
  BY <1>3, <1>6, <1>7, <1>8, <1>9, QuietKeepsInv DEF SessionOK

\* A flush that can be committed.
LEMMA FlushKeepsInv ==
    ASSUME SessionsInv, NEW s \in Sessions, pc[s] = "write", Continue(s, "commit"),
           ~IsReprocess(s) =>
               ExternalFree(s) /\ WithExternal(Task[s].req.external) = {},
           \/ KindOf(s) = "FAIL"
           \/ IsReprocess(s) /\ Seen(s).reference = None
           \/ Decision(s).status # "ABORTED"
    PROVE  [Next]_vars /\ SessionsInv'
<1>1. RowFree(s) /\ SessionOK(s) /\ UNCHANGED <<vars, seen, loaded, reversed, answer>>
  BY LockedByOne DEF Running, SessionsInv, Continue
<1>2. /\ SessionVarsTyped' /\ [Next]_vars /\ UNCHANGED tables
      /\ pc'[s] = "commit" /\ \A t \in Sessions \ {s} : StaysPut(t)
  BY ContinueMoves DEF Continue, Statements
<1>3. /\ Decision(s)' = Decision(s)
      /\ Seen(s)' = Seen(s) /\ RequestOf(s)' = RequestOf(s)
  BY <1>1, QuietDecision
<1>4. reading' = reading /\ txs' = txs /\ wallets' = wallets /\ seen' = seen
  BY <1>1 DEF vars
<1>5. LocksWallet(s)' = LocksWallet(s)
  BY <1>2, <1>3 DEF LocksWallet, UnderWalletLock, IsReprocess, KindOf
<1>6. PlaceOK(s)' /\ LoadedOK(s)' /\ RowOK(s)' /\ DecisionOK(s)'
  BY <1>1, <1>2, <1>3, <1>4, <1>5
  DEF SessionOK, PlaceOK, LoadedOK, RowOK, DecisionOK, IsReprocess, KindOf, KeyOf,
      Exists, AfterReading, Running
<1>7. ChecksOK(s)' /\ ReadOK(s)'
  BY <1>1, <1>2, <1>4
  DEF SessionOK, ChecksOK, UnderWalletLock, IsReprocess, KindOf, KeyOf, Exists,
      RefusedOn, ReadOK, HasRead, SubmitsReversal, StillMissing, StillRead, WithExternal
<1>8. ReversedOK(s)'
  <2>1. AlreadyReversed(Seen(s).reference, RequestOf(s).kind)'
           = AlreadyReversed(Seen(s).reference, RequestOf(s).kind)
    BY <1>3, <1>4 DEF AlreadyReversed, Exists
  <2>2. FoundReference(s)' = FoundReference(s)
    BY <1>3 DEF FoundReference
  <2> QED BY <1>1, <1>3, <1>4, <2>1, <2>2 DEF ReversedOK, SessionOK
<1>9. Acquires(s) /\ ReadsOwn(s)
  BY <1>1, <1>2, <1>3, <1>4, <1>5, ReadingIsOwn
  DEF Acquires, ReadsOwn, Running, IsReprocess, KindOf, KeyOf, AfterReading
<1> QED
  BY <1>2, <1>6, <1>7, <1>8, <1>9, QuietKeepsInv DEF SessionOK

LEMMA FlushStep ==
    ASSUME SessionsInv, NEW s \in Sessions, Flush(s) \/ ReprocessFlush(s)
    PROVE  [Next]_vars /\ SessionsInv'
<1>1. pc[s] = "write" /\ RowFree(s)
  BY LockedByOne DEF Flush, ReprocessFlush, Running
<1>2. CASE EndWith(s, Refused)
  BY <1>1, <1>2, AnswersTyped, EndWithKeepsInv
<1>3. CASE Flush(s) /\ ~EndWith(s, Refused)
  <2>1. /\ ~IsReprocess(s) /\ Continue(s, "commit")
        /\ WithExternal(Task[s].req.external) = {} /\ ExternalFree(s)
        /\ KindOf(s) = "SUBMIT" => Decision(s).status # "ABORTED"
    BY <1>3 DEF Flush, HoldsExternal, Others, ExternalFree
  <2> QED BY <1>1, <2>1, TaskTyped, FlushKeepsInv DEF IsReprocess
<1>4. CASE ReprocessFlush(s) /\ ~EndWith(s, Refused)
  <2>1. /\ IsReprocess(s) /\ Continue(s, "commit")
        /\ Seen(s).reference # None => Decision(s).status # "ABORTED"
    BY <1>4 DEF ReprocessFlush
  <2> QED BY <1>1, <2>1, FlushKeepsInv
<1> QED BY <1>2, <1>3, <1>4

-----------------------------------------------------------------------------
(***************************************************************************)
(* The commits.  Whoever writes a row holds its key, or its row's lock,    *)
(* and the wallet's lock unless it only rejects.                           *)
(***************************************************************************)
LEMMA CommitKeepsInv ==
    ASSUME SessionsInv, [Next]_vars, NEW s \in Sessions, pc[s] = "commit",
           NEW a \in AnswerType, End(s, a),
           NEW row, row # None, row.req = RequestOf(s),
           txs' = [txs EXCEPT ![KeyOf(s)] = row],
           \/ /\ LocksWallet(s)
              /\ \A w \in Wallets \ {RequestOf(s).wallet} : wallets'[w] = wallets[w]
           \/ IsReprocess(s) /\ wallets' = wallets /\ row.status = "REJECTED"
    PROVE  SessionsInv' /\ RowsKept /\ txs'[KeyOf(s)] # None
<1>1. LedgerInv' /\ ReversalInv'
  BY LedgerInvStep, ReversalInvStep DEF SessionsInv
<1>2. RowFree(s) /\ SessionOK(s) /\ Running(s) /\ KeyOf(s) \in TxIds
  BY LockedByOne, TaskTyped DEF Running, SessionsInv
<1>3. /\ txs'[KeyOf(s)] = row
      /\ \A k \in TxIds \ {KeyOf(s)} : txs'[k] = txs[k]
  BY <1>2 DEF SessionsInv, LedgerInv, TypeOK
<1>4. /\ IsReprocess(s) => /\ Exists(KeyOf(s)) /\ txs[KeyOf(s)].req = row.req
                           /\ txs[KeyOf(s)].status = "PENDING_REFERENCE"
      /\ ~IsReprocess(s) => ~Exists(KeyOf(s)) /\ ExternalFree(s) /\ row.req = Task[s].req
  BY <1>2, TaskTyped, LockedByOne
  DEF SessionOK, RowOK, ChecksOK, UnderWalletLock
<1>5. RowsKept
  BY <1>3, <1>4 DEF RowsKept, TerminalStatuses, Exists
<1>6. ASSUME NEW t \in Sessions \ {s} PROVE Untouched(t)
  <2>1. SessionOK(t) /\ KeyOf(t) \in TxIds
    BY TaskTyped DEF SessionsInv
  <2>2. /\ Running(t) /\ IsReprocess(t) => KeyOf(t) # KeyOf(s)
        /\ ~IsReprocess(t) /\ pc[t] \in {"wallet"} \cup UnderWalletLock
              => KeyOf(t) # KeyOf(s)
    BY <1>2, <1>4, <2>1
    DEF RowFree, SessionOK, RowOK, ChecksOK, UnderWalletLock, Running
  <2>3. ~IsReprocess(t) /\ pc[t] = "commit"
           => WithExternal(Task[t].req.external)' = {}
    <3> SUFFICES ASSUME ~IsReprocess(t), pc[t] = "commit",
                        NEW k \in TxIds, txs'[k] # None,
                        txs'[k].req.external = Task[t].req.external
                 PROVE  FALSE
      BY DEF WithExternal, Exists
    <3>1. \A u \in TxIds : Exists(u) => txs[u].req.external # Task[t].req.external
      BY <2>1 DEF SessionOK, ChecksOK, WithExternal
    <3>2. k = KeyOf(s)
      BY <1>3, <3>1 DEF Exists
    <3>3. CASE IsReprocess(s)
      BY <1>2, <1>3, <1>4, <3>1, <3>2, <3>3
    <3>4. CASE ~IsReprocess(s)
      BY <1>3, <1>4, <3>2, <3>4 DEF ExternalFree
    <3> QED BY <3>3, <3>4
  <2>4. ASSUME LocksWallet(t)
        PROVE  /\ wallets'[RequestOf(t).wallet] = wallets[RequestOf(t).wallet]
               /\ RowsStay(RequestOf(t).wallet)
    <3>1. RequestOf(t).wallet \in Wallets
      BY <2>4, RequestTyped DEF LocksWallet, Running
    <3>2. CASE /\ LocksWallet(s)
               /\ \A w \in Wallets \ {RequestOf(s).wallet} : wallets'[w] = wallets[w]
      <4>1. RequestOf(t).wallet # RequestOf(s).wallet
        BY <2>4, <3>2, LockedByOne DEF WalletFree
      <4> QED BY <1>3, <3>1, <3>2, <4>1 DEF RowsStay
    <3>3. CASE IsReprocess(s) /\ wallets' = wallets /\ row.status = "REJECTED"
      BY <1>3, <1>4, <3>3 DEF RowsStay, Exists
    <3> QED BY <3>2, <3>3
  <2> QED BY <1>3, <2>1, <2>2, <2>3, <2>4 DEF Untouched
<1> QED BY <1>1, <1>2, <1>3, <1>5, <1>6, EndMoves, ActorKeepsInv

\* A step of nobody.
LEMMA NobodyKeepsInv ==
    ASSUME SessionsInv, RowsKept, LedgerInv', ReversalInv',
           UNCHANGED <<reading, sessionVars>>,
           \A t \in Sessions : Untouched(t)
    PROVE  SessionsInv'
<1>1. /\ pc' = pc /\ seen' = seen /\ loaded' = loaded /\ reversed' = reversed
      /\ answer' = answer /\ reading' = reading
      /\ \A t \in Sessions : StaysPut(t)
  BY DEF sessionVars, StaysPut
<1>2. SessionsTypeOK'
  BY <1>1 DEF SessionsInv, SessionsTypeOK, LedgerInv
<1>3. \A t \in Sessions : SessionOK(t)'
  BY <1>1, OthersKeepSession DEF ReversalInv
<1>4. \A t \in Sessions : /\ Running(t)' = Running(t)
                          /\ LocksWallet(t)' = LocksWallet(t)
                          /\ LocksWallet(t) => RequestOf(t)' = RequestOf(t)
  BY <1>1, SameView
<1>5. LocksExclude'
  BY <1>1, <1>4 DEF SessionsInv, LocksExclude, IsReprocess, KindOf, KeyOf
<1>6. ReadingsHeld'
  BY <1>1 DEF SessionsInv, ReadingsHeld, IsReprocess, KindOf, KeyOf, AfterReading
<1> QED BY <1>2, <1>3, <1>5, <1>6 DEF SessionsInv

LEMMA OpenWalletStep ==
    ASSUME SessionsInv, NEW w \in Wallets, NEW p \in Players, NEW c \in Currencies,
           NEW b \in InitialBalances, OpenWallet(w, p, c, b)
    PROVE  [Next]_vars /\ SessionsInv' /\ RowsKept
<1>1. /\ CreateWallet(w, p, c, b) /\ UNCHANGED sessionVars
      /\ wallets[w] = None /\ UNCHANGED reading
      /\ \A v \in Wallets \ {w} : wallets'[v] = wallets[v]
  BY DEF OpenWallet, CreateWallet, SessionsInv, LedgerInv, TypeOK
<1>2. [Next]_vars
  BY <1>1 DEF Next
<1>3. LedgerInv' /\ ReversalInv'
  BY <1>2, LedgerInvStep, ReversalInvStep DEF SessionsInv
<1>4. /\ \A k \in TxIds \ {w} : txs'[k] = txs[k]
      /\ txs'[w] # txs[w] => txs'[w].req.wallet = w /\ txs'[w].req.external = w
  BY <1>1
  DEF CreateWallet, OpeningRequest, SessionsInv, LedgerInv, TypeOK, TxIds
<1>5. ~Exists(w)
  BY <1>1 DEF SessionsInv, LedgerInv, RowsHaveWallets, ReversalInv, OpeningsAreOwn, TxIds
<1>6. RowsKept
  BY <1>4, <1>5 DEF RowsKept, Exists
<1>7. ASSUME NEW t \in Sessions PROVE Untouched(t)
  <2>1. /\ txs'[KeyOf(t)] = txs[KeyOf(t)]
        /\ ~IsReprocess(t) => Task[t].req.external # w
    BY <1>4, TaskTyped, DisjointAssumption
  <2>2. ~IsReprocess(t) /\ pc[t] = "commit"
           => WithExternal(Task[t].req.external)' = {}
    BY <1>4, <2>1 DEF SessionsInv, SessionOK, ChecksOK, WithExternal, Exists
  <2>3. ASSUME LocksWallet(t)
        PROVE  /\ wallets'[RequestOf(t).wallet] = wallets[RequestOf(t).wallet]
               /\ RowsStay(RequestOf(t).wallet)
    <3>1. RequestOf(t).wallet \in Wallets
      BY <2>3, RequestTyped DEF LocksWallet, Running
    <3>2. RequestOf(t).wallet # w
      BY <1>1, <2>3 DEF SessionsInv, SessionOK, LoadedOK
    <3> QED BY <1>1, <1>4, <3>1, <3>2 DEF RowsStay
  <2> QED BY <2>1, <2>2, <2>3 DEF Untouched
<1> QED BY <1>1, <1>2, <1>3, <1>6, <1>7, NobodyKeepsInv

-----------------------------------------------------------------------------
(***************************************************************************)
(* What a session decided on is what the atomic use case decides on at the *)
(* commit: the wallet is the one it loaded, and what it read without a     *)
(* lock leads to the same decision as a reading that is possible now.      *)
(***************************************************************************)
LEMMA DecideAgrees ==
    ASSUME NEW wallet, NEW req, NEW a, NEW b, NEW ra, NEW rb,
           a = None <=> b = None, a.req = b.req,
           a.status = "PROCESSED" <=> b.status = "PROCESSED",
           a.status = "PROCESSED" /\ SameContext(req, a.req) => ra = rb
    PROVE  /\ DecideReversal(wallet, req, a, ra) = DecideReversal(wallet, req, b, rb)
           /\ Decide(wallet, req, a, ra) = Decide(wallet, req, b, rb)
<1>1. ReversalFailure(req, a, ra) = ReversalFailure(req, b, rb)
  BY DEF ReversalFailure
<1>2. DecideReversal(wallet, req, a, ra) = DecideReversal(wallet, req, b, rb)
  BY SMTT(30), <1>1 DEF DecideReversal
<1> QED BY <1>2 DEF Decide

LEMMA WriteIsSave ==
    ASSUME TypeOK, NEW s \in Sessions, Write(s),
           NEW w \in Wallets, w = RequestOf(s).wallet,
           loaded[s] = wallets[w], wallets[w] \in WalletType,
           NEW reference,
           Decision(s).status = "PROCESSED" =>
               reference = IF Seen(s) # None THEN Seen(s).reference ELSE None
    PROVE  Save(KeyOf(s), RequestOf(s), w, Decision(s), reference)
<1> DEFINE d == Decision(s)
           after == BalanceAfter(d.type, wallets[w].balance, RequestOf(s).amount)
<1>1. [wallets EXCEPT ![w] = [wallets[w] EXCEPT !.balance = after,
                                                !.version = NextVersion(wallets[w])]]
         = [wallets EXCEPT ![w].balance = after, ![w].version = NextVersion(wallets[w])]
  BY DEF TypeOK, WalletType
<1>2. (IF d.status = "PROCESSED" /\ Seen(s) # None THEN Seen(s).reference ELSE None)
         = IF d.status = "PROCESSED" THEN reference ELSE None
  OBVIOUS
<1> QED BY <1>1, <1>2 DEF Write, Save

ReadReferenceOf(s) == IF Seen(s) = None THEN None ELSE Seen(s).reference

LEMMA ReadingAtCommit ==
    ASSUME SessionsInv, NEW s \in Sessions, pc[s] = "commit", KindOf(s) = "SUBMIT"
    PROVE  LET r == Task[s].req
           IN  \E read \in ReferenceReadings(r) :
                  /\ Decide(wallets[r.wallet], r, RowRead(read),
                            AlreadyReversed(read.reference, r.kind)) = Decision(s)
                  /\ read.reference = ReadReferenceOf(s)
<1> DEFINE r == Task[s].req
           row == IF Seen(s) = None THEN None ELSE RowRead(Seen(s))
           Agrees(read) ==
              /\ Decide(wallets[r.wallet], r, RowRead(read),
                        AlreadyReversed(read.reference, r.kind)) = Decision(s)
              /\ read.reference = ReadReferenceOf(s)
<1> SUFFICES \E read \in ReferenceReadings(r) : Agrees(read)
  OBVIOUS
<1>1. /\ ~IsReprocess(s) /\ RequestOf(s) = r /\ Seen(s) = seen[s]
      /\ r.kind \in WagerKinds /\ r.wallet \in Wallets
  BY TaskTyped DEF IsReprocess, Seen
<1>2. SessionOK(s) /\ seen[s] \in SeenType \cup {None}
  BY DEF SessionsInv, SessionsTypeOK
<1>3. loaded[s] = wallets[r.wallet]
  BY <1>1, <1>2 DEF SessionOK, LoadedOK, LocksWallet, UnderWalletLock
<1>4. Decision(s) = Decide(wallets[r.wallet], r, row, reversed[s])
  BY <1>1, <1>3 DEF Decision
<1>5. CASE r.kind \notin ReversalKinds
  <2>1. seen[s] = None
    BY <1>2, <1>5 DEF SessionOK, ReadOK, HasRead, SubmitsReversal, IsReversal
  <2>2. r.kind \in {"BET", "WIN", "LOSS"}
    BY <1>1, <1>5 DEF WagerKinds, ReversalKinds
  <2>3. Agrees(MissingReading)
    BY <1>1, <1>4, <2>1, <2>2 DEF Decide, MissingReading, Reading, ReadReferenceOf
  <2> QED BY <1>5, <2>3 DEF ReferenceReadings
<1>6. CASE r.kind \in ReversalKinds
  <2> DEFINE k == seen[s].reference
             now == Reading(k, txs[k].status)
  <2>1. /\ HasRead(s) /\ seen[s] # None /\ seen[s] \in SeenType
        /\ k = None => seen[s] = MissingReading /\ StillMissing(r)
        /\ k # None => StillRead(r, seen[s])
    BY <1>2, <1>6 DEF HasRead, SubmitsReversal, IsReversal, SessionOK, ReadOK
  <2>2. /\ ReadReferenceOf(s) = k
        /\ Decision(s) = Decide(wallets[r.wallet], r, RowRead(seen[s]), reversed[s])
    BY <1>1, <1>4, <2>1 DEF ReadReferenceOf
  <2>3. CASE k = None
    <3>1. MissingReading \in ReferenceReadings(r)
      BY <1>6, <2>1, <2>3
      DEF StillMissing, ReferenceReadings, CurrentReadings, EarlierReadings
    <3>2. Agrees(MissingReading)
      BY <1>6, <2>1, <2>2, <2>3
      DEF Decide, MissingReading, Reading, RowRead, ReversalKinds
    <3> QED BY <3>1, <3>2
  <2>4. CASE k # None
    <3>1. /\ k \in WithExternal(r.reference) /\ k \in TxIds /\ Exists(k)
          /\ seen[s].status # txs[k].status =>
                /\ seen[s].status = "PENDING_REFERENCE"
                /\ IsReversal(txs[k].req)
                /\ txs[k].req.wallet = r.wallet => txs[k].status # "PROCESSED"
      BY <2>1, <2>4 DEF StillRead, WithExternal
    <3>2. /\ RowRead(seen[s]) = [req |-> txs[k].req, status |-> seen[s].status]
          /\ RowRead(now) = [req |-> txs[k].req, status |-> txs[k].status]
          /\ now.reference = k
      BY <2>4 DEF RowRead, Reading
    <3>3. txs[k].req \in RequestType /\ txs[k].status \in Statuses
      BY <3>1, RowTyped DEF SessionsInv, LedgerInv, TransactionType
    <3>4. seen[s].status \in Statuses
      BY <3>1, <3>3 DEF Statuses
    <3>5. RowRead(seen[s]) # None /\ RowRead(now) # None
      BY <3>2, <3>3, <3>4, NothingAssumption
    <3>6. txs[k].req.wallet = r.wallet => reversed[s] = AlreadyReversed(k, r.kind)
      BY <1>1, <1>2, <2>1, <2>4 DEF SessionOK, ReversedOK, FoundReference
    <3>7. SameContext(r, txs[k].req) => txs[k].req.wallet = r.wallet
      BY DEF SameContext
    <3>8. CASE \/ seen[s].status = txs[k].status
               \/ txs[k].req.wallet = r.wallet
      <4>1. now \in ReferenceReadings(r)
        BY <1>6, <3>1 DEF ReferenceReadings, CurrentReadings
      <4>2. seen[s].status = "PROCESSED" <=> txs[k].status = "PROCESSED"
        BY <3>1, <3>8
      <4>3. Agrees(now)
        BY <2>2, <3>2, <3>5, <3>6, <3>7, <4>2, DecideAgrees
      <4> QED BY <4>1, <4>3
    <3>9. CASE seen[s].status # txs[k].status /\ txs[k].req.wallet # r.wallet
      <4>1. seen[s] = Reading(k, "PENDING_REFERENCE")
        BY <2>1, <3>1, <3>9 DEF SeenType, Reading
      <4>2. seen[s] \in ReferenceReadings(r)
        BY <1>6, <3>1, <3>9, <4>1 DEF ReferenceReadings, EarlierReadings
      <4>3. Agrees(seen[s])
        BY <2>2, <3>2, <3>5, <3>1, <3>9, DecideAgrees
      <4> QED BY <4>2, <4>3
    <3> QED BY <3>8, <3>9
  <2> QED BY <2>3, <2>4
<1> QED BY <1>5, <1>6

-----------------------------------------------------------------------------
(***************************************************************************)
(* A commit is a step of WageringTransactions.                             *)
(***************************************************************************)
LEMMA SaveCommits ==
    ASSUME SessionsInv, [Next]_vars, NEW s \in Sessions, pc[s] = "commit",
           LocksWallet(s),
           NEW d, d.status # "ABORTED",
           SoundDecision(d, wallets[RequestOf(s).wallet], RequestOf(s)),
           NEW reference \in TxIds \cup {None},
           Save(KeyOf(s), RequestOf(s), RequestOf(s).wallet, d, reference),
           End(s, FromRow("NEW", txs'[KeyOf(s)]))
    PROVE  SessionsInv' /\ RowsKept /\ txs'[KeyOf(s)] # None
<1> DEFINE k == KeyOf(s)
           req == RequestOf(s)
           w == RequestOf(s).wallet
<1>1. k \in TxIds /\ req \in RequestType /\ w \in Wallets /\ wallets[w] # None
  BY TaskTyped, RequestTyped DEF Running, SessionsInv, SessionOK, LoadedOK
<1>2. TypeOK /\ LedgerExplainsBalance /\ VersionCountsEntries
  BY DEF SessionsInv, LedgerInv
<1>3. /\ txs' \in [TxIds -> TransactionType \cup {None}]
      /\ txs'[k] # None /\ txs'[k].req = req
  BY <1>1, <1>2, SaveKeepsTables
<1>4. PICK row : txs' = [txs EXCEPT ![k] = row]
  BY DEF Save
<1>5. txs'[k] = row
  BY <1>1, <1>2, <1>4 DEF TypeOK
<1>6. FromRow("NEW", txs'[k]) \in AnswerType
  BY <1>1, <1>3, AnswersTyped
<1>7. \A v \in Wallets \ {w} : wallets'[v] = wallets[v]
  BY <1>1, <1>2 DEF Save, TypeOK
<1> QED BY <1>3, <1>4, <1>5, <1>6, <1>7, CommitKeepsInv

LEMMA SubmitCommitStep ==
    ASSUME SessionsInv, NEW s \in Sessions, Commit(s), KindOf(s) = "SUBMIT"
    PROVE  [Next]_vars /\ SessionsInv' /\ RowsKept /\ txs'[KeyOf(s)] # None
<1> DEFINE r == Task[s].req
           w == Task[s].req.wallet
<1>1. /\ ~IsReprocess(s) /\ RequestOf(s) = r /\ KeyOf(s) = r.key
      /\ r \in Requests /\ r \in RequestType /\ w \in Wallets
  BY TaskTyped DEF IsReprocess
<1>2. /\ pc[s] = "commit" /\ SessionOK(s) /\ Write(s)
      /\ End(s, FromRow("NEW", txs'[KeyOf(s)])) /\ reading' = reading
  BY <1>1 DEF Commit, SessionsInv, End
<1>3. LocksWallet(s)
  BY <1>1, <1>2 DEF LocksWallet, UnderWalletLock
<1>4. /\ loaded[s] = wallets[w] /\ wallets[w] # None /\ wallets[w] \in WalletType
  BY <1>1, <1>2, <1>3 DEF SessionOK, LoadedOK, SessionsInv, LedgerInv, TypeOK
<1>5. /\ IsPositive(r.amount) /\ Insertable(r) /\ wallets[w].player = r.player
      /\ Decision(s).status # "ABORTED"
  BY <1>1, <1>2, <1>4
  DEF SessionOK, ChecksOK, DecisionOK, UnderWalletLock, RefusedOn, Insertable
<1>6. PICK read \in ReferenceReadings(r) :
         /\ Decide(wallets[w], r, RowRead(read), AlreadyReversed(read.reference, r.kind))
               = Decision(s)
         /\ read.reference = ReadReferenceOf(s)
  BY <1>2, ReadingAtCommit
<1>7. Save(r.key, r, w, Decision(s), read.reference)
  BY <1>1, <1>2, <1>4, <1>6, WriteIsSave DEF ReadReferenceOf, SessionsInv, LedgerInv
<1>8. Submit(r)
  BY <1>2, <1>5, <1>6, <1>7 DEF Submit
<1>9. [Next]_vars
  BY <1>1, <1>8 DEF Next
<1>10. SoundDecision(Decision(s), wallets[w], r)
  BY <1>1, <1>4, <1>6, DecideSound
<1>11. read.reference \in TxIds \cup {None}
  BY <1>6
  DEF ReferenceReadings, CurrentReadings, EarlierReadings, MissingReading, Reading,
      WithExternal
<1> QED BY <1>1, <1>2, <1>3, <1>5, <1>7, <1>9, <1>10, <1>11, SaveCommits

LEMMA FailCommitStep ==
    ASSUME SessionsInv, NEW s \in Sessions, Commit(s), KindOf(s) = "FAIL"
    PROVE  [Next]_vars /\ SessionsInv' /\ RowsKept /\ txs'[KeyOf(s)] # None
<1> DEFINE r == Task[s].req
           w == Task[s].req.wallet
           row == [req |-> r, status |-> "FAILED",
                   failure |-> "PERMANENT_INFRASTRUCTURE_ERROR", reference |-> None,
                   balanceAfter |-> wallets[w].balance]
<1>1. /\ ~IsReprocess(s) /\ RequestOf(s) = r /\ KeyOf(s) = r.key /\ KeyOf(s) \in TxIds
      /\ r \in Failing /\ r \in RequestType /\ w \in Wallets
  BY TaskTyped
<1>2. /\ pc[s] = "commit" /\ SessionOK(s) /\ WriteFailed(s)
      /\ End(s, FromRow("NEW", txs'[KeyOf(s)])) /\ reading' = reading
  BY <1>1 DEF Commit, SessionsInv, End
<1>3. LocksWallet(s)
  BY <1>1, <1>2 DEF LocksWallet, UnderWalletLock
<1>4. /\ loaded[s] = wallets[w] /\ wallets[w] # None /\ wallets[w] \in WalletType
  BY <1>1, <1>2, <1>3 DEF SessionOK, LoadedOK, SessionsInv, LedgerInv, TypeOK
<1>5. Insertable(r)
  BY <1>1, <1>2, <1>4
  DEF SessionOK, ChecksOK, UnderWalletLock, RefusedOn, Insertable
<1>6. txs' = [txs EXCEPT ![KeyOf(s)] = row] /\ wallets' = wallets
  BY <1>1, <1>2, <1>4 DEF WriteFailed
<1>7. FailTransaction(r)
  BY <1>1, <1>2, <1>4, <1>5 DEF FailTransaction, WriteFailed
<1>8. [Next]_vars
  BY <1>1, <1>7 DEF Next
<1>9. row \in TransactionType /\ txs'[KeyOf(s)] = row
  BY <1>1, <1>4, <1>6
  DEF TransactionType, WalletType, Statuses, FailureCodes, SessionsInv, LedgerInv, TypeOK
<1>10. row # None /\ row.req = RequestOf(s)
  BY <1>1, <1>9, NoneAssumption
<1>11. FromRow("NEW", txs'[KeyOf(s)]) \in AnswerType
  BY <1>9, AnswersTyped
<1> QED BY <1>2, <1>3, <1>6, <1>8, <1>10, <1>11, CommitKeepsInv

LEMMA ReprocessCommitStep ==
    ASSUME SessionsInv, NEW s \in Sessions, ReprocessCommit(s)
    PROVE  [Next]_vars /\ SessionsInv' /\ RowsKept /\ txs'[KeyOf(s)] # None
<1> DEFINE k == KeyOf(s)
           req == RequestOf(s)
           w == RequestOf(s).wallet
<1>1. /\ IsReprocess(s) /\ pc[s] = "commit" /\ SessionOK(s) /\ Running(s) /\ RowFree(s)
      /\ End(s, FromRow("NEW", txs'[k]))
      /\ reading' = [reading EXCEPT ![k] = None]
  BY LockedByOne DEF ReprocessCommit, SessionsInv, End, Running
<1>2. /\ k \in Keys /\ k \in TxIds /\ req = txs[k].req
      /\ req \in RequestType /\ w \in Wallets
  BY <1>1, TaskTyped, RequestTyped
<1>3. /\ Exists(k) /\ txs[k].status = "PENDING_REFERENCE"
      /\ txs[k] \in TransactionType
      /\ reading[k] # None /\ Seen(s) = reading[k]
      /\ reading[k].rejectIfMissing = Task[s].last
  BY <1>1, <1>2, RowTyped
  DEF SessionOK, RowOK, AfterReading, Seen, SessionsInv, LedgerInv
<1>4. CASE reading[k].reference # None
  <2> DEFINE reversedNow == AlreadyReversed(reading[k].reference, req.kind)
  <2>1. Write(s) /\ LocksWallet(s)
    BY <1>1, <1>3, <1>4 DEF ReprocessCommit, LocksWallet
  <2>2. loaded[s] = wallets[w] /\ wallets[w] # None /\ wallets[w] \in WalletType
    BY <1>1, <1>2, <2>1 DEF SessionOK, LoadedOK, SessionsInv, LedgerInv, TypeOK
  <2>3. Decision(s) = DecideReversal(wallets[w], req, RowRead(reading[k]), reversed[s])
    BY <1>1, <1>3, <2>2 DEF Decision
  <2>4. SameContext(req, RowRead(reading[k]).req) => reversed[s] = reversedNow
    BY <1>1, <1>3, <1>4
    DEF SameContext, RowRead, SessionOK, ReversedOK, FoundReference
  <2>5. Decision(s) = DecideReversal(wallets[w], req, RowRead(reading[k]), reversedNow)
    BY <2>3, <2>4, DecideAgrees
  <2>6. Decision(s).status # "ABORTED"
    BY <1>1, <1>3, <1>4 DEF SessionOK, DecisionOK, IsReprocess
  <2>7. Save(k, req, w, Decision(s), reading[k].reference)
    BY <1>2, <1>3, <2>1, <2>2, WriteIsSave DEF SessionsInv, LedgerInv
  <2>8. FinishWithReference(k)
    BY <1>1, <1>2, <1>3, <1>4, <2>5, <2>6, <2>7 DEF FinishWithReference
  <2>9. [Next]_vars
    BY <1>2, <2>8 DEF Next
  <2>10. SoundDecision(Decision(s), wallets[w], req)
    BY <1>2, <2>2, <2>3, DecideReversalSound
  <2>11. reading[k].reference \in TxIds \cup {None}
    BY <1>2, <1>3 DEF SessionsInv, LedgerInv, TypeOK, ReadingType
  <2> QED BY <1>1, <2>1, <2>6, <2>7, <2>9, <2>10, <2>11, SaveCommits
<1>5. CASE reading[k].reference = None /\ Task[s].last
  <2> DEFINE row == [txs[k] EXCEPT !.status = "REJECTED",
                                   !.failure = "REFERENCE_NOT_FOUND"]
  <2>1. WriteNotFound(s)
    BY <1>3, <1>5 DEF ReprocessCommit
  <2>2. FinishWithoutReference(k)
    BY <1>1, <1>2, <1>3, <1>5, <2>1 DEF FinishWithoutReference, WriteNotFound
  <2>3. [Next]_vars
    BY <1>2, <2>2 DEF Next
  <2>4. row \in TransactionType /\ row.req = req /\ row.status = "REJECTED"
    BY <1>2, <1>3 DEF TransactionType, Statuses, FailureCodes
  <2>5. txs' = [txs EXCEPT ![k] = row] /\ wallets' = wallets
    BY <1>2, <2>1 DEF WriteNotFound, SessionsInv, LedgerInv, TypeOK
  <2>6. txs'[k] = row
    BY <1>2, <2>5 DEF SessionsInv, LedgerInv, TypeOK
  <2>7. row # None /\ FromRow("NEW", txs'[k]) \in AnswerType
    BY <2>4, <2>6, NoneAssumption, AnswersTyped
  <2> QED BY <1>1, <2>3, <2>4, <2>5, <2>7, CommitKeepsInv
<1>6. CASE reading[k].reference = None /\ ~Task[s].last
  <2>1. EndWith(s, FromRow("NEW", txs[k]))
    BY <1>1, <1>3, <1>6 DEF ReprocessCommit, EndWith, tables
  <2>2. UNCHANGED tables /\ txs' = txs
    BY <2>1 DEF EndWith, tables
  <2> QED
    BY <1>1, <1>3, <2>1, <2>2, AnswersTyped, EndWithKeepsInv, NothingTouched DEF Exists
<1> QED BY <1>4, <1>5, <1>6

-----------------------------------------------------------------------------
(***************************************************************************)
(* Every step keeps the invariant and is a step of WageringTransactions.   *)
(***************************************************************************)
\* A step of session s answers nobody else; the answer of s is no row, or the
\* row as it is now, and new only where there was none.
TellsRow(s) ==
    /\ txs'[KeyOf(s)] # None
    /\ \E outcome \in {"NEW", "REPLAY"} :
          /\ answer'[s] = FromRow(outcome, txs'[KeyOf(s)])
          /\ outcome = "NEW" /\ ~IsReprocess(s) => ~Exists(KeyOf(s))
Answers(s) ==
    /\ \A t \in Sessions \ {s} : answer'[t] = answer[t]
    /\ \/ answer'[s] = answer[s]
       \/ answer'[s].outcome \in {"CONFLICT", "ERROR"}
       \/ TellsRow(s)
Sound == [Next]_vars /\ SessionsInv' /\ RowsKept

LEMMA EndAnswers ==
    ASSUME SessionsInv, NEW s \in Sessions, NEW a, End(s, a)
    PROVE  answer'[s] = a /\ \A t \in Sessions \ {s} : answer'[t] = answer[t]
BY DEF End, Reply, SessionsInv, SessionsTypeOK

\* The statements that write nothing.
QuietStep(s) ==
    \/ ClaimKey(s) \/ FindExisting(s) \/ LockWallet(s) \/ ReadReference(s)
    \/ ReadPrevious(s) \/ Flush(s) \/ LockRow(s) \/ ReprocessFlush(s) \/ Abort(s)

LEMMA QuietIsSound ==
    ASSUME SessionsInv, NEW s \in Sessions, QuietStep(s)
    PROVE  Sound /\ Answers(s)
<1>1. [Next]_vars /\ SessionsInv'
  BY ClaimKeyStep, FindExistingStep, LockWalletStep, ReadReferenceStep,
     ReadPreviousStep, FlushStep, LockRowStep, AbortStep DEF QuietStep
<1>2. /\ UNCHANGED tables
      /\ \/ answer' = answer
         \/ EndWith(s, Refused) \/ EndWith(s, Told("CONFLICT", None, None))
         \/ Exists(KeyOf(s)) /\ EndWith(s, FromRow("REPLAY", txs[KeyOf(s)]))
  BY DEF QuietStep, ClaimKey, FindExisting, LockWallet, ReadReference, ReadPrevious,
         Flush, LockRow, ReprocessFlush, Abort, Continue, EndWith, vars, tables
<1>3. RowsKept /\ txs' = txs
  BY <1>2, NothingTouched DEF tables
<1>4. CASE answer' = answer
  BY <1>1, <1>3, <1>4 DEF Sound, Answers
<1>5. CASE EndWith(s, Refused) \/ EndWith(s, Told("CONFLICT", None, None))
  <2>1. /\ answer'[s].outcome \in {"CONFLICT", "ERROR"}
        /\ \A t \in Sessions \ {s} : answer'[t] = answer[t]
    BY <1>5, EndAnswers DEF EndWith, Refused, Told
  <2> QED BY <1>1, <1>3, <2>1 DEF Sound, Answers
<1>6. CASE Exists(KeyOf(s)) /\ EndWith(s, FromRow("REPLAY", txs[KeyOf(s)]))
  <2>1. /\ answer'[s] = FromRow("REPLAY", txs[KeyOf(s)])
        /\ \A t \in Sessions \ {s} : answer'[t] = answer[t]
    BY <1>6, EndAnswers DEF EndWith
  <2> QED BY <1>1, <1>3, <1>6, <2>1 DEF Sound, Answers, TellsRow, Exists
<1> QED BY <1>2, <1>4, <1>5, <1>6

LEMMA CommitIsSound ==
    ASSUME SessionsInv, NEW s \in Sessions, Commit(s) \/ ReprocessCommit(s)
    PROVE  Sound /\ Answers(s)
<1>1. [Next]_vars /\ SessionsInv' /\ RowsKept /\ txs'[KeyOf(s)] # None
  BY TaskTyped, SubmitCommitStep, FailCommitStep, ReprocessCommitStep
  DEF Commit, IsReprocess
<1>2. /\ answer'[s] = FromRow("NEW", txs'[KeyOf(s)])
      /\ \A t \in Sessions \ {s} : answer'[t] = answer[t]
  BY EndAnswers DEF Commit, ReprocessCommit
<1>3. ~IsReprocess(s) => ~Exists(KeyOf(s))
  BY DEF Commit, ReprocessCommit, SessionsInv, SessionOK, ChecksOK, UnderWalletLock
<1> QED BY <1>1, <1>2, <1>3 DEF Sound, Answers, TellsRow

LEMMA NobodyIsSound ==
    ASSUME SessionsInv, UNCHANGED allVars
    PROVE  Sound
<1>1. /\ UNCHANGED <<tables, reading, sessionVars>> /\ UNCHANGED vars
  BY DEF allVars, vars, tables
<1>2. LedgerInv' /\ ReversalInv'
  BY <1>1, LedgerInvStep, ReversalInvStep DEF SessionsInv
<1> QED BY <1>1, <1>2, NothingTouched, NobodyKeepsInv DEF Sound

\* Each step is sound, and is a step of nobody or of one session.
LEMMA SessionsStep ==
    ASSUME SessionsInv, [SessionsNext]_allVars
    PROVE  /\ Sound
           /\ answer' = answer \/ \E s \in Sessions : Answers(s)
<1>1. CASE UNCHANGED allVars
  BY <1>1, NobodyIsSound DEF allVars, sessionVars
<1>2. ASSUME NEW w \in Wallets, NEW p \in Players, NEW c \in Currencies,
             NEW b \in InitialBalances, OpenWallet(w, p, c, b)
      PROVE  Sound /\ answer' = answer
  BY <1>2, OpenWalletStep DEF Sound, OpenWallet, sessionVars
<1>3. ASSUME NEW s \in Sessions, QuietStep(s)
      PROVE  Sound /\ Answers(s)
  BY <1>3, QuietIsSound
<1>4. ASSUME NEW s \in Sessions, Commit(s) \/ ReprocessCommit(s)
      PROVE  Sound /\ Answers(s)
  BY <1>4, CommitIsSound
<1> QED BY <1>1, <1>2, <1>3, <1>4 DEF SessionsNext, QuietStep

LEMMA SessionsInvInit == SessionsInit => SessionsInv
<1> SUFFICES ASSUME SessionsInit PROVE SessionsInv
  OBVIOUS
<1>1. LedgerInv /\ ReversalInv
  BY LedgerInvInit, ReversalInvInit DEF SessionsInit
<1>2. \A s \in Sessions :
         /\ pc[s] = "begin" /\ seen[s] = None
         /\ ~Running(s) /\ ~LocksWallet(s) /\ ~HasRead(s)
  BY DEF SessionsInit, Running, LocksWallet, UnderWalletLock, HasRead
<1>3. SessionsTypeOK
  BY <1>1 DEF SessionsInit, SessionsTypeOK, LedgerInv, Statements
<1>4. \A s \in Sessions : SessionOK(s)
  BY <1>2
  DEF SessionOK, PlaceOK, LoadedOK, ChecksOK, ReadOK, RowOK, ReversedOK, DecisionOK,
      UnderWalletLock, AfterReading
<1>5. LocksExclude
  BY <1>2 DEF LocksExclude
<1>6. ReadingsHeld
  BY DEF SessionsInit, Init, ReadingsHeld
<1> QED BY <1>1, <1>3, <1>4, <1>5, <1>6 DEF SessionsInv

LEMMA SessionsInvHolds == SessionsSafeSpec => []SessionsInv
<1>1. SessionsInv /\ [SessionsNext]_allVars => SessionsInv'
  BY SessionsStep DEF Sound
<1> QED BY <1>1, SessionsInvInit, PTL DEF SessionsSafeSpec

LEMMA InitIsTold == SessionsInit => AnswersAreStored /\ OneNewAnswerPerKey
BY DEF SessionsInit, AnswersAreStored, OneNewAnswerPerKey

LEMMA RowsKeepAnswers ==
    ASSUME SessionsInv, AnswersAreStored, RowsKept, NEW t \in Sessions,
           answer'[t] = answer[t], answer[t] # None,
           answer[t].outcome \in {"NEW", "REPLAY"}
    PROVE  /\ txs'[KeyOf(t)] # None
           /\ answer[t].status \in TerminalStatuses =>
                 /\ txs'[KeyOf(t)].status = answer[t].status
                 /\ txs'[KeyOf(t)].balanceAfter = answer[t].balance
<1>1. /\ Exists(KeyOf(t)) /\ KeyOf(t) \in TxIds
      /\ answer[t].status \in TerminalStatuses =>
            /\ txs[KeyOf(t)].status = answer[t].status
            /\ txs[KeyOf(t)].balanceAfter = answer[t].balance
  BY TaskTyped DEF AnswersAreStored
<1> QED BY <1>1 DEF RowsKept

LEMMA AnswersStep ==
    ASSUME SessionsInv, AnswersAreStored, OneNewAnswerPerKey, [SessionsNext]_allVars
    PROVE  AnswersAreStored' /\ OneNewAnswerPerKey'
<1>1. RowsKept /\ (answer' = answer \/ \E s \in Sessions : Answers(s))
  BY SessionsStep DEF Sound
<1>2. \A t \in Sessions : \/ answer'[t] = answer[t]
                          \/ answer'[t].outcome \in {"CONFLICT", "ERROR"}
                          \/ TellsRow(t)
  BY <1>1 DEF Answers
<1>3. AnswersAreStored'
  <2> SUFFICES ASSUME NEW t \in Sessions, answer'[t] # None,
                      answer'[t].outcome \in {"NEW", "REPLAY"}
               PROVE  /\ txs'[KeyOf(t)] # None
                      /\ answer'[t].status \in TerminalStatuses =>
                            /\ txs'[KeyOf(t)].status = answer'[t].status
                            /\ txs'[KeyOf(t)].balanceAfter = answer'[t].balance
    BY DEF AnswersAreStored, Exists, KeyOf, IsReprocess, KindOf
  <2>1. CASE answer'[t] = answer[t]
    BY <1>1, <2>1, RowsKeepAnswers
  <2>2. CASE TellsRow(t)
    BY <2>2 DEF TellsRow, FromRow, Told
  <2> QED BY <1>2, <2>1, <2>2
<1>4. OneNewAnswerPerKey'
  <2> DEFINE New(t) == ~IsReprocess(t) /\ answer[t] # None /\ answer[t].outcome = "NEW"
             NewNow(t) == /\ ~IsReprocess(t) /\ answer'[t] # None
                          /\ answer'[t].outcome = "NEW"
  <2> SUFFICES ASSUME NEW s \in Sessions, NEW t \in Sessions, NewNow(s), NewNow(t),
                      KeyOf(s) = KeyOf(t), s # t
               PROVE  FALSE
    BY DEF OneNewAnswerPerKey, KeyOf, IsReprocess, KindOf
  <2>1. ASSUME NEW u \in Sessions, NewNow(u)
        PROVE  \/ New(u) /\ Exists(KeyOf(u))
               \/ answer'[u] # answer[u] /\ ~Exists(KeyOf(u))
    <3>1. CASE answer'[u] = answer[u]
      BY <2>1, <3>1 DEF AnswersAreStored
    <3>2. CASE answer'[u] # answer[u] /\ TellsRow(u)
      BY <2>1, <3>2 DEF TellsRow, FromRow, Told
    <3> QED BY <1>2, <2>1, <3>1, <3>2
  <2>2. answer'[s] = answer[s] \/ answer'[t] = answer[t]
    BY <1>1 DEF Answers
  <2>3. New(s) /\ New(t)
    BY <2>1, <2>2
  <2> QED BY <2>3 DEF OneNewAnswerPerKey
<1> QED BY <1>3, <1>4

-----------------------------------------------------------------------------
(***************************************************************************)
(* Type correctness of the sessions, at every statement of every use case. *)
(***************************************************************************)
THEOREM SessionsAreTyped == SessionsSafeSpec => []SessionsTypeOK
<1>1. SessionsInv => SessionsTypeOK
  BY DEF SessionsInv
<1> QED BY <1>1, SessionsInvHolds, PTL

(***************************************************************************)
(* No lost update, for any number of sessions: two sessions that are about *)
(* to write have different keys and, unless one only rejects, different    *)
(* wallets.  The locks of idempotency_keys, wager_transactions and wallets *)
(* are enough, taken in the order the use cases take them.                 *)
(***************************************************************************)
THEOREM NoLostUpdates == SessionsSafeSpec => []NoConcurrentWriters
<1>1. SessionsInv => NoConcurrentWriters
  <2> SUFFICES ASSUME SessionsInv, NEW s \in Sessions, NEW t \in Sessions,
                      s # t, Writing(s), Writing(t)
               PROVE  /\ KeyOf(s) # KeyOf(t)
                      /\ RequestOf(s).wallet = RequestOf(t).wallet =>
                            \E u \in {s, t} : IsReprocess(u) /\ Seen(u).reference = None
    BY DEF NoConcurrentWriters
  <2>1. ASSUME NEW u \in {s, t}
        PROVE  /\ Running(u)
               /\ IsReprocess(u) => Exists(KeyOf(u))
               /\ ~IsReprocess(u) => ~Exists(KeyOf(u))
               /\ ~LocksWallet(u) => IsReprocess(u) /\ Seen(u).reference = None
    <3>1. u \in Sessions /\ pc[u] \in {"write", "commit"} /\ RowOK(u) /\ ChecksOK(u)
      BY DEF Writing, SessionsInv, SessionOK
    <3>2. Running(u)
      BY <3>1 DEF Running
    <3>3. ~LocksWallet(u) => IsReprocess(u) /\ Seen(u).reference = None
      BY <3>1 DEF LocksWallet, UnderWalletLock
    <3> QED BY <3>1, <3>2, <3>3 DEF RowOK, ChecksOK, UnderWalletLock
  <2>2. KeyOf(s) # KeyOf(t)
    BY <2>1 DEF SessionsInv, LocksExclude
  <2>3. LocksWallet(s) /\ LocksWallet(t) => RequestOf(s).wallet # RequestOf(t).wallet
    BY DEF SessionsInv, LocksExclude
  <2> QED BY <2>1, <2>2, <2>3
<1> QED BY <1>1, SessionsInvHolds, PTL

(***************************************************************************)
(* The sessions implement WageringTransactions: statement by statement, at *)
(* READ COMMITTED and with a rollback anywhere, they commit only what the  *)
(* atomic use cases could have committed.                                  *)
(***************************************************************************)
THEOREM SessionsImplement == SessionsSafeSpec => ImplementsTransactions
<1>1. SessionsInit => Init
  BY DEF SessionsInit
<1>2. SessionsInv /\ [SessionsNext]_allVars => [Next]_vars
  BY SessionsStep DEF Sound
<1> QED
  BY <1>1, <1>2, SessionsInvHolds, PTL DEF SessionsSafeSpec, ImplementsTransactions, Spec

(***************************************************************************)
(* What a caller was told is stored, and a final status stays so.          *)
(***************************************************************************)
THEOREM AnswersHold == SessionsSafeSpec => []AnswersAreStored
BY SessionsInvHolds, InitIsTold, AnswersStep, PTL DEF SessionsSafeSpec

(***************************************************************************)
(* However often a wager is delivered, and over whatever channel, at most  *)
(* one delivery is told that it was recorded new.                          *)
(***************************************************************************)
THEOREM NewOnce == SessionsSafeSpec => []OneNewAnswerPerKey
BY SessionsInvHolds, InitIsTold, AnswersStep, PTL DEF SessionsSafeSpec

(***************************************************************************)
(* What is proved of the atomic use cases holds of the committed tables    *)
(* while sessions race: the ledger explains the balance, every wager takes *)
(* effect once and is reversed once per kind, as it asked for, the events  *)
(* tell the ledger and the rows, and nothing that was committed is changed.*)
(***************************************************************************)
THEOREM SessionsKeepTheBooks ==
    SessionsSafeSpec =>
        /\ [](LedgerExplainsBalance /\ EffectOnce)
        /\ [](ReversedOncePerKind /\ ReversalMatchesReference)
        /\ [](EventsMirrorLedger /\ OutcomesTellStatus)
        /\ HistoryIsImmutable
<1>1. SessionsSafeSpec => Spec
  BY SessionsImplement DEF ImplementsTransactions
<1> QED
  BY <1>1, LedgerCorrect, EffectsCorrect, ReversalsCorrect, ReferencesCorrect,
     EventsFollowLedger, EventsFollowRows, HistoryCorrect, PTL
=============================================================================
