--------------------------- MODULE WageringRules ---------------------------
(***************************************************************************)
(* The pure business rules of the wallet service: what a wager transaction *)
(* does to the wallet it names.  Nothing here has state: the modules of    *)
(* the database level evaluate these operators under the wallet's lock.    *)
(***************************************************************************)
EXTENDS Integers

CONSTANTS
    MaxBalance,  \* the largest amount a NUMERIC(19,2) column holds, in cents
    None         \* a SQL NULL, a missing row, an omitted field

ASSUME MaxBalanceAssumption == MaxBalance \in Nat

WagerKinds == {"BET", "WIN", "LOSS", "REFUND", "ROLLBACK"}
ReversalKinds == {"REFUND", "ROLLBACK"}
Kinds == WagerKinds \cup {"OPENING"}

\* PENDING is the status of a new WagerTransaction object and is never saved.
Statuses == {"PENDING_REFERENCE", "PROCESSED", "REJECTED", "FAILED"}
TerminalStatuses == Statuses \ {"PENDING_REFERENCE"}

EntryTypes == {"CREDIT", "DEBIT"}

\* Codes validateReversalReference answers with, and the ones its callers add.
ReferenceFailures ==
    {"REFERENCE_NOT_PROCESSED", "REFERENCE_CONTEXT_MISMATCH",
     "REFERENCE_AMOUNT_MISMATCH", "REFERENCE_TYPE_MISMATCH",
     "REFERENCE_ALREADY_REVERSED"}
FailureCodes ==
    ReferenceFailures \cup
    {"INSUFFICIENT_FUNDS", "REVERSAL_WOULD_CAUSE_NEGATIVE_BALANCE",
     "REFERENCE_NOT_FOUND", "PERMANENT_INFRASTRUCTURE_ERROR"}

(***************************************************************************)
(* Money.isPositive delegates to decimal.js, for which zero is positive:   *)
(* only a negative amount is refused.                                      *)
(***************************************************************************)
IsPositive(amount) == amount >= 0

\* REFUND gives back a BET; ROLLBACK undoes a BET, a WIN or a REFUND.
ReversalAllowed(kind, referenceKind) ==
    IF kind = "REFUND" THEN referenceKind = "BET"
                       ELSE referenceKind \in {"BET", "WIN", "REFUND"}

SameContext(req, referenceReq) ==
    /\ referenceReq.wallet = req.wallet
    /\ referenceReq.player = req.player
    /\ referenceReq.currency = req.currency
    /\ referenceReq.round = req.round

\* A context of the round alone lets another wallet's wager be reversed.
ReversalFailureOfRound(req, reference, reversed) ==
    IF reference.status # "PROCESSED" THEN "REFERENCE_NOT_PROCESSED"
    ELSE IF reference.req.round # req.round THEN "REFERENCE_CONTEXT_MISMATCH"
    ELSE IF reference.req.amount # req.amount THEN "REFERENCE_AMOUNT_MISMATCH"
    ELSE IF ~ReversalAllowed(req.kind, reference.req.kind)
         THEN "REFERENCE_TYPE_MISMATCH"
    ELSE IF reversed THEN "REFERENCE_ALREADY_REVERSED"
    ELSE None

\* Without the check of the status, a pending reversal could be reversed.
ReversalFailureOfAnyStatus(req, reference, reversed) ==
    IF ~SameContext(req, reference.req) THEN "REFERENCE_CONTEXT_MISMATCH"
    ELSE IF ~ReversalAllowed(req.kind, reference.req.kind)
         THEN "REFERENCE_TYPE_MISMATCH"
    ELSE IF reversed THEN "REFERENCE_ALREADY_REVERSED"
    ELSE None

(***************************************************************************)
(* validateReversalReference.  `reference' is the row that was read (its   *)
(* request and its status), `reversed' the answer of the query for an      *)
(* earlier processed reversal of the same row by the same kind.            *)
(***************************************************************************)
ReversalFailure(req, reference, reversed) ==
    IF reference.status # "PROCESSED" THEN "REFERENCE_NOT_PROCESSED"
    ELSE IF ~SameContext(req, reference.req) THEN "REFERENCE_CONTEXT_MISMATCH"
    ELSE IF reference.req.amount # req.amount THEN "REFERENCE_AMOUNT_MISMATCH"
    ELSE IF ~ReversalAllowed(req.kind, reference.req.kind)
         THEN "REFERENCE_TYPE_MISMATCH"
    ELSE IF reversed THEN "REFERENCE_ALREADY_REVERSED"
    ELSE None

\* Two ways to get the direction wrong: by the kind of the reversal alone, and
\* by taking every reversal for a credit.
ReversalLedgerTypeByKind(kind, referenceKind) ==
    IF kind = "REFUND" THEN "CREDIT" ELSE "DEBIT"
ReversalLedgerTypeCredit(kind, referenceKind) == "CREDIT"

ReversalLedgerType(kind, referenceKind) ==
    IF kind = "REFUND" \/ referenceKind = "BET" THEN "CREDIT" ELSE "DEBIT"

(***************************************************************************)
(* What the handler decides: the status it saves, the failure code, and    *)
(* the ledger entry type, None when no money moves.  ABORTED is an         *)
(* exception that rolls the whole database transaction back.               *)
(***************************************************************************)
Processed(type) == [status |-> "PROCESSED", failure |-> None, type |-> type]
Rejected(code)  == [status |-> "REJECTED", failure |-> code, type |-> None]
Pending == [status |-> "PENDING_REFERENCE", failure |-> None, type |-> None]
Aborted == [status |-> "ABORTED", failure |-> None, type |-> None]

\* A debit that does not look at the funds.
MoveMoneyBlindly(wallet, req, type, whenInsufficient) ==
    IF wallet.currency # req.currency THEN Aborted ELSE Processed(type)

(***************************************************************************)
(* Wallet.credit and Wallet.debit, with the NUMERIC(19,2) column that      *)
(* refuses a sum out of its range.  Another currency throws                *)
(* CurrencyMismatchError, before the funds are looked at.                  *)
(***************************************************************************)
MoveMoney(wallet, req, type, whenInsufficient) ==
    IF wallet.currency # req.currency THEN Aborted
    ELSE IF type = "DEBIT" /\ wallet.balance < req.amount
         THEN Rejected(whenInsufficient)
    ELSE IF type = "CREDIT" /\ wallet.balance + req.amount > MaxBalance
         THEN Aborted
    ELSE Processed(type)

\* A reversal whose reference row was found.
DecideReversal(wallet, req, reference, reversed) ==
    LET failure == ReversalFailure(req, reference, reversed)
    IN  IF failure # None THEN Rejected(failure)
        ELSE MoveMoney(wallet, req,
                       ReversalLedgerType(req.kind, reference.req.kind),
                       "REVERSAL_WOULD_CAUSE_NEGATIVE_BALANCE")

\* The branches of executeInTransaction by kind of wager.
Decide(wallet, req, reference, reversed) ==
    IF req.kind = "BET"
    THEN MoveMoney(wallet, req, "DEBIT", "INSUFFICIENT_FUNDS")
    ELSE IF req.kind = "WIN"
    THEN MoveMoney(wallet, req, "CREDIT", "INSUFFICIENT_FUNDS")
    ELSE IF req.kind = "LOSS" THEN Processed(None)
    ELSE IF reference = None THEN Pending
    ELSE DecideReversal(wallet, req, reference, reversed)

\* Every credit and debit increments the version of the wallet.
SameVersion(wallet) == wallet.version
NextVersion(wallet) == wallet.version + 1

\* The balance a ledger entry of this type leads to (WalletLedgerEntry.create).
BalanceAfter(type, before, amount) ==
    IF type = "CREDIT" THEN before + amount
    ELSE IF type = "DEBIT" THEN before - amount
    ELSE before
=============================================================================
