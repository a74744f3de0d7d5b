--------------------------- MODULE LedgerReaders ---------------------------
(***************************************************************************)
(* The readers of the ledger, beside the use cases that write it.  None of *)
(* them locks anything or reads in a database transaction:                 *)
(*   - a reconciliation reads the wallet, then its entries, recomputes the *)
(*     balance from the entries and compares;                              *)
(*   - a client walks over the entries page by page, from cursor to cursor.*)
(* Both read the entries by (created_at, id).  created_at is taken from the*)
(* clock of the instance that decides the wager, so an entry may come out  *)
(* before some of those committed earlier: at most Disorder of them, none  *)
(* when the clocks agree and no two entries have the same millisecond.     *)
(*                                                                         *)
(* An entry is identified by its position in ledger[w], the commit order.  *)
(***************************************************************************)
EXTENDS WageringTransactions, SequencesExt

CONSTANTS
    Disorder,  \* how many earlier entries a new one may sort before
    Limits     \* the page sizes clients ask for

ASSUME ReadersAssumption == Disorder \in Nat /\ Limits \subseteq Nat \ {0}
ASSUME NoEntryAssumption == None \notin Nat

VARIABLES
    order,   \* order[w]: the entries of w sorted by (created_at, id)
    read,    \* read[w]: the wallet row a reconciliation of w has read
    report,  \* report[w]: what the last reconciliation of w found
    walk     \* walk[w]: a client's walk over the entries of w

readers == <<order, read, report, walk>>
readerVars == <<vars, readers>>

-----------------------------------------------------------------------------
\* The loop over the entries, from Money.zero: None after a mismatch.
RecomputedByLoop(entries) ==
    FoldLeft(LAMBDA balance, e :
                 IF /\ balance = e.before
                    /\ e.after = BalanceAfter(e.type, e.before, e.amount)
                 THEN e.after ELSE None,
             0, entries)

\* The balance after the first n entries.
BalanceAfterFirst(entries, n) == IF n = 0 THEN 0 ELSE entries[n].after

(***************************************************************************)
(* The balance the entries lead to, starting from zero; None when an entry *)
(* is not balanced or does not start where the one before it ended, which  *)
(* is a LedgerBalanceMismatchError.  It is what the loop computes.         *)
(***************************************************************************)
Recomputed(entries) ==
    IF \A i \in DOMAIN entries :
          /\ entries[i].before = BalanceAfterFirst(entries, i - 1)
          /\ entries[i].after =
                BalanceAfter(entries[i].type, entries[i].before, entries[i].amount)
    THEN BalanceAfterFirst(entries, Len(entries)) ELSE None

\* The difference the other way round.
DifferenceReversed(r) == r.stored - r.calculated

\* The difference and the verdict of a report without mismatch.
Difference(r) == r.calculated - r.stored
Consistent(r) == r.calculated = r.stored

\* The rows of a query for the entries after the cursor.
After(w, cursor) ==
    LET at == IF cursor = None THEN 0
              ELSE CHOOSE i \in DOMAIN order[w] : order[w][i] = cursor
    IN  SubSeq(order[w], at + 1, Len(order[w]))
FirstOf(rows, n) == SubSeq(rows, 1, IF n < Len(rows) THEN n ELSE Len(rows))

\* The cursor of the row that only shows that there is a next page.
NextCursorSkips(rows, limit) == IF Len(rows) > limit THEN rows[limit + 1] ELSE None

\* The cursor of the last row of the page, if a row follows it.
NextCursor(rows, limit) == IF Len(rows) > limit THEN rows[limit] ELSE None

-----------------------------------------------------------------------------
ReadersInit ==
    /\ Init
    /\ order = [w \in Wallets |-> <<>>]
    /\ read = [w \in Wallets |-> None]
    /\ report = [w \in Wallets |-> None]
    /\ walk = [w \in Wallets |-> [cursor |-> None, got |-> <<>>, before |-> 0,
                                  open |-> TRUE]]

\* A use case commits; its entry takes its place by its clock.
UseCase ==
    /\ Next
    /\ \E late \in 0..Disorder :
          order' = [w \in Wallets |->
              IF ledger'[w] = ledger[w] THEN order[w]
              ELSE InsertAt(order[w],
                            IF late < Len(ledger'[w]) THEN Len(ledger'[w]) - late
                                                      ELSE 1,
                            Len(ledger'[w]))]
    /\ UNCHANGED <<read, report, walk>>

\* ReconcileWalletUseCase.execute, its first query.
ReadWallet(w) ==
    /\ wallets[w] # None /\ read[w] = None
    /\ read' = [read EXCEPT ![w] = wallets[w]]
    /\ UNCHANGED <<vars, order, report, walk>>

\* Its second query, and the report.
ReadEntries(w) ==
    /\ read[w] # None
    /\ report' = [report EXCEPT ![w] =
          [stored |-> read[w].balance, version |-> read[w].version,
           entries |-> order[w],
           calculated |-> Recomputed([i \in DOMAIN order[w] |-> ledger[w][order[w][i]]])]]
    /\ read' = [read EXCEPT ![w] = None]
    /\ UNCHANGED <<vars, order, walk>>

(***************************************************************************)
(* QueryWalletsUseCase.getLedger: one row more than the page holds tells   *)
(* whether there is a next page; the walk ends with the page that has no   *)
(* next cursor.  `before' is the number of entries when the walk began.    *)
(***************************************************************************)
GetPage(w, limit) ==
    /\ wallets[w] # None /\ walk[w].open
    /\ LET rows == FirstOf(After(w, walk[w].cursor), limit + 1)
           next == NextCursor(rows, limit)
       IN  walk' = [walk EXCEPT ![w] =
               [cursor |-> next,
                got |-> @.got \o FirstOf(rows, limit),
                before |-> IF @.cursor = None THEN Len(ledger[w]) ELSE @.before,
                open |-> next # None]]
    /\ UNCHANGED <<vars, order, read, report>>

ReadersNext ==
    \/ UseCase
    \/ \E w \in Wallets : ReadWallet(w) \/ ReadEntries(w)
    \/ \E w \in Wallets, limit \in Limits : GetPage(w, limit)

ReadersSpec == ReadersInit /\ [][ReadersNext]_readerVars

-----------------------------------------------------------------------------
(***************************************************************************)
(* Type invariant: the order of the entries is one of those of the ledger, *)
(* and what was read was a row of the wallet.                              *)
(***************************************************************************)
IsOrderOf(s, n) == Len(s) = n /\ Range(s) = 1..n
ReadersTypeOK ==
    /\ TypeOK
    /\ \A w \in Wallets :
          /\ IsOrderOf(order[w], Len(ledger[w]))
          /\ read[w] \in WalletType \cup {None}
          /\ report[w] # None => report[w].calculated \in Nat \cup {None}
          /\ Range(walk[w].got) \subseteq 1..Len(ledger[w])

(***************************************************************************)
(* A reconciliation never accuses a correct ledger, as far as the clocks   *)
(* agree: it fails only when the entries it read were not in the order of  *)
(* their commits, and otherwise both of its numbers are balances the       *)
(* wallet had, the stored one first.  So a difference it reports is exactly*)
(* what the wagers did that committed between its two reads.               *)
(***************************************************************************)
BalanceAt(w, version) == IF version = 0 THEN 0 ELSE ledger[w][version].after
InCommitOrder(entries) == \A i \in DOMAIN entries : entries[i] = i
ReportTellsTheLedger ==
    \A w \in Wallets : report[w] # None /\ InCommitOrder(report[w].entries) =>
        LET checked == Len(report[w].entries)
        IN  /\ report[w].version <= checked
            /\ report[w].calculated = BalanceAt(w, checked)
            /\ report[w].stored = BalanceAt(w, report[w].version)
            /\ report[w].version = checked => Consistent(report[w])
            /\ Difference(report[w])
                 = BalanceAt(w, checked) - BalanceAt(w, report[w].version)

(***************************************************************************)
(* A finished walk has given every entry there was when it began, each     *)
(* entry once and in the order of the rows, although entries are written   *)
(* between its pages, sort before its cursor, and the page size changes.   *)
(***************************************************************************)
PlaceOf(w, n) == CHOOSE i \in DOMAIN order[w] : order[w][i] = n
PagesCoverTheLedger ==
    \A w \in Wallets :
        /\ ~walk[w].open => 1..walk[w].before \subseteq Range(walk[w].got)
        /\ \A i, j \in DOMAIN walk[w].got : i < j =>
              PlaceOf(w, walk[w].got[i]) < PlaceOf(w, walk[w].got[j])
=============================================================================
