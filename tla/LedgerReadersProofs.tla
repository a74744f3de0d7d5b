------------------------- MODULE LedgerReadersProofs -------------------------
(***************************************************************************)
(* Proofs about LedgerReaders, for any ledger, any disorder of the clocks  *)
(* and any sizes of the pages: what a reconciliation reports, and that a   *)
(* walk over the pages misses and repeats no entry that was there when it  *)
(* began.  Both rest on the ledger only growing at its end, and on the     *)
(* order of its entries only growing by insertions.                        *)
(***************************************************************************)
EXTENDS LedgerReaders, WageringTransactionsProofs

ReportType ==
    [stored: 0..MaxBalance, version: Nat, entries: Seq(Nat),
     calculated: Nat \cup {None}]
WalkType ==
    [cursor: Nat \cup {None}, got: Seq(Nat), before: Nat, open: BOOLEAN]

\* s has each of the first n entries at one place.
IsPlacing(s, n) ==
    /\ s \in [1..n -> 1..n]
    /\ \A m \in 1..n : \E i \in 1..n : s[i] = m
    /\ \A i, j \in 1..n : s[i] = s[j] => i = j
Place(s, m) == CHOOSE i \in DOMAIN s : s[i] = m

\* A reconciliation under way has read a balance the wallet had.
ReadingHolds(w) ==
    read[w] # None =>
        /\ read[w].version \in 0..Len(ledger[w])
        /\ read[w].balance = BalanceAt(w, read[w].version)

\* A walk v over the first n entries, ordered by s: it has given all there
\* was up to its cursor.
WalkHolds(v, s, n) ==
    /\ \A i \in DOMAIN v.got : v.got[i] \in 1..n
    /\ \A i, j \in DOMAIN v.got :
          i < j => Place(s, v.got[i]) < Place(s, v.got[j])
    /\ v.before \in 0..n
    /\ v.open /\ v.cursor = None => v.got = <<>>
    /\ v.open /\ v.cursor # None =>
          /\ v.got # <<>> /\ v.cursor = v.got[Len(v.got)]
          /\ \A m \in 1..v.before :
                Place(s, m) <= Place(s, v.cursor) => m \in Range(v.got)
    /\ ~v.open => \A m \in 1..v.before : m \in Range(v.got)

ReadersTyped ==
    /\ order \in [Wallets -> Seq(Nat)]
    /\ read \in [Wallets -> WalletType \cup {None}]
    /\ report \in [Wallets -> ReportType \cup {None}]
    /\ walk \in [Wallets -> WalkType]

ReadersInv ==
    /\ LedgerInv
    /\ ReadersTyped
    /\ \A w \in Wallets :
          /\ IsPlacing(order[w], Len(ledger[w]))
          /\ ReadingHolds(w)
          /\ report[w] # None => Len(report[w].entries) <= Len(ledger[w])
          /\ WalkHolds(walk[w], order[w], Len(ledger[w]))
    /\ ReportTellsTheLedger

-----------------------------------------------------------------------------
(***************************************************************************)
(* The ledger of a wallet stays, or gets one more entry at its end.        *)
(***************************************************************************)
Grows(w) ==
    /\ Len(ledger[w])' \in Nat
    /\ \/ ledger'[w] = ledger[w]
       \/ Len(ledger[w])' = Len(ledger[w]) + 1
    /\ \A i \in 1..Len(ledger[w]) : ledger'[w][i] = ledger[w][i]

LEMMA StepAppends ==
    ASSUME LedgerInv, [Next]_vars
    PROVE  \/ ledger' = ledger
           \/ \E w \in Wallets : \E e : ledger' = [ledger EXCEPT ![w] = Append(@, e)]
<1>1. ASSUME NEW w \in Wallets, NEW p \in Players, NEW c \in Currencies,
             NEW b \in InitialBalances, CreateWallet(w, p, c, b)
      PROVE  \/ ledger' = ledger
             \/ \E e : ledger' = [ledger EXCEPT ![w] = Append(@, e)]
  BY <1>1 DEF CreateWallet
<1>2. ASSUME NEW r \in Requests, Submit(r)
      PROVE  /\ r.wallet \in Wallets
             /\ \/ ledger' = ledger
                \/ \E e : ledger' = [ledger EXCEPT ![r.wallet] = Append(@, e)]
  <2>1. PICK read1 \in ReferenceReadings(r) :
           Save(r.key, r, r.wallet,
                Decide(wallets[r.wallet], r, RowRead(read1),
                       AlreadyReversed(read1.reference, r.kind)),
                read1.reference)
    BY <1>2 DEF Submit
  <2>2. PICK d : Save(r.key, r, r.wallet, d, read1.reference)
    BY <2>1
  <2>3. \/ ledger' = ledger
        \/ \E e : ledger' = [ledger EXCEPT ![r.wallet] = Append(@, e)]
    BY <2>2 DEF Save
  <2> QED BY <2>3, RequestsTyped
<1>3. ASSUME NEW k \in Keys, FinishWithReference(k)
      PROVE  /\ txs[k].req.wallet \in Wallets
             /\ \/ ledger' = ledger
                \/ \E e : ledger' = [ledger EXCEPT ![txs[k].req.wallet] = Append(@, e)]
  <2>1. k \in TxIds /\ Exists(k)
    BY <1>3 DEF FinishWithReference, LedgerInv, ReadingIsPending, TxIds
  <2>2. txs[k].req.wallet \in Wallets
    BY <2>1, RowTyped DEF LedgerInv
  <2>3. PICK d : Save(k, txs[k].req, txs[k].req.wallet, d, reading[k].reference)
    BY <1>3 DEF FinishWithReference
  <2> QED BY <2>2, <2>3 DEF Save
<1> QED
  BY <1>1, <1>2, <1>3
  DEF Next, vars, FailTransaction, BeginReprocess, FinishWithoutReference,
      AbortReprocess

LEMMA LedgerGrows ==
    ASSUME LedgerInv, [Next]_vars, NEW w \in Wallets
    PROVE  Grows(w)
<1>1. /\ ledger \in [Wallets -> Seq(EntryType)]
      /\ ledger' \in [Wallets -> Seq(EntryType)]
  BY LedgerInvStep DEF LedgerInv, TypeOK
<1>2. Len(ledger[w]) \in Nat /\ Len(ledger'[w]) \in Nat
  BY <1>1, LenProperties
<1>3. CASE ledger'[w] = ledger[w]
  BY <1>2, <1>3 DEF Grows
<1>4. CASE \E e : ledger'[w] = Append(ledger[w], e)
  <2>1. PICK e : ledger'[w] = Append(ledger[w], e)
    BY <1>4
  <2>2. ledger[w] \in Seq(EntryType)
    BY <1>1
  <2>3. /\ Len(ledger'[w]) = Len(ledger[w]) + 1
        /\ \A i \in 1..Len(ledger[w]) : ledger'[w][i] = ledger[w][i]
    BY <2>1, <2>2
  <2> QED BY <1>2, <2>3 DEF Grows
<1> QED
  <2>1. CASE ledger' = ledger
    BY <1>3, <2>1
  <2>2. CASE \E v \in Wallets : \E e : ledger' = [ledger EXCEPT ![v] = Append(@, e)]
    <3>0. PICK v \in Wallets : \E e : ledger' = [ledger EXCEPT ![v] = Append(@, e)]
      BY <2>2
    <3>1. PICK e : ledger' = [ledger EXCEPT ![v] = Append(@, e)]
      BY <3>0
    <3>2. CASE v = w
      BY <1>1, <1>4, <3>1, <3>2
    <3>3. CASE v # w
      BY <1>1, <1>3, <3>1, <3>3
    <3> QED BY <3>2, <3>3
  <2> QED BY <2>1, <2>2, StepAppends

-----------------------------------------------------------------------------
(***************************************************************************)
(* Places in an order of the entries.                                      *)
(***************************************************************************)
LEMMA PlaceFound ==
    ASSUME NEW n \in Nat, NEW s, IsPlacing(s, n)
    PROVE  /\ \A m \in 1..n : Place(s, m) \in 1..n /\ s[Place(s, m)] = m
           /\ \A i \in 1..n : Place(s, s[i]) = i
           /\ s \in Seq(Nat) /\ Len(s) = n /\ DOMAIN s = 1..n
<1>1. DOMAIN s = 1..n
  BY DEF IsPlacing
<1>2. ASSUME NEW m \in 1..n PROVE Place(s, m) \in 1..n /\ s[Place(s, m)] = m
  <2>1. \E i \in DOMAIN s : s[i] = m
    BY <1>1 DEF IsPlacing
  <2> QED BY <1>1, <2>1 DEF Place
<1>3. ASSUME NEW i \in 1..n PROVE Place(s, s[i]) = i
  <2>1. s[i] \in 1..n
    BY DEF IsPlacing
  <2> QED BY <1>2, <2>1 DEF IsPlacing
<1>4. s \in Seq(Nat) /\ Len(s) = n
  <2>1. s \in [1..n -> Nat]
    BY DEF IsPlacing
  <2>2. s \in Seq(Nat)
    BY <2>1, SeqDef
  <2> QED BY <1>1, <2>2, LenProperties
<1> QED BY <1>1, <1>2, <1>3, <1>4

\* t is s with e inserted at place p.
Inserted(t, s, p, e) ==
    /\ t \in Seq(Nat)
    /\ DOMAIN t = 1..(Len(s) + 1)
    /\ \A j \in 1..(Len(s) + 1) :
          t[j] = IF j < p THEN s[j] ELSE IF j = p THEN e ELSE s[j - 1]

LEMMA InsertedAt ==
    ASSUME NEW s \in Seq(Nat), NEW p \in 1..(Len(s) + 1), NEW e \in Nat
    PROVE  Inserted(InsertAt(s, p, e), s, p, e)
<1> DEFINE a == SubSeq(s, 1, p - 1)
           b == SubSeq(s, p, Len(s))
           ae == a \o <<e>>
           t == ae \o b
<1>0. Len(s) \in Nat
  BY LenProperties
<1>1. /\ a \in Seq(Nat) /\ Len(a) = p - 1
      /\ \A j \in 1..(p - 1) : a[j] = s[j]
  BY <1>0, SubSeqProperties
<1>2. /\ b \in Seq(Nat) /\ Len(b) = Len(s) - p + 1
      /\ \A j \in 1..(Len(s) - p + 1) : b[j] = s[p + j - 1]
  BY <1>0, SubSeqProperties
<1> HIDE DEF a, b
<1>3. /\ ae \in Seq(Nat) /\ Len(ae) = p
      /\ \A j \in 1..(p - 1) : ae[j] = a[j]
      /\ ae[p] = e
  <2> DEFINE one == <<e>>
  <2>1. one \in Seq(Nat) /\ Len(one) = 1 /\ one[1] = e
    OBVIOUS
  <2> HIDE DEF one
  <2>2. a \in Seq(Nat) /\ Len(a) + Len(one) = p
    BY <1>1, <2>1
  <2>3. /\ ae \in Seq(Nat) /\ Len(ae) = Len(a) + Len(one)
        /\ \A j \in 1..(Len(a) + Len(one)) :
              ae[j] = IF j <= Len(a) THEN a[j] ELSE one[j - Len(a)]
    BY ONLY <2>1, <2>2, ConcatProperties DEF ae, one
  <2> HIDE DEF ae
  <2>4. Len(ae) = p
    BY <2>2, <2>3
  <2>5. ASSUME NEW j \in 1..(p - 1)
        PROVE  ae[j] = a[j]
    <3>1. j \in 1..(Len(a) + Len(one)) /\ j <= Len(a)
      BY <1>0, <1>1, <2>1
    <3> QED BY <2>3, <3>1
  <2>6. ae[p] = e
    <3>1. p \in 1..(Len(a) + Len(one)) /\ ~(p <= Len(a)) /\ p - Len(a) = 1
      BY <1>0, <1>1, <2>1, <2>2
    <3> QED BY <2>1, <2>3, <3>1
  <2> QED BY <2>3, <2>4, <2>5, <2>6
<1> HIDE DEF ae
<1>4. /\ t \in Seq(Nat) /\ Len(t) = Len(s) + 1
      /\ \A j \in 1..p : t[j] = ae[j]
      /\ \A j \in (p + 1)..(Len(s) + 1) : t[j] = b[j - p]
  <2>0. ae \in Seq(Nat) /\ b \in Seq(Nat)
    BY <1>2, <1>3
  <2>1. /\ t \in Seq(Nat) /\ Len(t) = Len(ae) + Len(b)
        /\ \A j \in 1..(Len(ae) + Len(b)) :
              t[j] = IF j <= Len(ae) THEN ae[j] ELSE b[j - Len(ae)]
    BY ONLY <2>0, ConcatProperties DEF t
  <2> HIDE DEF t
  <2>2. Len(ae) + Len(b) = Len(s) + 1 /\ Len(ae) = p
    BY <1>0, <1>2, <1>3
  <2>3. ASSUME NEW j \in 1..p
        PROVE  t[j] = ae[j]
    <3>1. j \in 1..(Len(ae) + Len(b)) /\ j <= Len(ae)
      BY <1>0, <2>2
    <3> QED BY <2>1, <3>1
  <2>4. ASSUME NEW j \in (p + 1)..(Len(s) + 1)
        PROVE  t[j] = b[j - p]
    <3>1. j \in 1..(Len(ae) + Len(b)) /\ ~(j <= Len(ae)) /\ j - Len(ae) = j - p
      BY <1>0, <2>2
    <3> QED BY <2>1, <3>1
  <2> QED BY <2>1, <2>2, <2>3, <2>4
<1>5. InsertAt(s, p, e) = t
  BY DEF InsertAt, a, b, ae
<1> HIDE DEF t
<1>6. DOMAIN t = 1..(Len(s) + 1)
  BY <1>4, LenProperties
<1>7. ASSUME NEW j \in 1..(Len(s) + 1)
      PROVE  t[j] = IF j < p THEN s[j] ELSE IF j = p THEN e ELSE s[j - 1]
  <2>1. CASE j < p
    <3>1. j \in 1..(p - 1) /\ j \in 1..p
      BY <2>1, <1>0
    <3> QED BY <1>1, <1>3, <1>4, <2>1, <3>1
  <2>2. CASE j = p
    BY <1>3, <1>4, <2>2
  <2>3. CASE j > p
    <3>1. j \in (p + 1)..(Len(s) + 1) /\ j - p \in 1..(Len(s) - p + 1)
      BY <1>0, <2>3
    <3>2. t[j] = s[p + (j - p) - 1]
      BY <1>2, <1>4, <3>1
    <3>3. p + (j - p) - 1 = j - 1
      BY <1>0
    <3> QED BY <2>3, <3>2, <3>3
  <2> QED BY <1>0, <2>1, <2>2, <2>3
<1> QED BY <1>4, <1>5, <1>6, <1>7 DEF Inserted

(***************************************************************************)
(* An insertion moves entries, but never one past another.                 *)
(***************************************************************************)
LEMMA InsertionKeepsPlaces ==
    ASSUME NEW n \in Nat, NEW s, IsPlacing(s, n), NEW p \in 1..(n + 1)
    PROVE  LET t == InsertAt(s, p, n + 1)
           IN  /\ IsPlacing(t, n + 1)
               /\ \A a, b \in 1..n :
                     Place(t, a) < Place(t, b) <=> Place(s, a) < Place(s, b)
<1> DEFINE t == InsertAt(s, p, n + 1)
<1>1. /\ \A m \in 1..n : Place(s, m) \in 1..n /\ s[Place(s, m)] = m
      /\ \A i \in 1..n : Place(s, s[i]) = i
      /\ s \in Seq(Nat) /\ Len(s) = n
  BY PlaceFound
<1>2. /\ DOMAIN t = 1..(n + 1) /\ t \in Seq(Nat)
      /\ \A j \in 1..(n + 1) :
            t[j] = IF j < p THEN s[j] ELSE IF j = p THEN n + 1 ELSE s[j - 1]
  <2> DEFINE e == n + 1
  <2>1. s \in Seq(Nat) /\ e \in Nat /\ p \in 1..(Len(s) + 1)
    BY <1>1
  <2>4. t = InsertAt(s, p, e)
    BY DEF t, e
  <2> HIDE DEF e, t
  <2>2. Inserted(t, s, p, e)
    BY ONLY <2>1, <2>4, InsertedAt
  <2> QED BY <1>1, <2>2 DEF Inserted, e
<1> HIDE DEF t
<1>3. \A j \in 1..(n + 1) :
         \/ j < p /\ j \in 1..n /\ t[j] = s[j]
         \/ j = p /\ t[j] = n + 1
         \/ j > p /\ j - 1 \in 1..n /\ t[j] = s[j - 1]
  BY <1>2
<1>4. \A i \in 1..n : s[i] \in 1..n
  BY DEF IsPlacing
<1>5. IsPlacing(t, n + 1)
  <2>1. t \in [1..(n + 1) -> 1..(n + 1)]
    <3>1. \A j \in 1..(n + 1) : t[j] \in 1..(n + 1)
      BY <1>3, <1>4
    <3>2. t = [j \in 1..(n + 1) |-> t[j]]
      BY <1>2, LenProperties
    <3> QED BY <3>1, <3>2
  <2>2. ASSUME NEW m \in 1..(n + 1) PROVE \E i \in 1..(n + 1) : t[i] = m
    <3>1. CASE m = n + 1
      BY <1>3, <3>1
    <3>2. CASE m \in 1..n
      <4>1. PICK i \in 1..n : s[i] = m
        BY <3>2 DEF IsPlacing
      <4>2. CASE i < p
        <5>1. i \in 1..(n + 1)
          OBVIOUS
        <5>2. t[i] = m
          BY <1>2, <4>1, <4>2, <5>1
        <5> QED BY <5>1, <5>2
      <4>3. CASE i >= p
        <5>1. i + 1 \in 1..(n + 1) /\ i + 1 > p /\ (i + 1) - 1 = i
          BY <4>3
        <5>2. t[i + 1] = m
          BY <1>2, <4>1, <5>1
        <5> QED BY <5>1, <5>2
      <4> QED BY <4>2, <4>3
    <3> QED BY <3>1, <3>2
  <2>3. ASSUME NEW i \in 1..(n + 1), NEW j \in 1..(n + 1), t[i] = t[j]
        PROVE  i = j
    <3>1. \A x, y \in 1..n : s[x] = s[y] => x = y
      BY DEF IsPlacing
    <3>2. \A x \in 1..n : s[x] # n + 1
      BY <1>4
    <3> QED BY <1>3, <2>3, <3>1, <3>2
  <2> QED BY <2>1, <2>2, <2>3 DEF IsPlacing
<1>6. ASSUME NEW a \in 1..n
      PROVE  Place(t, a) = IF Place(s, a) < p THEN Place(s, a) ELSE Place(s, a) + 1
  <2> DEFINE i == Place(s, a)
             j == IF i < p THEN i ELSE i + 1
  <2>1. i \in 1..n /\ s[i] = a
    BY <1>1
  <2> HIDE DEF i
  <2>2. j \in 1..(n + 1) /\ t[j] = a
    <3>1. CASE i < p
      BY <1>2, <2>1, <3>1
    <3>2. CASE i >= p
      <4>1. j = i + 1 /\ j \in 1..(n + 1) /\ j > p /\ j - 1 = i
        BY <2>1, <3>2
      <4> QED BY <1>2, <2>1, <4>1
    <3> QED BY <2>1, <3>1, <3>2
  <2> HIDE DEF j
  <2>3. Place(t, t[j]) = j
    <3>1. n + 1 \in Nat
      OBVIOUS
    <3> QED BY <1>5, <2>2, <3>1, PlaceFound
  <2> QED BY <2>2, <2>3 DEF i, j
<1>7. ASSUME NEW a \in 1..n, NEW b \in 1..n
      PROVE  Place(t, a) < Place(t, b) <=> Place(s, a) < Place(s, b)
  <2>1. Place(s, a) \in Int /\ Place(s, b) \in Int
    BY <1>1
  <2> QED BY <1>6, <2>1
<1> QED BY <1>5, <1>7 DEF t

-----------------------------------------------------------------------------
(***************************************************************************)
(* The walk.                                                               *)
(***************************************************************************)
\* The entries of a walk are those of its sequence.
LEMMA RangeOf ==
    ASSUME NEW s \in Seq(Nat)
    PROVE  /\ DOMAIN s = 1..Len(s) /\ Len(s) \in Nat
           /\ \A m : m \in Range(s) <=> \E i \in 1..Len(s) : s[i] = m
<1>1. DOMAIN s = 1..Len(s) /\ Len(s) \in Nat
  BY LenProperties
<1> QED BY <1>1 DEF Range

\* The cursor of an open walk is the last entry it has given.
LEMMA CursorIsLast ==
    ASSUME NEW n \in Nat, NEW s, IsPlacing(s, n), NEW v \in WalkType,
           WalkHolds(v, s, n), v.open, v.cursor # None
    PROVE  /\ v.cursor \in 1..n
           /\ Len(v.got) \in DOMAIN v.got
           /\ \A i \in DOMAIN v.got : Place(s, v.got[i]) <= Place(s, v.cursor)
<1>1. v.got \in Seq(Nat) /\ v.got # <<>>
  BY DEF WalkHolds, WalkType
<1>2. DOMAIN v.got = 1..Len(v.got) /\ Len(v.got) \in Nat \ {0}
  BY <1>1, LenProperties, EmptySeq
<1>3. Len(v.got) \in DOMAIN v.got
  BY <1>2
<1>4. v.cursor \in 1..n
  BY <1>3 DEF WalkHolds
<1>5. ASSUME NEW i \in DOMAIN v.got
      PROVE  Place(s, v.got[i]) <= Place(s, v.cursor)
  <2>1. v.got[i] \in 1..n
    BY DEF WalkHolds
  <2>2. Place(s, v.got[i]) \in 1..n /\ Place(s, v.cursor) \in 1..n
    BY <1>4, <2>1, PlaceFound
  <2>3. CASE i = Len(v.got)
    BY <2>2, <2>3 DEF WalkHolds
  <2>4. CASE i # Len(v.got)
    <3>1. i < Len(v.got)
      BY <1>2, <2>4
    <3>2. Place(s, v.got[i]) < Place(s, v.cursor)
      BY <1>3, <3>1 DEF WalkHolds
    <3> QED BY <2>2, <3>2
  <2> QED BY <2>3, <2>4
<1> QED BY <1>3, <1>4, <1>5

\* An entry that is written meanwhile disturbs no walk.
LEMMA InsertionKeepsWalk ==
    ASSUME NEW n \in Nat, NEW s, IsPlacing(s, n), NEW p \in 1..(n + 1),
           NEW v \in WalkType, WalkHolds(v, s, n)
    PROVE  WalkHolds(v, InsertAt(s, p, n + 1), n + 1)
<1> DEFINE t == InsertAt(s, p, n + 1)
<1>1. IsPlacing(t, n + 1)
  BY InsertionKeepsPlaces
<1>2. \A a, b \in 1..n : Place(t, a) < Place(t, b) <=> Place(s, a) < Place(s, b)
  BY InsertionKeepsPlaces
<1> HIDE DEF t
<1>3. \A a \in 1..n : Place(s, a) \in Nat /\ Place(t, a) \in Nat
  <2>1. \A a \in 1..n : Place(s, a) \in 1..n
    BY PlaceFound
  <2>2. n + 1 \in Nat
    OBVIOUS
  <2>3. \A a \in 1..(n + 1) : Place(t, a) \in 1..(n + 1)
    BY <1>1, <2>2, PlaceFound
  <2> QED BY <2>1, <2>3
<1>4. \A a, b \in 1..n : Place(t, a) <= Place(t, b) <=> Place(s, a) <= Place(s, b)
  BY <1>2, <1>3
<1>5. \A i \in DOMAIN v.got : v.got[i] \in 1..n
  BY DEF WalkHolds
<1>6. \A i, j \in DOMAIN v.got : i < j => Place(t, v.got[i]) < Place(t, v.got[j])
  BY <1>2, <1>5 DEF WalkHolds
<1>7. v.before \in 0..n /\ \A m \in 1..v.before : m \in 1..n
  BY DEF WalkHolds
<1>8. v.open /\ v.cursor # None =>
         \A m \in 1..v.before :
            Place(t, m) <= Place(t, v.cursor) => m \in Range(v.got)
  <2> SUFFICES ASSUME v.open, v.cursor # None, NEW m \in 1..v.before,
                      Place(t, m) <= Place(t, v.cursor)
               PROVE  m \in Range(v.got)
    OBVIOUS
  <2>1. v.cursor \in 1..n
    BY CursorIsLast
  <2>2. Place(s, m) <= Place(s, v.cursor)
    BY <1>4, <1>7, <2>1
  <2> QED BY <2>2 DEF WalkHolds
<1>9. /\ \A i \in DOMAIN v.got : v.got[i] \in 1..(n + 1)
      /\ v.before \in 0..(n + 1)
  BY <1>5, <1>7
<1>10. WalkHolds(v, t, n + 1)
  BY <1>6, <1>8, <1>9 DEF WalkHolds
<1> QED BY <1>10 DEF t

(***************************************************************************)
(* A page of a walk: the rows after its cursor, at most `limit' of them.   *)
(***************************************************************************)
LastPlace(v, s) == IF v.cursor = None THEN 0 ELSE Place(s, v.cursor)
IsPage(page, limit, v, s, n) ==
    /\ page \in Seq(Nat)
    /\ Len(page) = IF limit < n - LastPlace(v, s) THEN limit ELSE n - LastPlace(v, s)
    /\ \A i \in 1..Len(page) : page[i] = s[LastPlace(v, s) + i]
WalkAfter(v, page, limit, s, n) ==
    LET next == IF limit < n - LastPlace(v, s) THEN s[LastPlace(v, s) + limit] ELSE None
    IN  [cursor |-> next, got |-> v.got \o page,
         before |-> IF v.cursor = None THEN n ELSE v.before,
         open |-> next # None]

LEMMA PageKeepsWalk ==
    ASSUME NEW n \in Nat, NEW s, IsPlacing(s, n),
           NEW v \in WalkType, WalkHolds(v, s, n), v.open,
           NEW limit \in Nat \ {0}, NEW page, IsPage(page, limit, v, s, n)
    PROVE  /\ WalkAfter(v, page, limit, s, n) \in WalkType
           /\ WalkHolds(WalkAfter(v, page, limit, s, n), s, n)
<1> DEFINE at == LastPlace(v, s)
           next == IF limit < n - at THEN s[at + limit] ELSE None
           got == v.got \o page
           before == IF v.cursor = None THEN n ELSE v.before
           u == WalkAfter(v, page, limit, s, n)
<1>1. /\ \A m \in 1..n : Place(s, m) \in 1..n /\ s[Place(s, m)] = m
      /\ \A i \in 1..n : Place(s, s[i]) = i
      /\ \A i \in 1..n : s[i] \in 1..n
  BY PlaceFound DEF IsPlacing
<1>2. at \in 0..n
  BY <1>1, CursorIsLast DEF LastPlace
<1>3. /\ v.got \in Seq(Nat) /\ page \in Seq(Nat)
      /\ DOMAIN v.got = 1..Len(v.got) /\ Len(v.got) \in Nat
      /\ Len(page) \in Nat
  BY LenProperties DEF WalkType, IsPage
<1>4. /\ got \in Seq(Nat)
      /\ Len(got) = Len(v.got) + Len(page)
      /\ \A i \in 1..(Len(v.got) + Len(page)) :
            got[i] = IF i <= Len(v.got) THEN v.got[i] ELSE page[i - Len(v.got)]
  BY <1>3, ConcatProperties
<1>5. u = [cursor |-> next, got |-> got, before |-> before, open |-> next # None]
  BY DEF WalkAfter
<1>6. /\ Len(page) = IF limit < n - at THEN limit ELSE n - at
      /\ \A i \in 1..Len(page) : page[i] = s[at + i]
  BY DEF IsPage
<1> HIDE DEF at, got, u
<1>7. \A i \in 1..Len(page) :
         at + i \in 1..n /\ page[i] \in 1..n /\ Place(s, page[i]) = at + i
  <2> SUFFICES ASSUME NEW i \in 1..Len(page)
               PROVE  /\ at + i \in 1..n /\ page[i] \in 1..n
                      /\ Place(s, page[i]) = at + i
    OBVIOUS
  <2>1. at + i \in 1..n
    BY <1>2, <1>3, <1>6
  <2>2. page[i] = s[at + i]
    BY <1>6
  <2> QED BY <1>1, <2>1, <2>2
\* What the walk had given is at its cursor or before it.
<1>8. \A i \in 1..Len(v.got) : /\ v.got[i] \in 1..n
                               /\ Place(s, v.got[i]) \in 1..at
  <2> SUFFICES ASSUME NEW i \in 1..Len(v.got)
               PROVE  v.got[i] \in 1..n /\ Place(s, v.got[i]) \in 1..at
    OBVIOUS
  <2>1. v.cursor # None
    BY <1>3, EmptySeq DEF WalkHolds
  <2>2. v.got[i] \in 1..n /\ Place(s, v.got[i]) <= Place(s, v.cursor)
    BY <1>3, <2>1, CursorIsLast DEF WalkHolds
  <2>3. at = Place(s, v.cursor)
    BY <2>1 DEF at, LastPlace
  <2> QED BY <1>1, <2>2, <2>3
<1>9. DOMAIN got = 1..(Len(v.got) + Len(page))
  BY <1>3, <1>4, LenProperties
<1>10. \A i \in DOMAIN got :
          \/ /\ i \in 1..Len(v.got) /\ got[i] = v.got[i]
             /\ got[i] \in 1..n /\ Place(s, got[i]) \in 1..at
          \/ /\ i - Len(v.got) \in 1..Len(page)
             /\ got[i] \in 1..n
             /\ Place(s, got[i]) = at + (i - Len(v.got))
  <2> SUFFICES ASSUME NEW i \in DOMAIN got
               PROVE  \/ /\ i \in 1..Len(v.got) /\ got[i] = v.got[i]
                         /\ got[i] \in 1..n /\ Place(s, got[i]) \in 1..at
                      \/ /\ i - Len(v.got) \in 1..Len(page)
                         /\ got[i] \in 1..n
                         /\ Place(s, got[i]) = at + (i - Len(v.got))
    OBVIOUS
  <2>1. CASE i <= Len(v.got)
    <3>1. i \in 1..Len(v.got)
      BY <1>3, <1>9, <2>1
    <3>2. got[i] = v.got[i]
      BY <1>4, <1>9, <2>1
    <3> QED BY <1>8, <3>1, <3>2
  <2>2. CASE i > Len(v.got)
    <3>0. Len(v.got) \in Nat /\ Len(page) \in Nat
      BY <1>3, LenProperties
    <3>1. i - Len(v.got) \in 1..Len(page)
      BY ONLY <1>9, <2>2, <3>0
    <3>2. got[i] = page[i - Len(v.got)]
      BY <1>3, <1>4, <1>9, <2>2
    <3> QED BY <1>7, <3>1, <3>2
  <2> QED BY <1>3, <1>9, <2>1, <2>2
<1>11. ASSUME NEW i \in DOMAIN got, NEW j \in DOMAIN got, i < j
       PROVE  Place(s, got[i]) < Place(s, got[j])
  <2>1. CASE j \in 1..Len(v.got)
    <3>1. i \in 1..Len(v.got) /\ got[i] = v.got[i] /\ got[j] = v.got[j]
      BY <1>3, <1>4, <1>9, <1>11, <2>1
    <3> QED BY <1>3, <1>11, <2>1, <3>1 DEF WalkHolds
  <2>2. CASE j \notin 1..Len(v.got)
    <3>1. /\ j - Len(v.got) \in 1..Len(page)
          /\ Place(s, got[j]) = at + (j - Len(v.got))
      BY <1>10, <2>2
    <3>2. CASE i \in 1..Len(v.got)
      <4>1. got[i] = v.got[i]
        BY <1>3, <1>4, <1>9, <3>2
      <4>2. Place(s, got[i]) \in 1..at
        BY <1>8, <3>2, <4>1
      <4> QED BY <1>2, <1>3, <3>1, <4>2
    <3>3. CASE i \notin 1..Len(v.got)
      <4>1. Place(s, got[i]) = at + (i - Len(v.got))
        BY <1>10, <3>3
      <4> QED BY <1>2, <1>3, <1>9, <1>11, <3>1, <4>1
    <3> QED BY <3>2, <3>3
  <2> QED BY <2>1, <2>2
\* Everything up to the end of the page is given.
<1>12. before \in 0..n
  BY DEF WalkHolds
<1>13. ASSUME NEW m \in 1..before, Place(s, m) <= at + Len(page)
       PROVE  m \in Range(got)
  <2>1. m \in 1..n /\ Place(s, m) \in 1..n /\ s[Place(s, m)] = m
    BY <1>1, <1>12
  <2>2. CASE Place(s, m) <= at
    <3>1. v.cursor # None
      BY <1>2, <2>1, <2>2 DEF at, LastPlace
    <3>2. m \in 1..v.before /\ Place(s, m) <= Place(s, v.cursor)
      BY <2>2, <3>1 DEF at, LastPlace
    <3>3. m \in Range(v.got)
      BY <3>1, <3>2 DEF WalkHolds
    <3>4. PICK i \in 1..Len(v.got) : v.got[i] = m
      BY <1>3, <3>3, RangeOf
    <3>6. i \in 1..(Len(v.got) + Len(page)) /\ i <= Len(v.got)
      BY <1>3
    <3>5. i \in 1..(Len(v.got) + Len(page)) /\ got[i] = m
      BY <1>4, <3>4, <3>6
    <3> QED BY <1>4, <3>5, RangeOf
  <2>3. CASE Place(s, m) > at
    <3> DEFINE i == Place(s, m) - at
    <3>1. i \in 1..Len(page) /\ at + i = Place(s, m)
      BY <1>2, <1>3, <1>13, <2>1, <2>3
    <3>2. page[i] = m
      BY <1>6, <2>1, <3>1
    <3> HIDE DEF i
    <3>3. /\ Len(v.got) + i \in 1..(Len(v.got) + Len(page))
          /\ ~(Len(v.got) + i <= Len(v.got))
          /\ (Len(v.got) + i) - Len(v.got) = i
      BY <1>3, <3>1
    <3>4. got[Len(v.got) + i] = m
      BY <1>4, <3>2, <3>3
    <3> QED BY <1>4, <3>3, <3>4, RangeOf
  <2> QED BY <1>2, <2>1, <2>2, <2>3
<1>14. CASE limit < n - at
  <2>1. /\ Len(page) = limit /\ limit \in 1..Len(page)
        /\ next = s[at + limit] /\ next = page[limit] /\ next \in 1..n
        /\ Place(s, next) = at + limit
    BY <1>6, <1>7, <1>14
  <2>2. next # None
    BY <2>1, NoEntryAssumption
  <2>3. got # <<>> /\ got[Len(got)] = next
    <3>1. Len(got) = Len(v.got) + limit
      BY <1>4, <2>1
    <3>2. Len(got) \in 1..(Len(v.got) + Len(page)) /\ Len(got) > Len(v.got)
          /\ Len(got) - Len(v.got) = limit
      BY <1>3, <2>1, <3>1
    <3>5. ~(Len(got) <= Len(v.got))
      BY <1>3, <1>4, <3>2
    <3>3. got[Len(got)] = page[limit]
      BY <1>4, <3>2, <3>5
    <3>4. got # <<>>
      BY <1>3, <1>4, <3>2, EmptySeq
    <3> QED BY <2>1, <3>3, <3>4
  <2>4. u \in WalkType
    BY <1>4, <1>5, <1>12, <2>1 DEF WalkType
  <2>5. u.cursor = next /\ u.got = got /\ u.before = before /\ u.open
    BY <1>5, <2>2
  <2>6. \A m \in 1..before : Place(s, m) <= Place(s, next) => m \in Range(got)
    BY <1>13, <2>1
  <2> HIDE DEF next, before
  <2>7. WalkHolds(u, s, n)
    BY <1>10, <1>11, <1>12, <2>2, <2>3, <2>5, <2>6 DEF WalkHolds
  <2> QED BY <2>4, <2>7 DEF u
<1>15. CASE ~(limit < n - at)
  <2>1. next = None /\ at + Len(page) = n
    BY <1>2, <1>6, <1>15
  <2>2. u \in WalkType
    BY <1>4, <1>5, <1>12, <2>1 DEF WalkType
  <2>3. u.cursor = None /\ u.got = got /\ u.before = before /\ ~u.open
    BY <1>5, <2>1
  <2>4. \A m \in 1..before : m \in Range(got)
    BY <1>1, <1>12, <1>13, <2>1
  <2> HIDE DEF next, before
  <2>5. WalkHolds(u, s, n)
    BY <1>10, <1>11, <1>12, <2>3, <2>4 DEF WalkHolds
  <2> QED BY <2>2, <2>5 DEF u
<1> QED BY <1>14, <1>15

-----------------------------------------------------------------------------
(***************************************************************************)
(* The steps.                                                              *)
(***************************************************************************)
LEMMA ReadersInvInit == ReadersInit => ReadersInv
<1> SUFFICES ASSUME ReadersInit PROVE ReadersInv
  OBVIOUS
<1>1. LedgerInv
  BY LedgerInvInit DEF ReadersInit
<1>2. <<>> \in Seq(Nat) /\ Len(<<>>) = 0 /\ DOMAIN <<>> = {}
  BY EmptySeq
<1>3. ReadersTyped
  BY <1>2 DEF ReadersInit, ReadersTyped, WalkType
<1>4. \A w \in Wallets : /\ ledger[w] = <<>> /\ order[w] = <<>>
                         /\ read[w] = None /\ report[w] = None
                         /\ walk[w] = [cursor |-> None, got |-> <<>>,
                                       before |-> 0, open |-> TRUE]
  BY DEF ReadersInit, Init
<1>5. IsPlacing(<<>>, 0)
  BY <1>2 DEF IsPlacing
<1>6. WalkHolds([cursor |-> None, got |-> <<>>, before |-> 0, open |-> TRUE],
                <<>>, 0)
  BY <1>2 DEF WalkHolds
<1>7. \A w \in Wallets :
          /\ IsPlacing(order[w], Len(ledger[w]))
          /\ WalkHolds(walk[w], order[w], Len(ledger[w]))
  BY <1>2, <1>4, <1>5, <1>6
<1> QED
  BY <1>1, <1>3, <1>4, <1>7 DEF ReadersInv, ReadingHolds, ReportTellsTheLedger

\* What has been read and reported stays true while the ledger grows.
LEMMA ReadingsStay ==
    ASSUME ReadersInv, [Next]_vars, UNCHANGED <<read, report>>
    PROVE  /\ \A w \in Wallets : ReadingHolds(w)'
           /\ \A w \in Wallets :
                 report'[w] # None => Len(report'[w].entries) <= Len(ledger'[w])
           /\ ReportTellsTheLedger'
<1>1. \A w \in Wallets : Grows(w) /\ Len(ledger[w]) \in Nat
  BY LedgerGrows, LenProperties DEF ReadersInv, LedgerInv, TypeOK
<1>2. \A w \in Wallets : Len(ledger[w]) <= Len(ledger'[w]) /\ Len(ledger'[w]) \in Nat
  BY <1>1 DEF Grows
<1>3. \A w \in Wallets : \A n \in 0..Len(ledger[w]) :
         (IF n = 0 THEN 0 ELSE ledger'[w][n].after) = BalanceAt(w, n)
  BY <1>1 DEF Grows, BalanceAt
<1>4. \A w \in Wallets : ReadingHolds(w)'
  BY <1>2, <1>3 DEF ReadersInv, ReadingHolds, BalanceAt
<1>5. \A w \in Wallets : report[w] # None =>
         /\ report[w] \in ReportType
         /\ Len(report[w].entries) \in 0..Len(ledger[w])
  <2>1. \A w \in Wallets : report[w] # None => report[w] \in ReportType
    BY DEF ReadersInv, ReadersTyped
  <2>2. \A w \in Wallets : report[w] # None => Len(report[w].entries) \in Nat
    BY <2>1, LenProperties DEF ReportType
  <2> QED BY <1>1, <2>1, <2>2 DEF ReadersInv
<1>6. \A w \in Wallets :
         report'[w] # None => Len(report'[w].entries) <= Len(ledger'[w])
  BY <1>1, <1>2, <1>5
<1>7. ReportTellsTheLedger'
  <2> SUFFICES ASSUME NEW w \in Wallets, report[w] # None,
                      InCommitOrder(report[w].entries)
               PROVE  LET checked == Len(report[w].entries)
                          v == report[w].version
                      IN  /\ v <= checked
                          /\ report[w].calculated =
                                (IF checked = 0 THEN 0 ELSE ledger'[w][checked].after)
                          /\ report[w].stored =
                                (IF v = 0 THEN 0 ELSE ledger'[w][v].after)
                          /\ v = checked => Consistent(report[w])
                          /\ Difference(report[w]) =
                               (IF checked = 0 THEN 0 ELSE ledger'[w][checked].after)
                                - (IF v = 0 THEN 0 ELSE ledger'[w][v].after)
    BY DEF ReportTellsTheLedger, InCommitOrder, BalanceAt, Consistent, Difference
  <2> DEFINE checked == Len(report[w].entries)
             v == report[w].version
  <2>1. /\ v <= checked
        /\ report[w].calculated = BalanceAt(w, checked)
        /\ report[w].stored = BalanceAt(w, v)
        /\ v = checked => Consistent(report[w])
        /\ Difference(report[w]) = BalanceAt(w, checked) - BalanceAt(w, v)
    BY DEF ReadersInv, ReportTellsTheLedger
  <2>2. checked \in 0..Len(ledger[w]) /\ v \in Nat
    BY <1>5 DEF ReportType
  <2> HIDE DEF checked, v
  <2>3. v \in 0..Len(ledger[w])
    BY <1>1, <2>1, <2>2
  <2>4. /\ (IF checked = 0 THEN 0 ELSE ledger'[w][checked].after) = BalanceAt(w, checked)
        /\ (IF v = 0 THEN 0 ELSE ledger'[w][v].after) = BalanceAt(w, v)
    BY <1>3, <2>2, <2>3
  <2> QED BY <2>1, <2>4 DEF checked, v
<1> QED BY <1>4, <1>6, <1>7

LEMMA UseCaseKeepsInv ==
    ASSUME ReadersInv, UseCase
    PROVE  ReadersInv'
<1>1. /\ [Next]_vars /\ UNCHANGED <<read, report, walk>>
  BY DEF UseCase
<1>2. LedgerInv'
  BY <1>1, LedgerInvStep DEF ReadersInv
<1>3. PICK late \in 0..Disorder :
         order' = [w \in Wallets |->
              IF ledger'[w] = ledger[w] THEN order[w]
              ELSE InsertAt(order[w],
                            IF late < Len(ledger'[w]) THEN Len(ledger'[w]) - late
                                                      ELSE 1,
                            Len(ledger'[w]))]
  BY DEF UseCase
<1>4. ASSUME NEW w \in Wallets
      PROVE  /\ order'[w] \in Seq(Nat)
             /\ IsPlacing(order'[w], Len(ledger'[w]))
             /\ WalkHolds(walk'[w], order'[w], Len(ledger'[w]))
  <2>1. /\ Len(ledger[w]) \in Nat
        /\ IsPlacing(order[w], Len(ledger[w]))
        /\ walk[w] \in WalkType
        /\ WalkHolds(walk[w], order[w], Len(ledger[w]))
    BY LenProperties DEF ReadersInv, ReadersTyped, LedgerInv, TypeOK
  <2>2. walk'[w] = walk[w]
    BY <1>1
  <2>3. CASE ledger'[w] = ledger[w]
    <3>1. order'[w] = order[w]
      BY <1>3, <2>3
    <3> QED BY <2>1, <2>2, <2>3, <3>1 DEF ReadersInv, ReadersTyped
  <2>4. CASE ledger'[w] # ledger[w]
    <3> DEFINE n == Len(ledger[w])
               p == IF late < n + 1 THEN (n + 1) - late ELSE 1
    <3>1. Len(ledger'[w]) = n + 1
      BY <1>1, <2>4, LedgerGrows DEF Grows, ReadersInv
    <3>2. order'[w] = InsertAt(order[w], p, n + 1)
      BY <1>3, <2>4, <3>1
    <3>3. p \in 1..(n + 1) /\ n \in Nat
      BY <2>1, ReadersAssumption
    <3> HIDE DEF n, p
    <3>4. IsPlacing(order[w], n) /\ WalkHolds(walk[w], order[w], n)
      BY <2>1 DEF n
    <3>5. /\ IsPlacing(order'[w], n + 1)
          /\ WalkHolds(walk[w], order'[w], n + 1)
      BY <2>1, <3>2, <3>3, <3>4, InsertionKeepsPlaces, InsertionKeepsWalk
    <3>6. n + 1 \in Nat
      BY <3>3
    <3>7. order'[w] \in Seq(Nat)
      BY <3>5, <3>6, PlaceFound
    <3> QED BY <2>2, <3>1, <3>5, <3>7
  <2> QED BY <2>3, <2>4
<1>5. ReadersTyped'
  <2>1. order' \in [Wallets -> Seq(Nat)]
    <3>1. order' = [w \in Wallets |-> order'[w]]
      BY <1>3
    <3> QED BY <1>4, <3>1
  <2> QED BY <1>1, <2>1 DEF ReadersInv, ReadersTyped
<1> QED BY <1>1, <1>2, <1>4, <1>5, ReadingsStay DEF ReadersInv

LEMMA ReadWalletKeepsInv ==
    ASSUME ReadersInv, NEW w \in Wallets, ReadWallet(w)
    PROVE  ReadersInv'
<1>1. /\ wallets[w] # None
      /\ read' = [read EXCEPT ![w] = wallets[w]]
      /\ UNCHANGED <<vars, order, report, walk>>
  BY DEF ReadWallet
<1>2. LedgerInv'
  BY <1>1, LedgerInvStep DEF ReadersInv
<1>3. wallets[w] \in WalletType /\ ledger[w] \in Seq(EntryType)
  BY <1>1 DEF ReadersInv, LedgerInv, TypeOK
<1>4. ReadersTyped'
  BY <1>1, <1>3 DEF ReadersInv, ReadersTyped
<1>5. /\ wallets[w].version = Len(ledger[w])
      /\ wallets[w].version \in 0..Len(ledger[w])
      /\ wallets[w].balance = BalanceAt(w, wallets[w].version)
  <2>1. Chained(ledger[w], wallets[w].balance) /\ wallets[w].version = Len(ledger[w])
    BY <1>1 DEF ReadersInv, LedgerInv, LedgerExplainsBalance, VersionCountsEntries
  <2>2. Len(ledger[w]) \in Nat \ {0}
    BY <1>3, <2>1, LenProperties, EmptySeq DEF Chained
  <2> QED BY <2>1, <2>2 DEF Chained, BalanceAt
<1>6. \A v \in Wallets : ReadingHolds(v)'
  <2> SUFFICES ASSUME NEW v \in Wallets PROVE ReadingHolds(v)'
    OBVIOUS
  <2>1. CASE v = w
    <3>1. read'[v] = wallets[w]
      BY <1>1, <2>1 DEF ReadersInv, ReadersTyped
    <3> QED BY <1>1, <1>5, <2>1, <3>1 DEF ReadingHolds, BalanceAt, vars
  <2>2. CASE v # w
    <3>1. read'[v] = read[v]
      BY <1>1, <2>2 DEF ReadersInv, ReadersTyped
    <3> QED BY <1>1, <3>1 DEF ReadersInv, ReadingHolds, BalanceAt, vars
  <2> QED BY <2>1, <2>2
<1>7. ReportTellsTheLedger'
  BY <1>1 DEF ReadersInv, ReportTellsTheLedger, InCommitOrder, BalanceAt,
              Consistent, Difference, vars
<1> QED BY <1>1, <1>2, <1>4, <1>6, <1>7 DEF ReadersInv, vars

(***************************************************************************)
(* What a reconciliation computes from entries that come in the order of   *)
(* their commits.                                                          *)
(***************************************************************************)
LEMMA RecomputedIsBalance ==
    ASSUME ReadersInv, NEW w \in Wallets
    PROVE  LET n == Len(ledger[w])
               entries == [i \in DOMAIN order[w] |-> ledger[w][order[w][i]]]
           IN  /\ Recomputed(entries) \in Nat \cup {None}
               /\ InCommitOrder(order[w]) => Recomputed(entries) = BalanceAt(w, n)
<1> DEFINE n == Len(ledger[w])
           entries == [i \in DOMAIN order[w] |-> ledger[w][order[w][i]]]
<1>1. /\ ledger[w] \in Seq(EntryType) /\ n \in Nat
      /\ IsPlacing(order[w], n)
  BY LenProperties DEF ReadersInv, LedgerInv, TypeOK
<1>2. DOMAIN order[w] = 1..n /\ \A i \in 1..n : order[w][i] \in 1..n
  BY <1>1 DEF IsPlacing
<1>3. \A i \in 1..n : ledger[w][i] \in EntryType
  BY <1>1, ElementOfSeq
<1>4. DOMAIN entries = 1..n /\ \A i \in 1..n : entries[i] = ledger[w][order[w][i]]
  BY <1>2
<1>5. \A i \in 1..n : entries[i] \in EntryType
  BY <1>2, <1>3, <1>4
<1>6. Len(entries) = n
  <2>1. entries \in [1..n -> EntryType]
    BY <1>2, <1>5
  <2>2. entries \in Seq(EntryType)
    BY <1>1, <2>1, SeqDef
  <2> QED BY <1>1, <1>4, <2>2, LenProperties
<1> HIDE DEF n, entries
<1>7. BalanceAfterFirst(entries, n) \in Nat
  BY <1>1, <1>5 DEF BalanceAfterFirst, EntryType
<1>8. Recomputed(entries) \in Nat \cup {None}
  BY <1>6, <1>7 DEF Recomputed
<1>9. ASSUME InCommitOrder(order[w]) PROVE Recomputed(entries) = BalanceAt(w, n)
  <2>1. \A i \in 1..n : entries[i] = ledger[w][i]
    BY <1>2, <1>4, <1>9 DEF InCommitOrder
  <2>2. \A i \in 1..n :
           /\ ledger[w][i].after =
                 BalanceAfter(ledger[w][i].type, ledger[w][i].before, ledger[w][i].amount)
           /\ ledger[w][i].before = IF i = 1 THEN 0 ELSE ledger[w][i - 1].after
    <3>1. CASE wallets[w] = None
      <4>1. ledger[w] = <<>>
        BY <3>1 DEF ReadersInv, LedgerInv, LedgerExplainsBalance
      <4>2. n = 0
        BY <4>1, EmptySeq DEF n
      <4> QED BY <4>2
    <3>2. CASE wallets[w] # None
      <4>1. Chained(ledger[w], wallets[w].balance)
        BY <3>2 DEF ReadersInv, LedgerInv, LedgerExplainsBalance
      <4>2. DOMAIN ledger[w] = 1..n
        BY <1>1, LenProperties DEF n
      <4> QED BY <1>1, <4>1, <4>2 DEF Chained
    <3> QED BY <3>1, <3>2
  <2>3. ASSUME NEW i \in 1..n
        PROVE  /\ entries[i].before = BalanceAfterFirst(entries, i - 1)
               /\ entries[i].after =
                     BalanceAfter(entries[i].type, entries[i].before, entries[i].amount)
    <3>1. CASE i = 1
      BY <2>1, <2>2, <3>1 DEF BalanceAfterFirst
    <3>2. CASE i # 1
      <4>1. i - 1 \in 1..n /\ i - 1 # 0
        BY <1>1, <3>2
      <4> QED BY <2>1, <2>2, <3>2, <4>1 DEF BalanceAfterFirst
    <3> QED BY <3>1, <3>2
  <2>4. Recomputed(entries) = BalanceAfterFirst(entries, n)
    BY <1>4, <1>6, <2>3 DEF Recomputed
  <2> QED BY <1>1, <2>1, <2>4 DEF BalanceAfterFirst, BalanceAt
<1> QED BY <1>8, <1>9 DEF n, entries

LEMMA ReadEntriesKeepsInv ==
    ASSUME ReadersInv, NEW w \in Wallets, ReadEntries(w)
    PROVE  ReadersInv'
<1> DEFINE entries == [i \in DOMAIN order[w] |-> ledger[w][order[w][i]]]
           calculated == Recomputed(entries)
           r == [stored |-> read[w].balance, version |-> read[w].version,
                 entries |-> order[w], calculated |-> calculated]
           n == Len(ledger[w])
<1>1. /\ read[w] # None
      /\ report' = [report EXCEPT ![w] = r]
      /\ read' = [read EXCEPT ![w] = None]
      /\ UNCHANGED <<vars, order, walk>>
  BY DEF ReadEntries
<1>2. LedgerInv'
  BY <1>1, LedgerInvStep DEF ReadersInv
<1>3. /\ calculated \in Nat \cup {None}
      /\ InCommitOrder(order[w]) => calculated = BalanceAt(w, n)
  BY RecomputedIsBalance
<1> HIDE DEF calculated, entries
<1>4. /\ n \in Nat
      /\ read[w] \in WalletType
      /\ read[w].version \in 0..n
      /\ read[w].balance \in 0..MaxBalance
      /\ read[w].balance = BalanceAt(w, read[w].version)
  BY <1>1, LenProperties
  DEF ReadersInv, ReadersTyped, ReadingHolds, LedgerInv, TypeOK, WalletType
<1>5. order[w] \in Seq(Nat) /\ Len(order[w]) = n
  BY <1>4, PlaceFound DEF ReadersInv
<1>6. r \in ReportType
  BY <1>3, <1>4, <1>5 DEF ReportType
<1>7. ReadersTyped'
  BY <1>1, <1>6 DEF ReadersInv, ReadersTyped
<1>8. \A v \in Wallets : ReadingHolds(v)'
  <2> SUFFICES ASSUME NEW v \in Wallets PROVE ReadingHolds(v)'
    OBVIOUS
  <2>1. read'[v] \in {read[v], None}
    BY <1>1 DEF ReadersInv, ReadersTyped
  <2> QED BY <1>1, <2>1 DEF ReadersInv, ReadingHolds, BalanceAt, vars
<1>9. /\ r.stored = read[w].balance /\ r.version = read[w].version
      /\ r.entries = order[w] /\ r.calculated = calculated
  OBVIOUS
<1> HIDE DEF r
<1>10. \A v \in Wallets : report'[v] = IF v = w THEN r ELSE report[v]
  BY <1>1 DEF ReadersInv, ReadersTyped
<1>11. \A v \in Wallets :
          report'[v] # None => Len(report'[v].entries) <= Len(ledger'[v])
  BY <1>1, <1>4, <1>5, <1>9, <1>10 DEF ReadersInv, vars
<1>12. ReportTellsTheLedger'
  <2> SUFFICES ASSUME NEW v \in Wallets, report'[v] # None,
                      InCommitOrder(report'[v].entries)
               PROVE  LET checked == Len(report'[v].entries)
                      IN  /\ report'[v].version <= checked
                          /\ report'[v].calculated = BalanceAt(v, checked)
                          /\ report'[v].stored = BalanceAt(v, report'[v].version)
                          /\ report'[v].version = checked => Consistent(report'[v])
                          /\ Difference(report'[v])
                               = BalanceAt(v, checked) - BalanceAt(v, report'[v].version)
    BY <1>1 DEF ReportTellsTheLedger, InCommitOrder, BalanceAt, Consistent,
                Difference, vars
  <2>1. CASE v = w
    <3>1. report'[v] = r
      BY <1>10, <2>1
    <3>2. calculated = BalanceAt(w, n)
      BY <1>3, <1>9, <3>1
    <3> QED BY <1>4, <1>5, <1>9, <2>1, <3>1, <3>2 DEF Consistent, Difference
  <2>2. CASE v # w
    <3>1. report'[v] = report[v]
      BY <1>10, <2>2
    <3> QED BY <3>1 DEF ReadersInv, ReportTellsTheLedger
  <2> QED BY <2>1, <2>2
<1> QED BY <1>1, <1>2, <1>7, <1>8, <1>11, <1>12 DEF ReadersInv, vars

(***************************************************************************)
(* The rows of the query and the cursor are the page that PageKeepsWalk    *)
(* speaks of: one row more than the limit only tells that more follow.     *)
(***************************************************************************)
LEMMA GetPageIsPage ==
    ASSUME ReadersInv, NEW w \in Wallets, NEW limit \in Limits, GetPage(w, limit)
    PROVE  \E page :
              /\ IsPage(page, limit, walk[w], order[w], Len(ledger[w]))
              /\ walk' = [walk EXCEPT ![w] =
                    WalkAfter(walk[w], page, limit, order[w], Len(ledger[w]))]
<1> DEFINE s == order[w]
           n == Len(ledger[w])
           v == walk[w]
           at == LastPlace(v, s)
           after == After(w, v.cursor)
           rows == FirstOf(after, limit + 1)
           page == FirstOf(rows, limit)
           next == NextCursor(rows, limit)
<1>1. /\ v.open
      /\ walk' = [walk EXCEPT ![w] =
            [cursor |-> next, got |-> v.got \o page,
             before |-> IF v.cursor = None THEN n ELSE v.before,
             open |-> next # None]]
  BY DEF GetPage
<1>2. n \in Nat /\ limit \in Nat \ {0}
  BY LenProperties, ReadersAssumption DEF ReadersInv, LedgerInv, TypeOK
<1>3. /\ s \in Seq(Nat) /\ Len(s) = n
      /\ \A m \in 1..n : Place(s, m) \in 1..n
  BY <1>2, PlaceFound DEF ReadersInv
<1>4. at \in 0..n
  <2>1. CASE v.cursor = None
    BY <1>2, <2>1 DEF LastPlace
  <2>2. CASE v.cursor # None
    <3>1. v.cursor \in 1..n
      BY <1>1, <1>2, <2>2, CursorIsLast DEF ReadersInv, ReadersTyped
    <3> QED BY <1>3, <2>2, <3>1 DEF LastPlace
  <2> QED BY <2>1, <2>2
<1>5. after = SubSeq(s, at + 1, n)
  BY <1>3 DEF After, LastPlace, Place
<1> HIDE DEF s, n, v, at, after
<1>6. /\ after \in Seq(Nat) /\ Len(after) = n - at
      /\ \A i \in 1..(n - at) : after[i] = s[at + i]
  <2> DEFINE m == at + 1
  <2>1. m \in Int /\ n \in Int /\ \A i \in m..n : s[i] \in Nat
    BY <1>2, <1>3, <1>4, ElementOfSeq
  <2>2. after = SubSeq(s, m, n)
    BY <1>5
  <2>3. m = at + 1
    OBVIOUS
  <2> HIDE DEF m
  <2>4. /\ after \in Seq(Nat) /\ Len(after) = IF m <= n THEN n - m + 1 ELSE 0
        /\ \A i \in 1..(n - m + 1) : after[i] = s[m + i - 1]
    BY <2>1, <2>2, SubSeqProperties
  <2>5. \A i \in 1..(n - at) : i \in 1..(n - m + 1) /\ m + i - 1 = at + i
    BY <1>2, <1>4, <2>3
  <2>6. \A i \in 1..(n - at) : after[i] = s[at + i]
    BY <2>4, <2>5
  <2> QED BY <1>2, <1>4, <2>3, <2>4, <2>6
<1>7. /\ rows \in Seq(Nat)
      /\ Len(rows) = IF limit + 1 < n - at THEN limit + 1 ELSE n - at
      /\ \A i \in 1..Len(rows) : rows[i] = s[at + i]
  BY <1>2, <1>4, <1>6, SubSeqProperties DEF FirstOf
<1> HIDE DEF rows
<1>8. /\ page \in Seq(Nat)
      /\ Len(page) = IF limit < n - at THEN limit ELSE n - at
      /\ \A i \in 1..Len(page) : page[i] = s[at + i]
  BY SMTT(30), <1>2, <1>4, <1>7, SubSeqProperties DEF FirstOf
<1>9. next = IF limit < n - at THEN s[at + limit] ELSE None
  BY <1>2, <1>4, <1>7 DEF NextCursor
<1> HIDE DEF page, next
<1>10. IsPage(page, limit, v, s, n)
  BY <1>8 DEF IsPage, at
<1>11. WalkAfter(v, page, limit, s, n) =
          [cursor |-> next, got |-> v.got \o page,
           before |-> IF v.cursor = None THEN n ELSE v.before,
           open |-> next # None]
  BY <1>9 DEF WalkAfter, at
<1> QED BY <1>1, <1>10, <1>11 DEF s, n, v

LEMMA GetPageKeepsInv ==
    ASSUME ReadersInv, NEW w \in Wallets, NEW limit \in Limits, GetPage(w, limit)
    PROVE  ReadersInv'
<1>1. UNCHANGED <<vars, order, read, report>> /\ walk[w].open
  BY DEF GetPage
<1>2. PICK page :
         /\ IsPage(page, limit, walk[w], order[w], Len(ledger[w]))
         /\ walk' = [walk EXCEPT ![w] =
               WalkAfter(walk[w], page, limit, order[w], Len(ledger[w]))]
  BY GetPageIsPage
<1> DEFINE u == WalkAfter(walk[w], page, limit, order[w], Len(ledger[w]))
<1>3. /\ Len(ledger[w]) \in Nat /\ limit \in Nat \ {0}
      /\ IsPlacing(order[w], Len(ledger[w]))
      /\ walk[w] \in WalkType
      /\ WalkHolds(walk[w], order[w], Len(ledger[w]))
  BY LenProperties, ReadersAssumption
  DEF ReadersInv, ReadersTyped, LedgerInv, TypeOK
<1>4. u \in WalkType /\ WalkHolds(u, order[w], Len(ledger[w]))
  BY <1>1, <1>2, <1>3, PageKeepsWalk
<1>5. walk' = [walk EXCEPT ![w] = u]
  BY <1>2
<1> HIDE DEF u
<1>6. LedgerInv'
  BY <1>1, LedgerInvStep DEF ReadersInv
<1>7. ReadersTyped'
  BY <1>1, <1>4, <1>5 DEF ReadersInv, ReadersTyped
<1>8. \A v \in Wallets : WalkHolds(walk'[v], order[v], Len(ledger[v]))
  BY <1>4, <1>5 DEF ReadersInv, ReadersTyped
<1>9. ReportTellsTheLedger' /\ \A v \in Wallets : ReadingHolds(v)'
  BY <1>1, ReadingsStay
<1> QED BY <1>1, <1>6, <1>7, <1>8, <1>9 DEF ReadersInv, vars

LEMMA ReadersInvStep == ReadersInv /\ [ReadersNext]_readerVars => ReadersInv'
<1> SUFFICES ASSUME ReadersInv, [ReadersNext]_readerVars PROVE ReadersInv'
  OBVIOUS
<1>1. CASE UNCHANGED readerVars
  <2>1. UNCHANGED <<vars, order, read, report, walk>>
    BY <1>1 DEF readerVars, readers
  <2>2. LedgerInv'
    BY <2>1, LedgerInvStep DEF ReadersInv
  <2> QED BY <2>1, <2>2, ReadingsStay DEF ReadersInv, ReadersTyped, vars
<1> QED
  BY <1>1, UseCaseKeepsInv, ReadWalletKeepsInv, ReadEntriesKeepsInv,
     GetPageKeepsInv DEF ReadersNext

LEMMA ReadersInvHolds == ReadersSpec => []ReadersInv
BY ReadersInvInit, ReadersInvStep, PTL DEF ReadersSpec

(***************************************************************************)
(* The order of the entries is always one of the ledger's, and walks and   *)
(* reports hold only what is in it.                                        *)
(***************************************************************************)
THEOREM ReadersAreTyped == ReadersSpec => []ReadersTypeOK
<1>1. ReadersInv => ReadersTypeOK
  <2> SUFFICES ASSUME ReadersInv PROVE ReadersTypeOK
    OBVIOUS
  <2>1. TypeOK
    BY DEF ReadersInv, LedgerInv
  <2>2. ASSUME NEW w \in Wallets
        PROVE  /\ IsOrderOf(order[w], Len(ledger[w]))
               /\ read[w] \in WalletType \cup {None}
               /\ report[w] # None => report[w].calculated \in Nat \cup {None}
               /\ Range(walk[w].got) \subseteq 1..Len(ledger[w])
    <3> DEFINE n == Len(ledger[w])
    <3>1. n \in Nat /\ IsPlacing(order[w], n)
      BY LenProperties DEF ReadersInv, LedgerInv, TypeOK
    <3>2. order[w] \in Seq(Nat) /\ Len(order[w]) = n /\ DOMAIN order[w] = 1..n
      BY <3>1, PlaceFound
    <3> HIDE DEF n
    <3>3. Range(order[w]) = 1..n
      <4>1. \A m : m \in Range(order[w]) <=> \E i \in 1..n : order[w][i] = m
        BY <3>2, RangeOf
      <4>2. /\ \A m \in 1..n : \E i \in 1..n : order[w][i] = m
            /\ \A i \in 1..n : order[w][i] \in 1..n
        BY <3>1 DEF IsPlacing
      <4> QED BY <4>1, <4>2
    <3>4. \A i \in DOMAIN walk[w].got : walk[w].got[i] \in 1..n
      BY DEF ReadersInv, WalkHolds, n
    <3>5. Range(walk[w].got) \subseteq 1..n
      BY <3>4 DEF Range
    <3>6. read[w] \in WalletType \cup {None} /\ report[w] \in ReportType \cup {None}
      BY DEF ReadersInv, ReadersTyped
    <3> QED BY <3>2, <3>3, <3>5, <3>6 DEF IsOrderOf, ReportType, n
  <2> QED BY <2>1, <2>2 DEF ReadersTypeOK
<1> QED BY <1>1, ReadersInvHolds, PTL

(***************************************************************************)
(* A reconciliation whose entries come in the order of their commits never *)
(* accuses a correct ledger: its difference is what committed between its  *)
(* two reads, whatever is written meanwhile.                               *)
(***************************************************************************)
THEOREM ReportsTellTheLedger == ReadersSpec => []ReportTellsTheLedger
<1>1. ReadersInv => ReportTellsTheLedger
  BY DEF ReadersInv
<1> QED BY <1>1, ReadersInvHolds, PTL

(***************************************************************************)
(* A walk over the pages of the ledger misses no entry that was there when *)
(* it began and gives none twice, for every size of its pages, however     *)
(* many entries are written between them and wherever they sort.           *)
(***************************************************************************)
THEOREM WalksCoverTheLedger == ReadersSpec => []PagesCoverTheLedger
<1>1. ReadersInv => PagesCoverTheLedger
  <2> SUFFICES ASSUME ReadersInv, NEW w \in Wallets
               PROVE  /\ ~walk[w].open => 1..walk[w].before \subseteq Range(walk[w].got)
                      /\ \A i, j \in DOMAIN walk[w].got : i < j =>
                            PlaceOf(w, walk[w].got[i]) < PlaceOf(w, walk[w].got[j])
    BY DEF PagesCoverTheLedger
  <2>1. WalkHolds(walk[w], order[w], Len(ledger[w]))
    BY DEF ReadersInv
  <2>2. \A m : PlaceOf(w, m) = Place(order[w], m)
    BY DEF PlaceOf, Place
  <2> QED BY <2>1, <2>2 DEF WalkHolds
<1> QED BY <1>1, ReadersInvHolds, PTL
=============================================================================
