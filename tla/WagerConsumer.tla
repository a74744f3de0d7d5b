---------------------------- MODULE WagerConsumer ----------------------------
(***************************************************************************)
(* WagerTransactionsConsumerService between the FIFO queue                 *)
(* wager-transactions.fifo and the database: at-least-once delivery, the   *)
(* inbox, the acknowledgement after the commit, the classes of failures    *)
(* and the two ways into the dead-letter queue.                            *)
(*                                                                         *)
(* What a database transaction of the consumer does is one step here (see  *)
(* DatabaseSessions); of the tables only the inbox and, by idempotency     *)
(* key, whether a wager is DECIDED or FAILED are kept.  The queue is       *)
(* external: a message that was received is invisible until its visibility *)
(* timeout ends, then it is delivered again, MaxReceives times in all.     *)
(***************************************************************************)
EXTENDS Integers, Sequences, FiniteSets, SequencesExt

CONSTANTS
    None,
    Consumers,   \* the running instances of the application
    Messages,    \* the messages producers send
    Envelope,    \* Envelope[m]: [id, key, payload, wallet], what m carries
    Malformed,   \* the messages parseMessage refuses
    Breaking,    \* those that can meet an SQL error of class 42 or 0A000
    LateWallets, \* wallets that do not exist at first
    MaxReceives, \* maxReceiveCount of the redrive policy
    MaxBatch     \* MaxNumberOfMessages

ASSUME ConsumerAssumption ==
    /\ Malformed \subseteq Messages /\ Breaking \subseteq Messages
    /\ MaxReceives \in Nat \ {0} /\ MaxBatch \in Nat \ {0}

VARIABLES
    sent,         \* the messages in the order they were sent
    queue,        \* queue[m]: where m is, as the queue sees it
    receives,     \* receives[m]: ApproximateReceiveCount
    deadLetters,  \* the messages in wager-transactions-dlq.fifo
    opened,       \* the late wallets that exist by now
    inbox,        \* the messages whose bodies the PROCESSED inbox rows hold
    rows,         \* rows[k]: the wager_transactions row of key k
    refused,      \* history: the messages the use case has refused
    pc,           \* pc[c]: what consumer c does next
    batch,        \* batch[c]: what it received and has not finished
    accepting     \* accepting[c]: acceptingMessages

queueVars == <<sent, queue, receives>>
dbVars == <<opened, inbox, rows, refused>>
vars == <<sent, queue, receives, deadLetters, opened, inbox, rows, refused, pc,
          batch, accepting>>

Places == {"unsent", "visible", "inflight", "deleted", "dead"}
Activities == {"idle", "submit", "acknowledge", "markTerminal", "markFailed",
               "deadLetter", "remove"}
IdOf(m) == Envelope[m].id
KeyOf(m) == Envelope[m].key
WalletOf(m) == Envelope[m].wallet
WagerKeys == {KeyOf(m) : m \in Messages}
HasWallet(m) == WalletOf(m) \notin LateWallets \ opened
Row(m, status) == [payload |-> Envelope[m].payload, status |-> status]
RowType == [payload: {Envelope[m].payload : m \in Messages},
            status: {"DECIDED", "FAILED"}]
ReceivedType == [message: Messages, receipt: Nat]

\* The inbox knows a message by its id alone; the row keeps the first body.
Processed(m) == \E n \in inbox : IdOf(n) = IdOf(m)
InboxWith(m) == IF Processed(m) THEN inbox ELSE inbox \cup {m}

\* The key of m has a row of the same payload, or of another.
Recorded(m) ==
    rows[KeyOf(m)] # None /\ rows[KeyOf(m)].payload = Envelope[m].payload
UsedByAnother(m) ==
    rows[KeyOf(m)] # None /\ rows[KeyOf(m)].payload # Envelope[m].payload

ASSUME NoRowAssumption == None \notin RowType

Init ==
    /\ sent = <<>>
    /\ queue = [m \in Messages |-> "unsent"]
    /\ receives = [m \in Messages |-> 0]
    /\ deadLetters = {}
    /\ opened = {}
    /\ inbox = {}
    /\ rows = [k \in WagerKeys |-> None]
    /\ refused = {}
    /\ pc = [c \in Consumers |-> "idle"]
    /\ batch = [c \in Consumers |-> <<>>]
    /\ accepting = [c \in Consumers |-> TRUE]

-----------------------------------------------------------------------------
(***************************************************************************)
(* The environment: producers, the queue, HTTP clients.                    *)
(***************************************************************************)
Send(m) ==
    /\ queue[m] = "unsent"
    /\ queue' = [queue EXCEPT ![m] = "visible"]
    /\ sent' = Append(sent, m)
    /\ UNCHANGED <<receives, deadLetters, dbVars, pc, batch, accepting>>

\* The visibility timeout of one second ends, whatever the consumer is at.
Expire(m) ==
    /\ queue[m] = "inflight"
    /\ queue' = [queue EXCEPT ![m] = "visible"]
    /\ UNCHANGED <<sent, receives, deadLetters, dbVars, pc, batch, accepting>>

Redrive(m) ==
    /\ queue[m] = "visible" /\ receives[m] = MaxReceives
    /\ queue' = [queue EXCEPT ![m] = "dead"]
    /\ deadLetters' = deadLetters \cup {m}
    /\ UNCHANGED <<sent, receives, dbVars, pc, batch, accepting>>

OpenWallet(w) ==
    /\ w \notin opened
    /\ opened' = opened \cup {w}
    /\ UNCHANGED <<queueVars, deadLetters, inbox, rows, refused, pc, batch,
                   accepting>>

\* The wager of m also arrives by HTTP.
SubmitByHttp(m) ==
    /\ m \notin Malformed /\ HasWallet(m)
    /\ rows[KeyOf(m)] = None
    /\ rows' = [rows EXCEPT ![KeyOf(m)] = Row(m, "DECIDED")]
    /\ UNCHANGED <<queueVars, deadLetters, opened, inbox, refused, pc, batch,
                   accepting>>

-----------------------------------------------------------------------------
Handles(c) == batch[c] # <<>>
Current(c) == Head(batch[c]).message

\* Where a message starts: what cannot be parsed goes straight to the DLQ.
Start(m) == IF m \in Malformed THEN "deadLetter" ELSE "submit"

(***************************************************************************)
(* ReceiveMessage hands out visible messages in the order they were sent;  *)
(* a wallet (the message group) with a message in flight is held back.     *)
(***************************************************************************)
Deliverable(m) ==
    /\ queue[m] = "visible" /\ receives[m] < MaxReceives
    /\ \A n \in Messages : WalletOf(n) = WalletOf(m) => queue[n] # "inflight"
SentBefore(n, m) ==
    \E i, j \in DOMAIN sent : i < j /\ sent[i] = n /\ sent[j] = m
Receive(c, received) ==
    /\ pc[c] = "idle" /\ accepting[c]
    /\ IsFiniteSet(received) /\ Cardinality(received) \in 1..MaxBatch
    /\ \A m \in received :
          /\ Deliverable(m)
          /\ \A n \in Messages \ received :
                WalletOf(n) = WalletOf(m) /\ queue[n] = "visible"
                    => ~SentBefore(n, m)
    /\ queue' = [m \in Messages |-> IF m \in received THEN "inflight" ELSE queue[m]]
    /\ receives' = [m \in Messages |->
                        IF m \in received THEN receives[m] + 1 ELSE receives[m]]
    /\ \E order \in SetToSeqs(received) :
          /\ \A i, j \in DOMAIN order : i < j => SentBefore(order[i], order[j])
          /\ batch' = [batch EXCEPT ![c] =
                [i \in DOMAIN order |-> [message |-> order[i],
                                         receipt |-> receives'[order[i]]]]]
          /\ pc' = [pc EXCEPT ![c] = Start(order[1])]
    /\ UNCHANGED <<sent, deadLetters, dbVars, accepting>>

\* A shutdown that forgets the loop but not what it holds, and a loop that
\* retries the message in hand for ever.
AdvanceAndKeep(c) ==
    /\ pc' = [pc EXCEPT ![c] = "idle"]
    /\ UNCHANGED batch
AdvanceNever(c) ==
    /\ pc' = [pc EXCEPT ![c] = Start(Current(c))]
    /\ UNCHANGED batch

(***************************************************************************)
(* The consumer is done with a message, by success or by an exception, and *)
(* goes on with the rest of its batch; once it is shutting down it leaves  *)
(* the rest to be delivered again.                                         *)
(***************************************************************************)
Advance(c) ==
    LET rest == IF accepting[c] THEN Tail(batch[c]) ELSE <<>>
    IN  /\ batch' = [batch EXCEPT ![c] = rest]
        /\ pc' = [pc EXCEPT ![c] =
              IF rest = <<>> THEN "idle" ELSE Start(Head(rest).message)]
Go(c, activity) ==
    /\ pc' = [pc EXCEPT ![c] = activity]
    /\ UNCHANGED batch

\* The database transaction of inbox row and wager committed.
SubmitCommits(c) ==
    LET m == Current(c)
    IN  /\ pc[c] = "submit"
        /\ \/ Processed(m) /\ UNCHANGED <<inbox, rows>>
           \/ /\ ~Processed(m)
              /\ \/ Recorded(m) /\ UNCHANGED rows
                 \/ /\ rows[KeyOf(m)] = None /\ HasWallet(m)
                    /\ rows' = [rows EXCEPT ![KeyOf(m)] = Row(m, "DECIDED")]
              /\ inbox' = InboxWith(m)
        /\ Go(c, "acknowledge")
        /\ UNCHANGED <<queueVars, deadLetters, opened, refused, accepting>>

\* A refusal whose inbox row is not made terminal.
SubmitRefusedUnmarked(c) ==
    LET m == Current(c)
    IN  /\ pc[c] = "submit" /\ ~Processed(m)
        /\ (rows[KeyOf(m)] = None /\ ~HasWallet(m)) \/ UsedByAnother(m)
        /\ refused' = refused \cup {m}
        /\ Go(c, "deadLetter")
        /\ UNCHANGED <<queueVars, deadLetters, opened, inbox, rows, accepting>>

\* It was rolled back by a refusal: the key was used with another payload, or
\* its wallet does not exist, which stands for everything the use case refuses
\* of a new wager (an amount, a player, a kind): it may never be opened.
SubmitRefused(c) ==
    LET m == Current(c)
    IN  /\ pc[c] = "submit" /\ ~Processed(m)
        /\ (rows[KeyOf(m)] = None /\ ~HasWallet(m)) \/ UsedByAnother(m)
        /\ refused' = refused \cup {m}
        /\ Go(c, "markTerminal")
        /\ UNCHANGED <<queueVars, deadLetters, opened, inbox, rows, accepting>>

\* It was rolled back by an SQL error that is classified as permanent.
SubmitBreaks(c) ==
    /\ pc[c] = "submit" /\ Current(c) \in Breaking
    /\ Go(c, "markFailed")
    /\ UNCHANGED <<queueVars, deadLetters, dbVars, accepting>>

\* An exception that is swallowed: the message is acknowledged.
FailsAcknowledged(c) ==
    /\ pc[c] \in {"submit", "markTerminal", "markFailed"}
    /\ Go(c, "acknowledge")
    /\ UNCHANGED <<queueVars, deadLetters, dbVars, accepting>>

\* An exception that is not handled: the message is left to be redelivered.
Fails(c) ==
    /\ pc[c] \in {"submit", "markTerminal", "markFailed"}
    /\ Advance(c)
    /\ UNCHANGED <<queueVars, deadLetters, dbVars, accepting>>

\* persistTerminalInbox.
MarkTerminal(c) ==
    /\ pc[c] = "markTerminal"
    /\ inbox' = InboxWith(Current(c))
    /\ Go(c, "deadLetter")
    /\ UNCHANGED <<queueVars, deadLetters, opened, rows, refused, accepting>>

\* persistFailedTransaction without the look for an existing row.
MarkFailedOverwrites(c) ==
    LET m == Current(c)
    IN  /\ pc[c] = "markFailed" /\ HasWallet(m)
        /\ rows' = [rows EXCEPT ![KeyOf(m)] = Row(m, "FAILED")]
        /\ inbox' = InboxWith(m)
        /\ Go(c, "deadLetter")
        /\ UNCHANGED <<queueVars, deadLetters, opened, refused, accepting>>

\* persistFailedTransaction that gives up, and commits, without the wallet.
MarkFailedWithoutWallet(c) ==
    LET m == Current(c)
    IN  /\ pc[c] = "markFailed"
        /\ IF rows[KeyOf(m)] # None \/ ~HasWallet(m) THEN UNCHANGED rows
           ELSE rows' = [rows EXCEPT ![KeyOf(m)] = Row(m, "FAILED")]
        /\ inbox' = InboxWith(m)
        /\ Go(c, "deadLetter")
        /\ UNCHANGED <<queueVars, deadLetters, opened, refused, accepting>>

\* persistFailedTransaction.
MarkFailed(c) ==
    LET m == Current(c)
    IN  /\ pc[c] = "markFailed"
        /\ \/ rows[KeyOf(m)] # None /\ UNCHANGED rows
           \/ /\ rows[KeyOf(m)] = None /\ HasWallet(m)
              /\ rows' = [rows EXCEPT ![KeyOf(m)] = Row(m, "FAILED")]
        /\ inbox' = InboxWith(m)
        /\ Go(c, "deadLetter")
        /\ UNCHANGED <<queueVars, deadLetters, opened, refused, accepting>>

\* moveToDeadLetterQueue: the send, of which the answer may be lost, ...
DeadLetter(c) ==
    /\ pc[c] = "deadLetter"
    /\ \/ deadLetters' = deadLetters \cup {Current(c)} /\ Go(c, "remove")
       \/ deadLetters' \in {deadLetters, deadLetters \cup {Current(c)}} /\ Advance(c)
    /\ UNCHANGED <<queueVars, dbVars, accepting>>

(***************************************************************************)
(* ... and DeleteMessage, which also acknowledges what was committed.  It  *)
(* removes the message when the receipt is the last one and still valid;   *)
(* with an older receipt, or without an answer, it may or may not.         *)
(***************************************************************************)
Delete(c) ==
    LET m == Current(c)
        removed == [queue EXCEPT ![m] = "deleted"]
        valid == queue[m] = "inflight" /\ Head(batch[c]).receipt = receives[m]
    IN  /\ pc[c] \in {"acknowledge", "remove"}
        /\ IF queue[m] \in {"visible", "inflight"}
           THEN queue' \in {removed} \cup (IF valid THEN {} ELSE {queue})
           ELSE UNCHANGED queue
        /\ Advance(c)
        /\ UNCHANGED <<sent, receives, deadLetters, dbVars, accepting>>
DeleteFails(c) ==
    /\ pc[c] \in {"acknowledge", "remove"}
    /\ Advance(c)
    /\ UNCHANGED <<queueVars, deadLetters, dbVars, accepting>>

\* The process is killed; what it had received becomes visible again.
Crash(c) ==
    /\ Handles(c)
    /\ pc' = [pc EXCEPT ![c] = "idle"]
    /\ batch' = [batch EXCEPT ![c] = <<>>]
    /\ accepting' = [accepting EXCEPT ![c] = TRUE]
    /\ UNCHANGED <<queueVars, deadLetters, dbVars>>

\* beforeApplicationShutdown waits for the message in hand; a new process
\* takes over.
Shutdown(c) ==
    /\ accepting[c] /\ Handles(c)
    /\ accepting' = [accepting EXCEPT ![c] = FALSE]
    /\ UNCHANGED <<queueVars, deadLetters, dbVars, pc, batch>>
Restart(c) ==
    /\ ~accepting[c] /\ pc[c] = "idle"
    /\ accepting' = [accepting EXCEPT ![c] = TRUE]
    /\ UNCHANGED <<queueVars, deadLetters, dbVars, pc, batch>>

Consume(c) ==
    \/ SubmitCommits(c) \/ SubmitRefused(c) \/ SubmitBreaks(c) \/ Fails(c)
    \/ MarkTerminal(c) \/ MarkFailed(c) \/ DeadLetter(c)
    \/ Delete(c) \/ DeleteFails(c)

Next ==
    \/ \E m \in Messages : Send(m)
    \/ \E m \in Messages : Expire(m)
    \/ \E m \in Messages : Redrive(m)
    \/ \E w \in LateWallets : OpenWallet(w)
    \/ \E m \in Messages : SubmitByHttp(m)
    \/ \E c \in Consumers, received \in SUBSET Messages : Receive(c, received)
    \/ \E c \in Consumers : SubmitCommits(c)
    \/ \E c \in Consumers : SubmitRefused(c)
    \/ \E c \in Consumers : SubmitBreaks(c)
    \/ \E c \in Consumers : Fails(c)
    \/ \E c \in Consumers : MarkTerminal(c)
    \/ \E c \in Consumers : MarkFailed(c)
    \/ \E c \in Consumers : DeadLetter(c)
    \/ \E c \in Consumers : Delete(c)
    \/ \E c \in Consumers : DeleteFails(c)
    \/ \E c \in Consumers : Crash(c)
    \/ \E c \in Consumers : Shutdown(c)
    \/ \E c \in Consumers : Restart(c)

(***************************************************************************)
(* The consumer loop never stops polling and SQS answers it; visibility    *)
(* timeouts end; a process that was stopped is started again.  A message   *)
(* may become deliverable only between other receptions: strong fairness.  *)
(***************************************************************************)
Fairness ==
    /\ \A c \in Consumers : WF_vars(Consume(c)) /\ WF_vars(Restart(c))
    /\ \A m \in Messages : WF_vars(Expire(m)) /\ WF_vars(Redrive(m))
    /\ \A m \in Messages :
          SF_vars(\E c \in Consumers, received \in SUBSET Messages :
                      m \in received /\ Receive(c, received))

Spec == Init /\ [][Next]_vars /\ Fairness

-----------------------------------------------------------------------------
\* Type invariant of the consumer, the queue and the rows it writes.
TypeOK ==
    /\ queue \in [Messages -> Places]
    /\ receives \in [Messages -> 0..MaxReceives]
    /\ deadLetters \subseteq Messages
    /\ inbox \subseteq Messages /\ refused \subseteq Messages
    /\ \A m, n \in inbox : IdOf(m) = IdOf(n) => m = n
    /\ rows \in [WagerKeys -> RowType \cup {None}]
    /\ pc \in [Consumers -> Activities]
    /\ batch \in [Consumers -> Seq(ReceivedType)]
    /\ accepting \in [Consumers -> BOOLEAN]
    /\ \A c \in Consumers : Handles(c) <=> pc[c] # "idle"

(***************************************************************************)
(* Acknowledgement only after the commit.  A message that was removed from *)
(* the queue and is no dead letter was parsed, and its id is in the inbox  *)
(* with the body of a message whose wager is recorded, with its payload,   *)
(* as DECIDED or FAILED.  The only others are those whose way to the DLQ   *)
(* was cut off after their inbox row was made terminal (DeadLetterLoss):   *)
(* what the use case refused, and what broke on a key of another wager.    *)
(***************************************************************************)
Accounted(n) ==
    \/ Recorded(n)
    \/ n \in refused
    \/ n \in Breaking /\ UsedByAnother(n)
AcknowledgedLeavesTrace ==
    \A m \in Messages : queue[m] = "deleted" /\ m \notin deadLetters =>
        /\ m \notin Malformed
        /\ \E n \in inbox : IdOf(n) = IdOf(m) /\ Accounted(n)

(***************************************************************************)
(* A dead letter has a reason the database knows of: either the queue gave *)
(* up after MaxReceives deliveries, or the message could not be parsed, or *)
(* its inbox row was made terminal before it was sent.                     *)
(***************************************************************************)
DeadLettersAfterPersistence ==
    \A m \in deadLetters :
        \/ queue[m] = "dead"
        \/ m \in Malformed
        \/ Processed(m)

(***************************************************************************)
(* A row of a wager is written once: a failure found later, by another     *)
(* delivery of the wager, does not replace a decision, nor a decision a    *)
(* failure.                                                                *)
(***************************************************************************)
RowsAreFinal == [][\A k \in WagerKeys : rows[k] # None => rows'[k] = rows[k]]_vars

(***************************************************************************)
(* A message does not stay for ever: whatever fails, and however often it  *)
(* is delivered to a consumer that dies, it is acknowledged or becomes a   *)
(* dead letter, and does not hold the later messages of its wallet back.   *)
(***************************************************************************)
EveryMessageLeaves ==
    \A m \in Messages :
        queue[m] = "visible" ~> queue[m] \in {"deleted", "dead"}

(***************************************************************************)
(* ARCHITECTURE.md, "Inbox, ACK e redelivery": an invalid message goes to  *)
(* the DLQ and a FAILED one is sent there.  A message that left the queue  *)
(* without a decision is then a dead letter.                               *)
(***************************************************************************)
UndecidedAreDeadLetters ==
    \A m \in Messages :
        queue[m] = "deleted" /\ (rows[KeyOf(m)] = None \/ rows[KeyOf(m)].status = "FAILED")
            => m \in deadLetters
=============================================================================
