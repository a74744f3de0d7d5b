------------------------- MODULE WagerConsumerProofs -------------------------
(***************************************************************************)
(* Proofs about WagerConsumer, for any number of consumers, messages and   *)
(* deliveries.  The inductive invariant follows a message through the      *)
(* steps of the consumer that handles it: what was committed for it before *)
(* it is sent to the dead-letter queue or acknowledged.                    *)
(***************************************************************************)
EXTENDS WagerConsumer, SequenceTheorems, TLAPS

\* What a consumer hands to the use case was parsed.
HandledIsWellFormed ==
    \A c \in Consumers :
        pc[c] \in {"submit", "acknowledge", "markTerminal", "markFailed"}
            => Current(c) \notin Malformed

\* A message goes to the dead-letter queue after its inbox row is terminal, or
\* because it has none.
SentAfterPersistence ==
    \A c \in Consumers :
        pc[c] \in {"deadLetter", "remove"}
            => Current(c) \in Malformed \/ Processed(Current(c))

ConsumerInv ==
    /\ TypeOK
    /\ HandledIsWellFormed
    /\ SentAfterPersistence
    /\ DeadLettersAfterPersistence

-----------------------------------------------------------------------------
\* A consumer that does something has a message in hand.
LEMMA CurrentTyped ==
    ASSUME TypeOK, NEW c \in Consumers, pc[c] # "idle"
    PROVE  /\ batch[c] \in Seq(ReceivedType) /\ batch[c] # <<>>
           /\ Current(c) \in Messages
           /\ KeyOf(Current(c)) \in WagerKeys
<1>1. batch[c] \in Seq(ReceivedType) /\ batch[c] # <<>>
  BY DEF TypeOK, Handles
<1>2. Head(batch[c]) \in ReceivedType
  BY <1>1
<1> QED BY <1>1, <1>2 DEF Current, ReceivedType, WagerKeys

LEMMA RowTyped ==
    ASSUME NEW m \in Messages, NEW status \in {"DECIDED", "FAILED"}
    PROVE  Row(m, status) \in RowType /\ Row(m, status) # None
BY NoRowAssumption DEF Row, RowType

\* A message starts with the use case, or with the dead-letter queue.
LEMMA StartTyped ==
    ASSUME NEW m
    PROVE  /\ Start(m) \in Activities /\ Start(m) # "idle"
           /\ Start(m) \in {"submit", "deadLetter"}
           /\ Start(m) = "submit" <=> m \notin Malformed
BY DEF Start, Activities

\* The types that a step of one consumer concerns.
ConsumersTyped ==
    /\ pc \in [Consumers -> Activities]
    /\ batch \in [Consumers -> Seq(ReceivedType)]
    /\ accepting \in [Consumers -> BOOLEAN]
    /\ \A c \in Consumers : Handles(c) <=> pc[c] # "idle"

(***************************************************************************)
(* The two ways a step moves the consumer on: to another activity with the *)
(* same message, or to the next message or idleness.                       *)
(***************************************************************************)
LEMMA GoMoves ==
    ASSUME TypeOK, NEW c \in Consumers, pc[c] # "idle",
           NEW activity \in Activities \ {"idle"}, Go(c, activity),
           UNCHANGED accepting
    PROVE  /\ ConsumersTyped'
           /\ pc'[c] = activity /\ Current(c)' = Current(c)
           /\ \A d \in Consumers \ {c} : pc'[d] = pc[d] /\ Current(d)' = Current(d)
BY DEF TypeOK, Go, ConsumersTyped, Handles, Current

LEMMA AdvanceMoves ==
    ASSUME TypeOK, NEW c \in Consumers, pc[c] # "idle", Advance(c),
           UNCHANGED accepting
    PROVE  /\ ConsumersTyped'
           /\ pc'[c] \in {"idle", "submit", "deadLetter"}
           /\ pc'[c] = "submit" => Current(c)' \notin Malformed
           /\ pc'[c] = "deadLetter" => Current(c)' \in Malformed
           /\ \A d \in Consumers \ {c} : pc'[d] = pc[d] /\ Current(d)' = Current(d)
<1> DEFINE rest == IF accepting[c] THEN Tail(batch[c]) ELSE <<>>
<1>1. rest \in Seq(ReceivedType)
  BY CurrentTyped
<1>2. /\ batch' = [batch EXCEPT ![c] = rest]
      /\ pc' = [pc EXCEPT ![c] =
            IF rest = <<>> THEN "idle" ELSE Start(Head(rest).message)]
  BY DEF Advance
<1> HIDE DEF rest
<1>3. /\ batch' \in [Consumers -> Seq(ReceivedType)]
      /\ batch'[c] = rest
      /\ \A d \in Consumers \ {c} : batch'[d] = batch[d]
  BY <1>1, <1>2 DEF TypeOK
<1>4. /\ pc' \in [Consumers -> Activities]
      /\ pc'[c] = IF rest = <<>> THEN "idle" ELSE Start(Head(rest).message)
      /\ \A d \in Consumers \ {c} : pc'[d] = pc[d]
  BY <1>2, StartTyped DEF TypeOK, Activities
<1>5. rest = <<>> <=> pc'[c] = "idle"
  BY <1>4, StartTyped
<1>6. \A d \in Consumers : Handles(d)' <=> pc'[d] # "idle"
  BY <1>3, <1>4, <1>5 DEF TypeOK, Handles
<1>7. rest # <<>> => /\ pc'[c] = Start(Current(c)')
                     /\ pc'[c] \in {"submit", "deadLetter"}
                     /\ pc'[c] = "submit" <=> Current(c)' \notin Malformed
  BY <1>3, <1>4, StartTyped DEF Current
<1> QED
  BY <1>3, <1>4, <1>5, <1>6, <1>7 DEF ConsumersTyped, TypeOK, Current

-----------------------------------------------------------------------------
\* The inbox holds at most one body for each id.
InboxSound ==
    /\ inbox \subseteq Messages /\ refused \subseteq Messages
    /\ \A m, n \in inbox : IdOf(m) = IdOf(n) => m = n

LEMMA InboxGrows ==
    ASSUME InboxSound, NEW m \in Messages, NEW S, S = InboxWith(m)
    PROVE  /\ inbox \subseteq S /\ S \subseteq Messages
           /\ \A k, n \in S : IdOf(k) = IdOf(n) => k = n
           /\ \E n \in S : IdOf(n) = IdOf(m)
           /\ \A n \in S : n \in inbox \/ n = m
BY DEF InboxSound, InboxWith, Processed

\* What is processed stays so.
LEMMA ProcessedStays ==
    ASSUME inbox \subseteq inbox', NEW m, Processed(m)
    PROVE  \E n \in inbox' : IdOf(n) = IdOf(m)
BY DEF Processed

(***************************************************************************)
(* A step that keeps the types, forgets no inbox row and brings no dead    *)
(* letter back keeps the invariant, when each consumer it moves is where   *)
(* its message may be.                                                     *)
(***************************************************************************)
MayBeThere(c) ==
    /\ pc[c] \in {"submit", "acknowledge", "markTerminal", "markFailed"}
          => Current(c) \notin Malformed
    /\ pc[c] \in {"deadLetter", "remove"}
          => Current(c) \in Malformed \/ Processed(Current(c))

LEMMA StepKeepsInv ==
    ASSUME ConsumerInv, ConsumersTyped',
           queue' \in [Messages -> Places],
           receives' \in [Messages -> 0..MaxReceives],
           rows' \in [WagerKeys -> RowType \cup {None}],
           \/ UNCHANGED <<inbox, refused>>
           \/ inbox \subseteq inbox' /\ InboxSound',
           deadLetters' \subseteq Messages,
           \A m \in Messages : queue[m] = "dead" => queue'[m] = "dead",
           \A m \in deadLetters' :
              m \in deadLetters \/ queue'[m] = "dead" \/ m \in Malformed
                                \/ Processed(m)',
           \A c \in Consumers :
              \/ pc'[c] = pc[c] /\ Current(c)' = Current(c)
              \/ MayBeThere(c)'
    PROVE  ConsumerInv'
<1>1. TypeOK'
  BY DEF ConsumerInv, TypeOK, ConsumersTyped, InboxSound, IdOf
<1>2. \A m : Processed(m) => Processed(m)'
  BY DEF Processed, IdOf
<1>3. ASSUME NEW c \in Consumers PROVE MayBeThere(c)'
  <2>1. CASE pc'[c] = pc[c] /\ Current(c)' = Current(c)
    <3>1. MayBeThere(c)
      BY DEF ConsumerInv, HandledIsWellFormed, SentAfterPersistence, MayBeThere
    <3>2. Processed(Current(c)) => Processed(Current(c))'
      BY <2>1, <1>2 DEF Processed, IdOf
    <3> QED BY <2>1, <3>1, <3>2 DEF MayBeThere
  <2> QED BY <2>1
<1>4. DeadLettersAfterPersistence'
  BY <1>2 DEF ConsumerInv, TypeOK, DeadLettersAfterPersistence
<1> QED
  BY <1>1, <1>3, <1>4
  DEF ConsumerInv, HandledIsWellFormed, SentAfterPersistence, MayBeThere

\* What a consumer does with its message, apart from where it goes next.
LEMMA ConsumerTablesTyped ==
    ASSUME ConsumerInv
    PROVE  /\ queue \in [Messages -> Places]
           /\ receives \in [Messages -> 0..MaxReceives]
           /\ rows \in [WagerKeys -> RowType \cup {None}]
           /\ InboxSound
           /\ deadLetters \subseteq Messages
BY DEF ConsumerInv, TypeOK, InboxSound

LEMMA GoKeepsInv ==
    ASSUME ConsumerInv, NEW c \in Consumers, pc[c] # "idle",
           NEW activity \in Activities \ {"idle"}, Go(c, activity),
           UNCHANGED <<queueVars, accepting>>,
           rows' \in [WagerKeys -> RowType \cup {None}],
           inbox' \in {inbox, InboxWith(Current(c))},
           refused' \in {refused, refused \cup {Current(c)}},
           deadLetters' \in {deadLetters, deadLetters \cup {Current(c)}},
           deadLetters' # deadLetters => pc[c] = "deadLetter",
           activity \in {"acknowledge", "markTerminal", "markFailed"}
              => pc[c] = "submit",
           activity = "deadLetter" => inbox' = InboxWith(Current(c)),
           activity = "remove" => pc[c] = "deadLetter",
           activity # "submit"
    PROVE  ConsumerInv'
<1>1. TypeOK /\ Current(c) \in Messages
  BY CurrentTyped DEF ConsumerInv
<1>2. /\ ConsumersTyped'
      /\ pc'[c] = activity /\ Current(c)' = Current(c)
      /\ \A d \in Consumers \ {c} : pc'[d] = pc[d] /\ Current(d)' = Current(d)
  BY <1>1, GoMoves
<1>3. /\ pc[c] = "submit" => Current(c) \notin Malformed
      /\ pc[c] = "deadLetter"
            => Current(c) \in Malformed \/ Processed(Current(c))
  BY DEF ConsumerInv, HandledIsWellFormed, SentAfterPersistence
<1>4. /\ inbox \subseteq inbox'
      /\ InboxSound'
      /\ activity = "deadLetter" => \E n \in inbox' : IdOf(n) = IdOf(Current(c))
  BY <1>1, InboxGrows, ConsumerTablesTyped DEF InboxSound, IdOf
<1>5. Processed(Current(c)) => \E n \in inbox' : IdOf(n) = IdOf(Current(c))
  BY <1>4, ProcessedStays
<1>6. MayBeThere(c)'
  BY <1>2, <1>3, <1>4, <1>5 DEF MayBeThere, Processed, IdOf
<1>7. queue' = queue /\ receives' = receives
  BY DEF queueVars
<1>8. \A m \in deadLetters' :
         m \in deadLetters \/ m \in Malformed \/ Processed(m)'
  BY <1>3, <1>5 DEF Processed, IdOf
<1>9. deadLetters' \subseteq Messages
  BY <1>1, ConsumerTablesTyped
<1> QED
  BY <1>2, <1>4, <1>6, <1>7, <1>8, <1>9, ConsumerTablesTyped, StepKeepsInv

LEMMA AdvanceKeepsInv ==
    ASSUME ConsumerInv, NEW c \in Consumers, pc[c] # "idle", Advance(c),
           UNCHANGED <<receives, rows, inbox, refused, accepting>>,
           queue' \in {queue, [queue EXCEPT ![Current(c)] = "deleted"]},
           queue' # queue => queue[Current(c)] # "dead",
           deadLetters' \in {deadLetters, deadLetters \cup {Current(c)}},
           deadLetters' # deadLetters => pc[c] = "deadLetter"
    PROVE  ConsumerInv'
<1>1. TypeOK /\ Current(c) \in Messages
  BY CurrentTyped DEF ConsumerInv
<1>2. /\ ConsumersTyped'
      /\ MayBeThere(c)'
      /\ \A d \in Consumers \ {c} : pc'[d] = pc[d] /\ Current(d)' = Current(d)
  BY <1>1, AdvanceMoves DEF MayBeThere
<1>3. pc[c] = "deadLetter"
         => Current(c) \in Malformed \/ Processed(Current(c))
  BY DEF ConsumerInv, SentAfterPersistence
<1>4. \A m \in deadLetters' :
         m \in deadLetters \/ m \in Malformed \/ Processed(m)'
  BY <1>3 DEF Processed, IdOf
<1>5. /\ queue' \in [Messages -> Places]
      /\ \A m \in Messages : queue[m] = "dead" => queue'[m] = "dead"
  BY <1>1, ConsumerTablesTyped DEF Places
<1>6. deadLetters' \subseteq Messages
  BY <1>1, ConsumerTablesTyped
<1> QED
  BY <1>2, <1>4, <1>5, <1>6, ConsumerTablesTyped, StepKeepsInv

-----------------------------------------------------------------------------
(***************************************************************************)
(* The environment and the queue move no consumer but the one that         *)
(* receives.                                                               *)
(***************************************************************************)
LEMMA StillConsumers ==
    ASSUME ConsumerInv, UNCHANGED <<pc, batch, accepting>>
    PROVE  /\ ConsumersTyped'
           /\ \A c \in Consumers : pc'[c] = pc[c] /\ Current(c)' = Current(c)
BY DEF ConsumerInv, TypeOK, ConsumersTyped, Handles, Current

LEMMA EnvironmentKeepsInv ==
    ASSUME ConsumerInv,
           \/ \E m \in Messages : \/ Send(m) \/ Expire(m) \/ Redrive(m)
                                 \/ SubmitByHttp(m)
           \/ \E w \in LateWallets : OpenWallet(w)
    PROVE  ConsumerInv'
<1>1. ASSUME NEW m \in Messages, Send(m) \/ Expire(m) \/ Redrive(m)
      PROVE  ConsumerInv'
  <2>1. /\ UNCHANGED <<receives, rows, inbox, refused>>
        /\ UNCHANGED <<pc, batch, accepting>>
        /\ queue[m] # "dead"
        /\ \E place \in {"visible", "dead"} : queue' = [queue EXCEPT ![m] = place]
        /\ \/ deadLetters' = deadLetters
           \/ /\ deadLetters' = deadLetters \cup {m}
              /\ queue' = [queue EXCEPT ![m] = "dead"]
    BY <1>1 DEF Send, Expire, Redrive, dbVars
  <2>2. /\ queue' \in [Messages -> Places]
        /\ \A n \in Messages : queue[n] = "dead" => queue'[n] = "dead"
        /\ \A n \in deadLetters' : n \in deadLetters \/ queue'[n] = "dead"
        /\ deadLetters' \subseteq Messages
    BY <2>1, ConsumerTablesTyped DEF Places
  <2> QED BY <2>1, <2>2, StillConsumers, ConsumerTablesTyped, StepKeepsInv
<1>2. ASSUME NEW m \in Messages, SubmitByHttp(m)
      PROVE  ConsumerInv'
  <2>1. /\ UNCHANGED <<queue, receives, inbox, refused, deadLetters>>
        /\ UNCHANGED <<pc, batch, accepting>>
        /\ rows' = [rows EXCEPT ![KeyOf(m)] = Row(m, "DECIDED")]
    BY <1>2 DEF SubmitByHttp, queueVars
  <2>2. rows' \in [WagerKeys -> RowType \cup {None}]
    BY <2>1, RowTyped, ConsumerTablesTyped
  <2> QED BY <2>1, <2>2, StillConsumers, ConsumerTablesTyped, StepKeepsInv
<1>3. ASSUME NEW w \in LateWallets, OpenWallet(w)
      PROVE  ConsumerInv'
  <2>1. /\ UNCHANGED <<queue, receives, inbox, refused, deadLetters, rows>>
        /\ UNCHANGED <<pc, batch, accepting>>
    BY <1>3 DEF OpenWallet, queueVars
  <2> QED BY <2>1, StillConsumers, ConsumerTablesTyped, StepKeepsInv
<1> QED BY <1>1, <1>2, <1>3

\* A crash, a shutdown and a restart leave the tables and the queue alone.
LEMMA ProcessKeepsInv ==
    ASSUME ConsumerInv, NEW c \in Consumers,
           Crash(c) \/ Shutdown(c) \/ Restart(c)
    PROVE  ConsumerInv'
<1>1. UNCHANGED <<queue, receives, deadLetters, rows, inbox, refused>>
  BY DEF Crash, Shutdown, Restart, queueVars, dbVars
<1>2. CASE Crash(c)
  <2>1. /\ pc' = [pc EXCEPT ![c] = "idle"]
        /\ batch' = [batch EXCEPT ![c] = <<>>]
        /\ accepting' = [accepting EXCEPT ![c] = TRUE]
    BY <1>2 DEF Crash
  <2>2. ConsumersTyped'
    BY <2>1 DEF ConsumerInv, TypeOK, ConsumersTyped, Handles, Activities
  <2>3. /\ \A d \in Consumers \ {c} : pc'[d] = pc[d] /\ Current(d)' = Current(d)
        /\ MayBeThere(c)'
    BY <2>1 DEF ConsumerInv, TypeOK, Current, MayBeThere
  <2> QED BY <1>1, <2>2, <2>3, ConsumerTablesTyped, StepKeepsInv
<1>3. CASE Shutdown(c) \/ Restart(c)
  <2>1. /\ UNCHANGED <<pc, batch>>
        /\ accepting' \in [Consumers -> BOOLEAN]
    BY <1>3 DEF Shutdown, Restart, ConsumerInv, TypeOK
  <2>2. /\ ConsumersTyped'
        /\ \A d \in Consumers : pc'[d] = pc[d] /\ Current(d)' = Current(d)
    BY <2>1 DEF ConsumerInv, TypeOK, ConsumersTyped, Handles, Current
  <2> QED BY <1>1, <2>2, ConsumerTablesTyped, StepKeepsInv
<1> QED BY <1>2, <1>3

(***************************************************************************)
(* A reception: every message of the batch was visible and gets a receipt. *)
(***************************************************************************)
LEMMA ReceiveKeepsInv ==
    ASSUME ConsumerInv, NEW c \in Consumers, NEW received \in SUBSET Messages,
           Receive(c, received)
    PROVE  ConsumerInv'
<1>1. PICK order \in SetToSeqs(received) :
         /\ batch' = [batch EXCEPT ![c] =
               [i \in DOMAIN order |-> [message |-> order[i],
                                        receipt |-> receives'[order[i]]]]]
         /\ pc' = [pc EXCEPT ![c] = Start(order[1])]
  BY DEF Receive
<1>2. Cardinality(received) \in Nat \ {0}
  BY ConsumerAssumption DEF Receive
<1>3. PICK n \in Nat \ {0} : order \in [1..n -> received]
  BY <1>2 DEF SetToSeqs
<1>4. /\ receives' = [m \in Messages |->
                         IF m \in received THEN receives[m] + 1 ELSE receives[m]]
      /\ queue' = [m \in Messages |-> IF m \in received THEN "inflight" ELSE queue[m]]
      /\ \A m \in received : queue[m] = "visible" /\ receives[m] < MaxReceives
      /\ UNCHANGED <<deadLetters, inbox, refused, rows, accepting>>
  BY DEF Receive, Deliverable, dbVars
<1>5. receives' \in [Messages -> 0..MaxReceives]
  BY <1>4, ConsumerAssumption, ConsumerTablesTyped
<1>6. /\ queue' \in [Messages -> Places]
      /\ \A m \in Messages : queue[m] = "dead" => queue'[m] = "dead"
  BY <1>4, ConsumerTablesTyped DEF Places
<1> DEFINE items == [i \in DOMAIN order |-> [message |-> order[i],
                                             receipt |-> receives'[order[i]]]]
<1>7. DOMAIN order = 1..n /\ order[1] \in Messages
  BY <1>3
<1>8. \A i \in 1..n : [message |-> order[i], receipt |-> receives'[order[i]]]
                           \in ReceivedType
  BY <1>3, <1>5, ConsumerAssumption DEF ReceivedType
<1>9. /\ items \in Seq(ReceivedType)
      /\ items # <<>>
      /\ Head(items).message = order[1]
  <2>1. items \in [1..n -> ReceivedType]
    BY <1>7, <1>8
  <2>2. items \in Seq(ReceivedType) /\ Len(items) = n
    BY <2>1
  <2>3. items # <<>> /\ Head(items) = items[1]
    BY <2>2
  <2> QED BY <1>7, <2>2, <2>3
<1>10. batch' = [batch EXCEPT ![c] = items]
  BY <1>1
<1> HIDE DEF items
<1>11. /\ batch'[c] = items
       /\ pc'[c] = Start(order[1])
       /\ \A d \in Consumers \ {c} : batch'[d] = batch[d] /\ pc'[d] = pc[d]
       /\ pc' \in [Consumers -> Activities]
       /\ batch' \in [Consumers -> Seq(ReceivedType)]
  BY <1>1, <1>9, <1>10, StartTyped DEF ConsumerInv, TypeOK
<1>12. ConsumersTyped'
  BY <1>4, <1>9, <1>11, StartTyped DEF ConsumerInv, TypeOK, ConsumersTyped, Handles
<1>13. Current(c)' = order[1]
  BY <1>9, <1>11 DEF Current
<1>14. MayBeThere(c)'
  BY <1>11, <1>13, StartTyped DEF MayBeThere
<1>15. \A d \in Consumers \ {c} : pc'[d] = pc[d] /\ Current(d)' = Current(d)
  BY <1>11 DEF Current
<1> QED
  BY <1>4, <1>5, <1>6, <1>12, <1>14, <1>15, ConsumerTablesTyped, StepKeepsInv

-----------------------------------------------------------------------------
(***************************************************************************)
(* What the consumer does with the message in hand.                        *)
(***************************************************************************)
LEMMA ConsumeKeepsInv ==
    ASSUME ConsumerInv, NEW c \in Consumers, Consume(c)
    PROVE  ConsumerInv'
<1>1. pc[c] # "idle"
  BY DEF Consume, SubmitCommits, SubmitRefused, SubmitBreaks, Fails,
         MarkTerminal, MarkFailed, DeadLetter, Delete, DeleteFails
<1> DEFINE m == Current(c)
<1>2. m \in Messages /\ KeyOf(m) \in WagerKeys
  BY <1>1, CurrentTyped DEF ConsumerInv
<1>3. \A status \in {"DECIDED", "FAILED"} :
         [rows EXCEPT ![KeyOf(m)] = Row(m, status)]
            \in [WagerKeys -> RowType \cup {None}]
  BY <1>2, RowTyped, ConsumerTablesTyped
<1>4. CASE SubmitCommits(c)
  <2>1. /\ pc[c] = "submit" /\ Go(c, "acknowledge")
        /\ UNCHANGED <<queueVars, deadLetters, accepting>>
        /\ inbox' \in {inbox, InboxWith(m)} /\ refused' = refused
        /\ rows' \in {rows, [rows EXCEPT ![KeyOf(m)] = Row(m, "DECIDED")]}
    BY <1>4 DEF SubmitCommits
  <2> QED BY <1>1, <1>3, <2>1, ConsumerTablesTyped, GoKeepsInv DEF Activities
<1>5. CASE SubmitRefused(c) \/ SubmitBreaks(c)
  <2>1. /\ pc[c] = "submit"
        /\ Go(c, "markTerminal") \/ Go(c, "markFailed")
        /\ UNCHANGED <<queueVars, deadLetters, inbox, rows, accepting>>
        /\ refused' \in {refused, refused \cup {m}}
    BY <1>5 DEF SubmitRefused, SubmitBreaks, dbVars
  <2> QED BY <1>1, <2>1, ConsumerTablesTyped, GoKeepsInv DEF Activities
<1>6. CASE MarkTerminal(c) \/ MarkFailed(c)
  <2>1. /\ Go(c, "deadLetter")
        /\ UNCHANGED <<queueVars, deadLetters, accepting>>
        /\ inbox' = InboxWith(m) /\ refused' = refused
        /\ rows' \in {rows, [rows EXCEPT ![KeyOf(m)] = Row(m, "FAILED")]}
    BY <1>6 DEF MarkTerminal, MarkFailed
  <2> QED BY <1>1, <1>3, <2>1, ConsumerTablesTyped, GoKeepsInv DEF Activities
<1>7. CASE DeadLetter(c)
  <2>1. /\ pc[c] = "deadLetter"
        /\ UNCHANGED <<queueVars, rows, inbox, refused, accepting>>
        /\ deadLetters' \in {deadLetters, deadLetters \cup {m}}
        /\ Go(c, "remove") \/ Advance(c)
    BY <1>7 DEF DeadLetter, dbVars
  <2>2. CASE Go(c, "remove")
    BY <1>1, <2>1, <2>2, ConsumerTablesTyped, GoKeepsInv DEF Activities
  <2>3. CASE Advance(c)
    BY <1>1, <2>1, <2>3, AdvanceKeepsInv DEF queueVars
  <2> QED BY <2>1, <2>2, <2>3
<1>8. CASE Fails(c) \/ DeleteFails(c)
  <2>1. /\ Advance(c)
        /\ UNCHANGED <<queue, receives, deadLetters, rows, inbox, refused,
                       accepting>>
    BY <1>8 DEF Fails, DeleteFails, queueVars, dbVars
  <2> QED BY <1>1, <2>1, AdvanceKeepsInv
<1>9. CASE Delete(c)
  <2>1. /\ Advance(c)
        /\ UNCHANGED <<receives, deadLetters, rows, inbox, refused, accepting>>
        /\ queue' \in {queue, [queue EXCEPT ![m] = "deleted"]}
        /\ queue' # queue => queue[m] # "dead"
    BY <1>9 DEF Delete, dbVars
  <2> QED BY <1>1, <2>1, AdvanceKeepsInv
<1> QED BY <1>4, <1>5, <1>6, <1>7, <1>8, <1>9 DEF Consume

LEMMA ConsumerInvInit == Init => ConsumerInv
<1> SUFFICES ASSUME Init PROVE ConsumerInv
  OBVIOUS
<1>1. TypeOK
  BY ConsumerAssumption DEF Init, TypeOK, Places, Activities, Handles
<1> QED
  BY <1>1 DEF Init, ConsumerInv, HandledIsWellFormed, SentAfterPersistence,
              DeadLettersAfterPersistence

LEMMA ConsumerInvStep == ConsumerInv /\ [Next]_vars => ConsumerInv'
<1> SUFFICES ASSUME ConsumerInv, [Next]_vars PROVE ConsumerInv'
  OBVIOUS
<1>1. CASE UNCHANGED vars
  BY <1>1, StillConsumers, ConsumerTablesTyped, StepKeepsInv DEF vars
<1>2. CASE Next
  <2>1. \/ \E m \in Messages : Send(m) \/ Expire(m) \/ Redrive(m) \/ SubmitByHttp(m)
        \/ \E w \in LateWallets : OpenWallet(w)
        \/ \E c \in Consumers, received \in SUBSET Messages : Receive(c, received)
        \/ \E c \in Consumers : Consume(c)
        \/ \E c \in Consumers : Crash(c) \/ Shutdown(c) \/ Restart(c)
    BY <1>2 DEF Next, Consume
  <2> QED
    BY <2>1, EnvironmentKeepsInv, ReceiveKeepsInv, ConsumeKeepsInv, ProcessKeepsInv
<1> QED BY <1>1, <1>2

(***************************************************************************)
(* The queue, the tables and the consumers keep their types: a consumer    *)
(* that does something has a message in hand, and nothing is delivered     *)
(* more than MaxReceives times.                                            *)
(***************************************************************************)
THEOREM ConsumerIsTyped == Spec => []TypeOK
<1>1. ConsumerInv => TypeOK
  BY DEF ConsumerInv
<1> QED BY <1>1, ConsumerInvInit, ConsumerInvStep, PTL DEF Spec

(***************************************************************************)
(* However many consumers and redeliveries there are and wherever they     *)
(* crash, a dead letter is one the queue gave up, one that could not be    *)
(* parsed, or one whose inbox row was made terminal first.                 *)
(***************************************************************************)
THEOREM DeadLettersArePersisted == Spec => []DeadLettersAfterPersistence
<1>1. ConsumerInv => DeadLettersAfterPersistence
  BY DEF ConsumerInv
<1> QED BY <1>1, ConsumerInvInit, ConsumerInvStep, PTL DEF Spec

\* What each of the three writers of rows does to them.
LEMMA RowsWritten ==
    ASSUME ConsumerInv, [Next]_vars
    PROVE  \/ rows' = rows
           \/ \E k \in WagerKeys, row \in RowType :
                 rows[k] = None /\ rows' = [rows EXCEPT ![k] = row]
<1>1. CASE UNCHANGED vars
  BY <1>1 DEF vars
<1>2. CASE \E m \in Messages : SubmitByHttp(m)
  <2>1. PICK m \in Messages : SubmitByHttp(m)
    BY <1>2
  <2>2. KeyOf(m) \in WagerKeys /\ Row(m, "DECIDED") \in RowType
    BY RowTyped DEF WagerKeys
  <2> QED BY <2>1, <2>2 DEF SubmitByHttp
<1>3. CASE \E c \in Consumers : SubmitCommits(c) \/ MarkFailed(c)
  <2>1. PICK c \in Consumers : SubmitCommits(c) \/ MarkFailed(c)
    BY <1>3
  <2> DEFINE m == Current(c)
  <2>2. m \in Messages /\ KeyOf(m) \in WagerKeys
    BY <2>1, CurrentTyped DEF ConsumerInv, SubmitCommits, MarkFailed
  <2>3. \A status \in {"DECIDED", "FAILED"} : Row(m, status) \in RowType
    BY <2>2, RowTyped
  <2>4. \/ rows' = rows
        \/ /\ rows[KeyOf(m)] = None
           /\ \E status \in {"DECIDED", "FAILED"} :
                 rows' = [rows EXCEPT ![KeyOf(m)] = Row(m, status)]
    BY <2>1 DEF SubmitCommits, MarkFailed
  <2> QED BY <2>2, <2>3, <2>4
<1>4. CASE /\ Next
           /\ ~\E m \in Messages : SubmitByHttp(m)
           /\ ~\E c \in Consumers : SubmitCommits(c) \/ MarkFailed(c)
  BY <1>4 DEF Next, Send, Expire, Redrive, OpenWallet, Receive, SubmitRefused,
              SubmitBreaks, Fails, MarkTerminal, DeadLetter, Delete, DeleteFails,
              Crash, Shutdown, Restart, dbVars
<1> QED BY <1>1, <1>2, <1>3, <1>4

(***************************************************************************)
(* A row is written once, by whichever of HTTP, a delivery or the failure  *)
(* path comes first: no later delivery replaces it.                        *)
(***************************************************************************)
THEOREM RowsAreWrittenOnce == Spec => RowsAreFinal
<1>1. ConsumerInv /\ [Next]_vars
         => [\A k \in WagerKeys : rows[k] # None => rows'[k] = rows[k]]_vars
  <2> SUFFICES ASSUME ConsumerInv, [Next]_vars,
                      NEW k \in WagerKeys, rows[k] # None
               PROVE  rows'[k] = rows[k]
    OBVIOUS
  <2> QED BY RowsWritten, ConsumerTablesTyped
<1> QED BY <1>1, ConsumerInvInit, ConsumerInvStep, PTL DEF Spec, RowsAreFinal

-----------------------------------------------------------------------------
(***************************************************************************)
(* Nothing is acknowledged without a trace.  An inbox row is what stands   *)
(* between a commit and the acknowledgement: a later delivery, or another  *)
(* message with the same id, is acknowledged because the row is there, so  *)
(* the row itself has to be accounted for.                                 *)
(***************************************************************************)
InboxTells == \A n \in inbox : n \notin Malformed /\ Accounted(n)

\* What is true of the message in hand before each of the steps that end in
\* its removal.
HasTrace(c) ==
    /\ pc[c] = "markTerminal" => Current(c) \in refused
    /\ pc[c] = "markFailed" => Current(c) \in Breaking
    /\ pc[c] = "acknowledge" => Processed(Current(c))
    /\ pc[c] = "remove" => Current(c) \in deadLetters

TraceInv ==
    /\ InboxTells
    /\ \A c \in Consumers : HasTrace(c)
    /\ \A m \in Messages : queue[m] = "deleted" =>
          \/ m \in deadLetters
          \/ m \notin Malformed /\ Processed(m)

LEMMA TraceInvInit == Init => TraceInv
BY DEF Init, TraceInv, InboxTells, HasTrace

\* Rows and refusals are final, so a message stays accounted for.
LEMMA AccountedStays ==
    ASSUME \A k \in WagerKeys : rows[k] # None => rows'[k] = rows[k],
           refused \subseteq refused',
           NEW m \in Messages, Accounted(m)
    PROVE  Accounted(m)'
<1>1. KeyOf(m) \in WagerKeys
  BY DEF WagerKeys
<1> QED BY <1>1 DEF Accounted, Recorded, UsedByAnother, KeyOf

(***************************************************************************)
(* A step keeps the trace when it forgets nothing, writes the body of a    *)
(* message to the inbox only if that is accounted for, and deletes only    *)
(* what has a trace.                                                       *)
(***************************************************************************)
LEMMA StepKeepsTrace ==
    ASSUME ConsumerInv, TraceInv,
           \A k \in WagerKeys : rows[k] # None => rows'[k] = rows[k],
           refused \subseteq refused', deadLetters \subseteq deadLetters',
           inbox \subseteq inbox',
           \A n \in inbox' : n \in inbox \/ (n \notin Malformed /\ Accounted(n)'),
           \A c \in Consumers :
              \/ pc'[c] = pc[c] /\ Current(c)' = Current(c)
              \/ HasTrace(c)',
           \A m \in Messages : queue'[m] = "deleted" =>
              \/ queue[m] = "deleted" \/ m \in deadLetters
              \/ m \notin Malformed /\ Processed(m)
    PROVE  TraceInv'
<1>1. InboxTells'
  <2> SUFFICES ASSUME NEW n \in inbox'
               PROVE  n \notin Malformed /\ Accounted(n)'
    BY DEF InboxTells
  <2>1. CASE n \in inbox
    <3>1. n \in Messages /\ n \notin Malformed /\ Accounted(n)
      BY <2>1, ConsumerTablesTyped DEF TraceInv, InboxTells, InboxSound
    <3> QED BY <3>1, AccountedStays
  <2> QED BY <2>1
<1>2. \A m : Processed(m) => Processed(m)'
  BY DEF Processed, IdOf
<1>3. ASSUME NEW c \in Consumers PROVE HasTrace(c)'
  <2>1. CASE HasTrace(c)'
    BY <2>1
  <2>2. CASE pc'[c] = pc[c] /\ Current(c)' = Current(c)
    <3>1. HasTrace(c)
      BY DEF TraceInv
    <3>2. Processed(Current(c)) => Processed(Current(c))'
      BY <2>2, <1>2 DEF Processed, IdOf
    <3> QED BY <2>2, <3>1, <3>2 DEF HasTrace
  <2> QED BY <2>1, <2>2
<1>4. \A m \in Messages : queue'[m] = "deleted" =>
         \/ m \in deadLetters'
         \/ m \notin Malformed /\ Processed(m)'
  BY <1>2 DEF TraceInv
<1> QED BY <1>1, <1>3, <1>4 DEF TraceInv

\* A step in which a consumer goes on with its message.
LEMMA GoKeepsTrace ==
    ASSUME ConsumerInv, TraceInv, NEW c \in Consumers, pc[c] # "idle",
           NEW activity \in Activities \ {"idle"}, Go(c, activity),
           UNCHANGED <<queue, accepting>>,
           \A k \in WagerKeys : rows[k] # None => rows'[k] = rows[k],
           refused \subseteq refused', deadLetters \subseteq deadLetters',
           NEW m \in Messages, m = Current(c),
           \/ inbox' = inbox
           \/ inbox' = InboxWith(m) /\ m \notin Malformed /\ Accounted(m)',
           activity = "markTerminal" => m \in refused',
           activity = "markFailed" => m \in Breaking,
           activity = "acknowledge" => Processed(m) \/ inbox' = InboxWith(m),
           activity = "remove" => m \in deadLetters'
    PROVE  TraceInv'
<1>1. /\ pc'[c] = activity /\ Current(c)' = Current(c)
      /\ \A d \in Consumers \ {c} : pc'[d] = pc[d] /\ Current(d)' = Current(d)
  BY GoMoves DEF ConsumerInv
<1>2. /\ inbox \subseteq inbox'
      /\ inbox' = InboxWith(m) => \E n \in inbox' : IdOf(n) = IdOf(m)
      /\ \A n \in inbox' : n \in inbox \/ (n \notin Malformed /\ Accounted(n)')
  BY InboxGrows, ConsumerTablesTyped
<1>3. activity = "acknowledge" => \E n \in inbox' : IdOf(n) = IdOf(m)
  BY <1>2, ProcessedStays
<1>4. HasTrace(c)'
  BY <1>1, <1>3 DEF HasTrace, Processed, IdOf
<1>5. \A n \in Messages : queue'[n] = "deleted" => queue[n] = "deleted"
  OBVIOUS
<1> QED BY <1>1, <1>2, <1>4, <1>5, StepKeepsTrace

\* A step in which it is done with it.
LEMMA AdvanceKeepsTrace ==
    ASSUME ConsumerInv, TraceInv, NEW c \in Consumers, pc[c] # "idle", Advance(c),
           UNCHANGED <<rows, inbox, refused, accepting>>,
           deadLetters \subseteq deadLetters',
           queue' # queue => /\ pc[c] \in {"acknowledge", "remove"}
                             /\ queue' = [queue EXCEPT ![Current(c)] = "deleted"]
    PROVE  TraceInv'
<1>1. /\ pc'[c] \in {"idle", "submit", "deadLetter"}
      /\ \A d \in Consumers \ {c} : pc'[d] = pc[d] /\ Current(d)' = Current(d)
  BY AdvanceMoves DEF ConsumerInv
<1>2. HasTrace(c)'
  BY <1>1 DEF HasTrace
<1>3. /\ pc[c] = "acknowledge"
            => Current(c) \notin Malformed /\ Processed(Current(c))
      /\ pc[c] = "remove" => Current(c) \in deadLetters
  BY DEF ConsumerInv, HandledIsWellFormed, TraceInv, HasTrace
<1>4. \A m \in Messages : queue'[m] = "deleted" =>
         \/ queue[m] = "deleted" \/ m \in deadLetters
         \/ m \notin Malformed /\ Processed(m)
  BY <1>3, ConsumerTablesTyped
<1> QED BY <1>1, <1>2, <1>4, StepKeepsTrace

LEMMA ConsumeKeepsTrace ==
    ASSUME ConsumerInv, TraceInv, NEW c \in Consumers, Consume(c), [Next]_vars
    PROVE  TraceInv'
<1>1. pc[c] # "idle"
  BY DEF Consume, SubmitCommits, SubmitRefused, SubmitBreaks, Fails,
         MarkTerminal, MarkFailed, DeadLetter, Delete, DeleteFails
<1>2. PICK m \in Messages : m = Current(c)
  BY <1>1, CurrentTyped DEF ConsumerInv
<1>3. KeyOf(m) \in WagerKeys
  BY DEF WagerKeys
<1>4. \A k \in WagerKeys : rows[k] # None => rows'[k] = rows[k]
  BY RowsWritten, ConsumerTablesTyped
<1>5. ASSUME NEW status \in {"DECIDED", "FAILED"},
             rows' = [rows EXCEPT ![KeyOf(m)] = Row(m, status)]
      PROVE  Accounted(m)'
  <2>1. rows'[KeyOf(m)] = Row(m, status) /\ Row(m, status) # None
    BY <1>3, <1>5, RowTyped, ConsumerTablesTyped
  <2> QED BY <2>1 DEF Accounted, Recorded, Row, KeyOf
<1>6. Accounted(m) /\ refused' = refused => Accounted(m)'
  BY <1>4, AccountedStays
<1>7. CASE SubmitCommits(c)
  <2>1. /\ pc[c] = "submit" /\ Go(c, "acknowledge")
        /\ UNCHANGED <<queue, deadLetters, refused, accepting>>
        /\ \/ inbox' = inbox /\ Processed(m)
           \/ /\ inbox' = InboxWith(m)
              /\ \/ Recorded(m)
                 \/ rows' = [rows EXCEPT ![KeyOf(m)] = Row(m, "DECIDED")]
    BY <1>2, <1>7 DEF SubmitCommits, queueVars
  <2>2. Processed(m) \/ (inbox' = InboxWith(m) /\ Accounted(m)')
    BY <1>5, <1>6, <2>1 DEF Accounted
  <2>3. m \notin Malformed
    BY <1>2, <2>1 DEF ConsumerInv, HandledIsWellFormed
  <2>4. inbox' = inbox \/ (inbox' = InboxWith(m) /\ Accounted(m)')
    BY <1>5, <1>6, <2>1 DEF Accounted
  <2> QED BY <1>1, <1>2, <1>4, <2>1, <2>2, <2>3, <2>4, GoKeepsTrace DEF Activities
<1>8. CASE SubmitRefused(c) \/ SubmitBreaks(c)
  <2>1. /\ UNCHANGED <<queue, deadLetters, inbox, rows, accepting>>
        /\ refused \subseteq refused'
        /\ \/ Go(c, "markFailed") /\ m \in Breaking
           \/ Go(c, "markTerminal") /\ m \in refused'
    BY <1>2, <1>8 DEF SubmitRefused, SubmitBreaks, queueVars, dbVars
  <2> QED BY <1>1, <1>2, <1>4, <2>1, GoKeepsTrace DEF Activities
<1>9. CASE MarkTerminal(c) \/ MarkFailed(c)
  <2>1. /\ Go(c, "deadLetter")
        /\ UNCHANGED <<queue, deadLetters, refused, accepting>>
        /\ inbox' = InboxWith(m)
        /\ \/ pc[c] = "markTerminal"
           \/ /\ pc[c] = "markFailed"
              /\ \/ rows[KeyOf(m)] # None
                 \/ rows' = [rows EXCEPT ![KeyOf(m)] = Row(m, "FAILED")]
    BY <1>2, <1>9 DEF MarkTerminal, MarkFailed, queueVars
  <2>2. /\ pc[c] = "markTerminal" => m \in refused
        /\ pc[c] = "markFailed" => m \in Breaking
    BY <1>2 DEF TraceInv, HasTrace
  <2>3. Accounted(m)'
    BY <1>5, <1>6, <2>1, <2>2 DEF Accounted, Recorded, UsedByAnother
  <2>4. m \notin Malformed
    BY <1>2, <2>1 DEF ConsumerInv, HandledIsWellFormed
  <2> QED BY <1>1, <1>2, <1>4, <2>1, <2>3, <2>4, GoKeepsTrace DEF Activities
<1>10. CASE DeadLetter(c)
  <2>1. /\ UNCHANGED <<queue, rows, inbox, refused, accepting>>
        /\ deadLetters \subseteq deadLetters'
        /\ \/ Go(c, "remove") /\ m \in deadLetters'
           \/ Advance(c)
    BY <1>2, <1>10 DEF DeadLetter, queueVars, dbVars
  <2>2. CASE Go(c, "remove") /\ m \in deadLetters'
    BY <1>1, <1>2, <1>4, <2>1, <2>2, GoKeepsTrace DEF Activities
  <2>3. CASE Advance(c)
    BY <1>1, <2>1, <2>3, AdvanceKeepsTrace
  <2> QED BY <2>1, <2>2, <2>3
<1>11. CASE Fails(c) \/ DeleteFails(c) \/ Delete(c)
  <2>1. /\ Advance(c)
        /\ UNCHANGED <<deadLetters, rows, inbox, refused, accepting>>
        /\ queue' # queue => /\ pc[c] \in {"acknowledge", "remove"}
                             /\ queue' = [queue EXCEPT ![Current(c)] = "deleted"]
    BY <1>11 DEF Fails, DeleteFails, Delete, queueVars, dbVars
  <2> QED BY <1>1, <2>1, AdvanceKeepsTrace
<1> QED BY <1>7, <1>8, <1>9, <1>10, <1>11 DEF Consume

LEMMA OthersKeepTrace ==
    ASSUME ConsumerInv, TraceInv, [Next]_vars, ~\E c \in Consumers : Consume(c)
    PROVE  TraceInv'
<1>1. \A k \in WagerKeys : rows[k] # None => rows'[k] = rows[k]
  BY RowsWritten, ConsumerTablesTyped
<1>2. CASE \E c \in Consumers :
              \/ \E received \in SUBSET Messages : Receive(c, received)
              \/ Crash(c)
  <2>1. PICK c \in Consumers :
           \/ \E received \in SUBSET Messages : Receive(c, received)
           \/ Crash(c)
    BY <1>2
  <2>2. /\ UNCHANGED <<inbox, refused, deadLetters>>
        /\ \A d \in Consumers \ {c} : pc'[d] = pc[d] /\ batch'[d] = batch[d]
        /\ pc'[c] \in {"idle", "submit", "deadLetter"}
        /\ \A m \in Messages : queue'[m] = "deleted" => queue[m] = "deleted"
    BY <2>1, StartTyped, ConsumerTablesTyped
    DEF Receive, Crash, queueVars, dbVars, ConsumerInv, TypeOK
  <2>3. HasTrace(c)'
    BY <2>2 DEF HasTrace
  <2>4. \A d \in Consumers \ {c} : Current(d)' = Current(d)
    BY <2>2 DEF Current
  <2> QED BY <1>1, <2>2, <2>3, <2>4, StepKeepsTrace
<1>3. CASE \/ UNCHANGED vars
           \/ \E m \in Messages :
                 Send(m) \/ Expire(m) \/ Redrive(m) \/ SubmitByHttp(m)
           \/ \E w \in LateWallets : OpenWallet(w)
           \/ \E c \in Consumers : Shutdown(c) \/ Restart(c)
  <2>1. UNCHANGED <<pc, batch>>
    BY <1>3 DEF vars, Send, Expire, Redrive, SubmitByHttp, OpenWallet, Shutdown, Restart
  <2>2. /\ UNCHANGED <<inbox, refused>> /\ deadLetters \subseteq deadLetters'
        /\ \/ queue' = queue
           \/ \E m \in Messages, place \in {"visible", "dead"} :
                 queue' = [queue EXCEPT ![m] = place]
    BY <1>3 DEF vars, Send, Expire, Redrive, SubmitByHttp, OpenWallet, Shutdown,
                Restart, queueVars, dbVars
  <2>3. \A m \in Messages : queue'[m] = "deleted" => queue[m] = "deleted"
    BY <2>2, ConsumerTablesTyped
  <2>4. \A c \in Consumers : pc'[c] = pc[c] /\ Current(c)' = Current(c)
    BY <2>1 DEF Current
  <2> QED BY <1>1, <2>2, <2>3, <2>4, StepKeepsTrace
<1> QED BY <1>2, <1>3 DEF Next, Consume

(***************************************************************************)
(* Whatever crashed, was lost, was delivered twice or shares its id: of a  *)
(* message that was removed from the queue and is no dead letter, the      *)
(* inbox holds the body under its id, that of a message whose wager has a  *)
(* row with its own payload, or that was refused, or that broke on a key   *)
(* of another wager.  Nothing else is acknowledged.                        *)
(***************************************************************************)
THEOREM AcknowledgementsLeaveTrace == Spec => []AcknowledgedLeavesTrace
<1>1. Init => ConsumerInv /\ TraceInv
  BY ConsumerInvInit, TraceInvInit
<1>2. ConsumerInv /\ TraceInv /\ [Next]_vars => (ConsumerInv /\ TraceInv)'
  BY ConsumerInvStep, ConsumeKeepsTrace, OthersKeepTrace
<1>3. ConsumerInv /\ TraceInv => AcknowledgedLeavesTrace
  BY DEF TraceInv, InboxTells, Processed, AcknowledgedLeavesTrace
<1> QED BY <1>1, <1>2, <1>3, PTL DEF Spec
=============================================================================
