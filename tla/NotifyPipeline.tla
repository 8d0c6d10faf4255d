---------------------------- MODULE NotifyPipeline ----------------------------
(***************************************************************************)
(* The notification path of src/wafqueue: the queue goroutine              *)
(* ProcessMessageDequeEngine drains global.GQEQUE_MESSAGE_DB and hands     *)
(* each message to its handler; the rule, operator, attack and IP-ban      *)
(* handlers call checkCanSend and then gNotifyAgg.Add, the others call     *)
(* SendNotification directly.  The goroutine StartFlushLoop flushes the   *)
(* aggregation buffer on every tick and once more on the shutdown signal. *)
(* Add flushes inline when the buffer reaches notifyAggMaxBuffer.          *)
(*                                                                         *)
(* Flush swaps the buffer out under a.mu and sends after unlocking, so the *)
(* two goroutines may both be between swap and send.  The shutdown signal  *)
(* is a channel both goroutines select on; it is modelled as closed (both  *)
(* see it).  checkCanSend's verdict, which depends on the cache and the    *)
(* clock (see NotifyCooldown), is a free choice here.  Flush sends one    *)
(* SendNotification per message type, in map order; a send may panic, and *)
(* Flush's recover then ends the flush.  Message payloads, formatting and *)
(* the WebSocket pushes are abstracted.                                    *)
(***************************************************************************)
EXTENDS Naturals, FiniteSets, Sequences, Bags

CONSTANTS
    AggMsgs,        \* messages whose handler goes through the aggregator
    DirectMsgs,     \* messages whose handler calls SendNotification directly
    MaxBuffer,      \* notifyAggMaxBuffer
    MsgType         \* notifyEntry.MessageType of each aggregated message

ASSUME AggMsgs \cap DirectMsgs = {} /\ MaxBuffer \in Nat \ {0}
ASSUME DOMAIN MsgType = AggMsgs

Msgs == AggMsgs \cup DirectMsgs
Actors == {"engine", "flusher"}

VARIABLES
    queue,      \* GQEQUE_MESSAGE_DB
    enqueued,   \* messages producers have enqueued (history)
    shutdown,   \* GWAF_QUEUE_SHUTDOWN_SIGNAL is closed
    pc,         \* program counter of each goroutine
    buffer,     \* gNotifyAgg.buffer
    batch,      \* entries a goroutine's Flush swapped out and has not sent
    accepted,   \* entries handed to Add (history)
    sent,       \* bag: how often each entry went to SendNotification (history)
    dropped     \* entries of a Flush whose send panicked (history)

vars == <<queue, enqueued, shutdown, pc, buffer, batch, accepted, sent, dropped>>

EnginePCs == {"select", "drain", "flush", "send", "exit"}
FlusherPCs == {"wait", "send", "finalSend", "exit"}

TypeOK ==
    /\ queue \in Seq(Msgs)
    /\ enqueued \subseteq Msgs
    /\ shutdown \in BOOLEAN
    /\ pc["engine"] \in EnginePCs /\ pc["flusher"] \in FlusherPCs
    /\ buffer \subseteq AggMsgs
    /\ batch \in [Actors -> SUBSET AggMsgs]
    /\ accepted \subseteq AggMsgs
    /\ IsABag(sent) /\ BagToSet(sent) \subseteq Msgs
    /\ dropped \subseteq AggMsgs

Init ==
    /\ queue = <<>> /\ enqueued = {}
    /\ shutdown = FALSE
    /\ pc = [engine |-> "select", flusher |-> "wait"]
    /\ buffer = {}
    /\ batch = [a \in Actors |-> {}]
    /\ accepted = {} /\ sent = EmptyBag /\ dropped = {}

\* A producer enqueues a message (each message once).
Enqueue(m) ==
    /\ m \notin enqueued
    /\ queue' = Append(queue, m)
    /\ enqueued' = enqueued \cup {m}
    /\ UNCHANGED <<shutdown, pc, buffer, batch, accepted, sent, dropped>>

\* The service closes the shutdown channel.
Shutdown ==
    /\ ~shutdown
    /\ shutdown' = TRUE
    /\ UNCHANGED <<queue, enqueued, pc, buffer, batch, accepted, sent, dropped>>

(***************************************************************************)
(* Flush: the swap under a.mu (returning at once on an empty buffer), then *)
(* the sends after unlocking.                                             *)
(***************************************************************************)
\* The bug of sending the buffer without emptying it.
FlushTakeNoReset(a, next, onEmpty) ==
    IF buffer = {}
    THEN /\ pc' = [pc EXCEPT ![a] = onEmpty]
         /\ UNCHANGED <<buffer, batch>>
    ELSE /\ batch' = [batch EXCEPT ![a] = buffer]
         /\ pc' = [pc EXCEPT ![a] = next]
         /\ UNCHANGED buffer

\* The bug of flushing only full buffers.
FlushTakeOnlyWhenFull(a, next, onEmpty) ==
    IF Cardinality(buffer) < MaxBuffer
    THEN /\ pc' = [pc EXCEPT ![a] = onEmpty]
         /\ UNCHANGED <<buffer, batch>>
    ELSE /\ batch' = [batch EXCEPT ![a] = buffer]
         /\ buffer' = {}
         /\ pc' = [pc EXCEPT ![a] = next]

FlushTake(a, next, onEmpty) ==
    IF buffer = {}
    THEN /\ pc' = [pc EXCEPT ![a] = onEmpty]
         /\ UNCHANGED <<buffer, batch>>
    ELSE /\ batch' = [batch EXCEPT ![a] = buffer]
         /\ buffer' = {}
         /\ pc' = [pc EXCEPT ![a] = next]

\* The swapped entries grouped by MessageType.
Groups(S) == {{m \in S : MsgType[m] = t} : t \in {MsgType[m] : m \in S}}

\* One group, in Go's random map order: a single entry is sent as it is,
\* several as one summary "（合并n条）"; either is one SendNotification.
\* After the last group Flush returns.
FlushSendGroup(a, next) ==
    \E G \in Groups(batch[a]) :
        /\ sent' = sent (+) SetToBag(G)
        /\ batch' = [batch EXCEPT ![a] = @ \ G]
        /\ pc' = IF batch'[a] = {} THEN [pc EXCEPT ![a] = next] ELSE pc
        /\ UNCHANGED dropped

\* SendNotification panics: the deferred recover in Flush logs it and
\* Flush returns; the group being sent and the groups after it are lost.
FlushSendPanic(a, next) ==
    /\ dropped' = dropped \cup batch[a]
    /\ batch' = [batch EXCEPT ![a] = {}]
    /\ pc' = [pc EXCEPT ![a] = next]
    /\ UNCHANGED sent

FlushSend(a, next) == FlushSendGroup(a, next) \/ FlushSendPanic(a, next)

(***************************************************************************)
(* ProcessMessageDequeEngine                                               *)
(***************************************************************************)

\* select: the closed signal wins over default; default drains the queue.
EngineSelect ==
    /\ pc["engine"] = "select"
    /\ pc' = [pc EXCEPT !.engine = IF shutdown THEN "exit" ELSE "drain"]
    /\ UNCHANGED <<queue, enqueued, shutdown, buffer, batch, accepted, sent, dropped>>

\* The bug of routing every message through Add.
EngineHandleAllAggregated(canSend) ==
    /\ pc["engine"] = "drain"
    /\ queue # <<>>
    /\ LET m == Head(queue) IN
       IF canSend
       THEN /\ buffer' = buffer \cup {m}
            /\ accepted' = accepted \cup ({m} \cap AggMsgs)
            /\ pc' = [pc EXCEPT !.engine =
                        IF Cardinality(buffer') >= MaxBuffer THEN "flush" ELSE "drain"]
       ELSE UNCHANGED <<buffer, accepted, pc>>
    /\ queue' = Tail(queue)
    /\ UNCHANGED <<enqueued, shutdown, batch, sent, dropped>>

\* handleRuleMessage, handleOperatorMessage, handleAttackInfoMessage and
\* handleIPBanMessage: return unless checkCanSend; else Add, which appends
\* under a.mu and flushes once the buffer reaches MaxBuffer.
HandleAggregated(m, canSend) ==
    IF canSend
    THEN /\ buffer' = buffer \cup {m}
         /\ accepted' = accepted \cup {m}
         /\ pc' = [pc EXCEPT !.engine =
                     IF Cardinality(buffer') >= MaxBuffer THEN "flush" ELSE "drain"]
         /\ UNCHANGED sent
    ELSE UNCHANGED <<buffer, accepted, pc, sent>>

\* handleUserLoginMessage, handleWeeklyReportMessage, handleSSLExpireMessage
\* and handleSystemErrorMessage: SendNotification at once.
HandleDirect(m) ==
    /\ sent' = sent (+) SetToBag({m})
    /\ UNCHANGED <<buffer, accepted, pc>>

\* for !Empty(): Dequeue and dispatch by message type.
EngineHandle(canSend) ==
    /\ pc["engine"] = "drain"
    /\ queue # <<>>
    /\ LET m == Head(queue) IN
       IF m \in AggMsgs THEN HandleAggregated(m, canSend) ELSE HandleDirect(m)
    /\ queue' = Tail(queue)
    /\ UNCHANGED <<enqueued, shutdown, batch, dropped>>

\* The queue is empty: time.Sleep(100ms) and back to the select.
EngineSleep ==
    /\ pc["engine"] = "drain"
    /\ queue = <<>>
    /\ pc' = [pc EXCEPT !.engine = "select"]
    /\ UNCHANGED <<queue, enqueued, shutdown, buffer, batch, accepted, sent, dropped>>

\* Add's inline Flush.
EngineFlush ==
    /\ pc["engine"] = "flush"
    /\ FlushTake("engine", "send", "drain")
    /\ UNCHANGED <<queue, enqueued, shutdown, accepted, sent, dropped>>

EngineSend ==
    /\ pc["engine"] = "send"
    /\ FlushSend("engine", "drain")
    /\ UNCHANGED <<queue, enqueued, shutdown, buffer, accepted>>

(***************************************************************************)
(* StartFlushLoop                                                          *)
(***************************************************************************)

\* case <-ticker.C: Flush.  Go's select picks at random among ready cases,
\* so a tick may still be taken after the signal is closed.
FlusherTick ==
    /\ pc["flusher"] = "wait"
    /\ FlushTake("flusher", "send", "wait")
    /\ UNCHANGED <<queue, enqueued, shutdown, accepted, sent, dropped>>

FlusherSend ==
    /\ pc["flusher"] = "send"
    /\ FlushSend("flusher", "wait")
    /\ UNCHANGED <<queue, enqueued, shutdown, buffer, accepted>>

\* case <-GWAF_QUEUE_SHUTDOWN_SIGNAL: final Flush, then return.
FlusherShutdown ==
    /\ pc["flusher"] = "wait"
    /\ shutdown
    /\ FlushTake("flusher", "finalSend", "exit")
    /\ UNCHANGED <<queue, enqueued, shutdown, accepted, sent, dropped>>

FlusherFinalSend ==
    /\ pc["flusher"] = "finalSend"
    /\ FlushSend("flusher", "exit")
    /\ UNCHANGED <<queue, enqueued, shutdown, buffer, accepted>>

Next ==
    \/ \E m \in Msgs : Enqueue(m)
    \/ Shutdown
    \/ EngineSelect \/ EngineSleep \/ EngineFlush \/ EngineSend
    \/ \E c \in BOOLEAN : EngineHandle(c)
    \/ FlusherTick \/ FlusherSend \/ FlusherShutdown \/ FlusherFinalSend

\* Both goroutines run whenever they can (weak fairness); the ticker fires
\* every notifyAggFlushInterval, so a flusher waiting on it is not stuck.
Fairness ==
    /\ WF_vars(EngineSelect) /\ WF_vars(EngineSleep)
    /\ WF_vars(EngineFlush) /\ WF_vars(EngineSend)
    /\ WF_vars(\E c \in BOOLEAN : EngineHandle(c))
    /\ WF_vars(FlusherTick) /\ WF_vars(FlusherSend)
    /\ WF_vars(FlusherShutdown) /\ WF_vars(FlusherFinalSend)

Spec == Init /\ [][Next]_vars /\ Fairness

(***************************************************************************)
(* Refinement: an entry is pending from Add until a Flush sends it.        *)
(***************************************************************************)
Delivery == INSTANCE NotifyDelivery
                WITH Entries <- AggMsgs,
                     pending <- accepted \ (BagToSet(sent) \cup dropped),
                     sent <- [m \in BagToSet(sent) \cap AggMsgs |-> sent[m]],
                     dropped <- dropped

\* Every aggregated notification handed to Add is sent at most once, and
\* is lost only with its flush's batch after a send panicked: the swap in
\* Flush under a.mu gives each buffered entry to one Flush only, whether
\* the flush loop's tick or Add's inline flush takes it, and each group
\* is sent once.
ImplementsDelivery == Delivery!Spec

(***************************************************************************)
(* Properties                                                              *)
(***************************************************************************)

InPipeline(m) ==
    \/ \E i \in DOMAIN queue : queue[i] = m
    \/ m \in buffer
    \/ \E a \in Actors : m \in batch[a]

\* Until shutdown, every enqueued message eventually leaves the pipeline
\* (dispatched, suppressed or sent from the aggregation buffer): the queue
\* goroutine keeps draining and the ticker keeps flushing.
EnqueuedEventuallyHandled ==
    \A m \in Msgs : m \in enqueued ~> (shutdown \/ ~InPipeline(m))

\* StartFlushLoop's final Flush "确保不丢失缓冲中的通知": once both goroutines
\* have returned, every notification handed to Add has been sent, or lost
\* to a panicking send.
ShutdownLosesNothing ==
    pc["engine"] = "exit" /\ pc["flusher"] = "exit" => accepted \subseteq BagToSet(sent) \cup dropped

=============================================================================
