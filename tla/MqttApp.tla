------------------------------ MODULE MqttApp ------------------------------
(***************************************************************************)
(* The MQTT client of src/src/protocols/mqtt_app.c.                        *)
(*                                                                         *)
(* Four FreeRTOS tasks share the module's static state without a lock:     *)
(*   - the mongoose poll task (mongoose_process.c) runs ev_handler for     *)
(*     connection events and incoming acknowledgements;                    *)
(*   - the timer service task runs the reconnect, puback, suback and       *)
(*     unsuback timer callbacks;                                           *)
(*   - mongoose_task takes posted messages from message_queue and          *)
(*     publishes them, waiting on the puback semaphore for QoS 1;          *)
(*   - an application task calls MqttApp_PostData, MqttApp_Subscribe and   *)
(*     MqttApp_Unsubscribe, which wait on the suback / unsuback            *)
(*     semaphores.                                                         *)
(* Each handler or callback is one step.  A connection (a "link") is       *)
(* created by mqtt_connect and carries two FIFO byte streams; mongoose     *)
(* frees it after delivering MG_EV_CLOSE, and its buffered data is lost.   *)
(* The broker acknowledges every PUBLISH (QoS 1), SUBSCRIBE and            *)
(* UNSUBSCRIBE it receives, in order, at any speed.                        *)
(*                                                                         *)
(* Time is abstract except for the one ratio the code relies on: the       *)
(* publisher waits TIMEOUT_DEFAULT_MS * RETRY_COUNT + 100 ms, so the       *)
(* auto-reload puback timer (period TIMEOUT_DEFAULT_MS, restarted by the   *)
(* publish) expires RETRY_COUNT times before the wait ends and once more   *)
(* after it.  The subscribe waits end 100 ms after their one-shot timer.   *)
(***************************************************************************)
EXTENDS Naturals, Sequences, SequencesExt, FiniteSets

CONSTANTS Msgs,              \* messages the application posts (each once)
          QoS1,              \* those posted with qos 1
          Topics,            \* topics the application subscribes to
          MAX_SUBSCRIPTIONS,
          MESSAGE_QUEUE_SIZE,
          RETRY_COUNT,
          MaxLinks,          \* bound on the connections mqtt_connect opens
          MaxCalls,          \* bound on the application's calls
          NoMsg

ASSUME QoS1 \subseteq Msgs /\ NoMsg \notin Msgs

Links == 1..MaxLinks

VARIABLES
    link,      \* each connection: "none", "connecting", "up", "closing", "closed"
    nc,        \* mqtt_state.nc (0 = NULL)
    connected, \* mqtt_state.connected
    rcTmr,     \* reconnect timer running
    toBrk,     \* per connection: packets on their way to the broker
    toCli,     \* per connection: packets on their way to the client
    mq,        \* message_queue
    posted,    \* messages posted so far
    ppc,       \* mongoose_task: "recv" or "wait" (on the puback semaphore)
    cur,       \* the message in mqtt_state.publish_opts
    retries,   \* mqtt_state.retries
    ptime,     \* puback timer periods elapsed in the current wait
    sent,      \* transmissions of each message
    apc,       \* application task: "idle", "sub" or "unsub" (waiting)
    atopic,    \* topic of the application's current call
    subs,      \* active entries of mqtt_state.subscriptions
    calls,     \* application calls so far
    ack,       \* mqtt_acks: [puback, suback, unsuback] received flags
    sem,       \* mqtt_sync: [puback, suback, unsuback] binary semaphores
    tmr,       \* mqtt_timers: [puback, suback, unsuback] running
    acked,     \* acknowledgements delivered for each open request
    freedUse   \* a freed connection was dereferenced

vars == <<link, nc, connected, rcTmr, toBrk, toCli, mq, posted, ppc,
          cur, retries, ptime, sent, apc, atopic, subs, calls, ack, sem, tmr,
          acked, freedUse>>

Kinds == {"puback", "suback", "unsuback"}

TypeOK ==
    /\ link \in [Links -> {"none", "connecting", "up", "closing", "closed"}]
    /\ nc \in 0..MaxLinks /\ connected \in BOOLEAN /\ rcTmr \in BOOLEAN
    /\ mq \in Seq(Msgs) /\ Len(mq) <= MESSAGE_QUEUE_SIZE
    /\ ppc \in {"recv", "wait"} /\ cur \in Msgs \cup {NoMsg}
    /\ retries \in Nat /\ ptime \in 0..RETRY_COUNT
    /\ sent \in [Msgs -> Nat]
    /\ apc \in {"idle", "sub", "unsub"} /\ atopic \in Topics
    /\ subs \subseteq Topics /\ Cardinality(subs) <= MAX_SUBSCRIPTIONS
    /\ ack \in [Kinds -> BOOLEAN] /\ sem \in [Kinds -> 0..1]
    /\ tmr \in [Kinds -> BOOLEAN]

(* MqttApp_Init: timers, queue and semaphores created, the mongoose task  *)
(* started, the reconnect timer started and the first mqtt_connect.       *)
Init ==
    /\ link = [l \in Links |-> IF l = 1 THEN "connecting" ELSE "none"]
    /\ nc = 1 /\ connected = FALSE /\ rcTmr = TRUE
    /\ toBrk = [l \in Links |-> <<>>] /\ toCli = [l \in Links |-> <<>>]
    /\ mq = <<>> /\ posted = {}
    /\ ppc = "recv" /\ cur = NoMsg /\ retries = 0 /\ ptime = 0
    /\ sent = [m \in Msgs |-> 0]
    /\ apc = "idle" /\ atopic = CHOOSE t \in Topics : TRUE
    /\ subs = {} /\ calls = 0
    /\ ack = [k \in Kinds |-> FALSE] /\ sem = [k \in Kinds |-> 0]
    /\ tmr = [k \in Kinds |-> FALSE]
    /\ acked = {} /\ freedUse = FALSE

(* xSemaphoreGive on a binary semaphore: a second give is refused.        *)
Give(k) == sem' = [sem EXCEPT ![k] = 1]

(* A dereference of mqtt_state.nc: after MG_EV_CLOSE mongoose has freed   *)
(* the connection, but nc still points at it.                             *)
Deref == freedUse' = (freedUse \/ (nc # 0 /\ link[nc] = "closed"))

(* mg_send on nc: bytes are buffered on a connection that is connecting  *)
(* or up and go nowhere on one that is closing or freed.                  *)
Send(p) ==
    toBrk' = IF nc # 0 /\ link[nc] \in {"connecting", "up"}
             THEN [toBrk EXCEPT ![nc] = Append(@, p)] ELSE toBrk

(* resubscribe_all: one SUBSCRIBE per active slot, in slot order.        *)
Resubscriptions == SetToSeq({[k |-> "sub", x |-> t] : t \in subs})

-----------------------------------------------------------------------------
(* Connection management.                                                  *)

(* MG_EV_CONNECT -> mqtt_connected: connected, reconnect timer stopped,   *)
(* every active subscription sent again on nc (QoS 0).                    *)
Connected(l) ==
    /\ link[l] = "connecting"
    /\ link' = [link EXCEPT ![l] = "up"]
    /\ connected' = TRUE /\ rcTmr' = FALSE
    /\ toBrk' = [toBrk EXCEPT ![nc] = @ \o Resubscriptions]
    /\ UNCHANGED <<nc, toCli, mq, posted, ppc, cur, retries, ptime, sent, apc,
                   atopic, subs, calls, ack, sem, tmr, acked, freedUse>>

(* The end of a connection: MG_EV_ERROR or MG_EV_CLOSE on a live one, or  *)
(* MG_EV_CLOSE on one mqtt_connect marked is_closing.  ev_handler calls   *)
(* mqtt_disconnected whichever connection the event is for.               *)
Disconnected(l) ==
    /\ link[l] \in {"connecting", "up", "closing"}
    /\ link' = [link EXCEPT ![l] = "closed"]
    /\ toBrk' = [toBrk EXCEPT ![l] = <<>>] /\ toCli' = [toCli EXCEPT ![l] = <<>>]
    /\ connected' = FALSE /\ rcTmr' = TRUE
    /\ UNCHANGED <<nc, mq, posted, ppc, cur, retries, ptime, sent, apc, atopic,
                   subs, calls, ack, sem, tmr, acked, freedUse>>

(* reconnect_timer_callback: when not connected, mqtt_connect marks the   *)
(* old nc is_closing and opens a new connection.                          *)
ReconnectFire ==
    /\ rcTmr /\ ~connected
    /\ \E l \in Links :
          /\ link[l] = "none" /\ \A j \in 1..(l - 1) : link[j] # "none"
          /\ Deref
          /\ link' = [j \in Links |->
                        CASE j = l                               -> "connecting"
                          [] j = nc /\ link[j] \in {"connecting", "up"} -> "closing"
                          [] OTHER                               -> link[j]]
          /\ nc' = l
    /\ UNCHANGED <<connected, rcTmr, toBrk, toCli, mq, posted, ppc, cur,
                   retries, ptime, sent, apc, atopic, subs, calls, ack, sem,
                   tmr, acked>>

-----------------------------------------------------------------------------
(* The broker takes the next packet of a live connection and answers a    *)
(* QoS 1 PUBLISH, a SUBSCRIBE or an UNSUBSCRIBE on the same connection.   *)
Reply(p) ==
    CASE p.k = "pub"   -> IF p.x \in QoS1 THEN <<[k |-> "puback", x |-> p.x]>> ELSE <<>>
      [] p.k = "sub"   -> <<[k |-> "suback", x |-> p.x]>>
      [] p.k = "unsub" -> <<[k |-> "unsuback", x |-> p.x]>>

BrokerRecv(l) ==
    /\ link[l] = "up" /\ toBrk[l] # <<>>
    /\ toBrk' = [toBrk EXCEPT ![l] = Tail(@)]
    /\ toCli' = [toCli EXCEPT ![l] = @ \o Reply(Head(toBrk[l]))]
    /\ UNCHANGED <<link, nc, connected, rcTmr, mq, posted, ppc, cur, retries,
                   ptime, sent, apc, atopic, subs, calls, ack, sem, tmr, acked,
                   freedUse>>

(* MG_EV_MQTT_CMD -> handle_mqtt_command for SUBACK, UNSUBACK or PUBACK:  *)
(* the received flag set, the matching timer stopped and the semaphore    *)
(* given.  Nothing compares the packet id with the request in progress.   *)
HandleCommand(l) ==
    /\ link[l] = "up" /\ toCli[l] # <<>>
    /\ LET p == Head(toCli[l]) IN
          /\ ack' = [ack EXCEPT ![p.k] = TRUE]
          /\ tmr' = [tmr EXCEPT ![p.k] = FALSE]
          /\ Give(p.k)
          /\ acked' = acked \cup {<<p.k, p.x>>}
    /\ toCli' = [toCli EXCEPT ![l] = Tail(@)]
    /\ UNCHANGED <<link, nc, connected, rcTmr, toBrk, mq, posted, ppc, cur,
                   retries, ptime, sent, apc, atopic, subs, calls, freedUse>>

-----------------------------------------------------------------------------
(* The publisher, mongoose_task.                                           *)

(* Faulty variant: the message is taken from the queue only once        *)
(* connected, instead of being dropped while disconnected.               *)
PublishWhenConnected ==
    /\ ppc = "recv" /\ mq # <<>> /\ connected /\ nc # 0
    /\ mq' = Tail(mq)
    /\ LET m == Head(mq) IN
       /\ ack' = [ack EXCEPT !["puback"] = FALSE]
       /\ cur' = m /\ retries' = 0
       /\ Deref /\ Send([k |-> "pub", x |-> m])
       /\ sent' = [sent EXCEPT ![m] = @ + 1]
       /\ acked' = acked \ {<<"puback", m>>}
       /\ IF m \in QoS1
          THEN tmr' = [tmr EXCEPT !["puback"] = TRUE] /\ ptime' = 0 /\ ppc' = "wait"
          ELSE UNCHANGED <<tmr, ptime, ppc>>
    /\ UNCHANGED <<link, nc, connected, rcTmr, toCli, posted, apc, atopic,
                   subs, calls, sem>>

(* xQueueReceive, then mqtt_publish_internal when connected (a message    *)
(* taken while disconnected is dropped): flag cleared, retries reset, the *)
(* PUBLISH sent on nc; for QoS 1 the puback timer (re)started and the     *)
(* task blocks on the puback semaphore.                                   *)
Publish ==
    /\ ppc = "recv" /\ mq # <<>>
    /\ mq' = Tail(mq)
    /\ LET m == Head(mq) IN
       IF connected /\ nc # 0
       THEN /\ ack' = [ack EXCEPT !["puback"] = FALSE]
            /\ cur' = m /\ retries' = 0
            /\ Deref /\ Send([k |-> "pub", x |-> m])
            /\ sent' = [sent EXCEPT ![m] = @ + 1]
            /\ acked' = acked \ {<<"puback", m>>}
            /\ IF m \in QoS1
               THEN tmr' = [tmr EXCEPT !["puback"] = TRUE] /\ ptime' = 0 /\ ppc' = "wait"
               ELSE UNCHANGED <<tmr, ptime, ppc>>
       ELSE UNCHANGED <<ack, cur, retries, freedUse, toBrk, sent, acked, tmr, ptime, ppc>>
    /\ UNCHANGED <<link, nc, connected, rcTmr, toCli, posted, apc, atopic,
                   subs, calls, sem>>

(* xSemaphoreTake returns pdTRUE: "PUBACK received for topic".            *)
PubTaken ==
    /\ ppc = "wait" /\ sem["puback"] = 1
    /\ sem' = [sem EXCEPT !["puback"] = 0] /\ ppc' = "recv"
    /\ UNCHANGED <<link, nc, connected, rcTmr, toBrk, toCli, mq, posted, cur,
                   retries, ptime, sent, apc, atopic, subs, calls, ack, tmr,
                   acked, freedUse>>

(* The take times out TIMEOUT_DEFAULT_MS * RETRY_COUNT + 100 ms after the *)
(* publish: after the timer's RETRY_COUNT-th expiry, or at any time once  *)
(* the timer is stopped.                                                  *)
PubTimeout ==
    /\ ppc = "wait" /\ sem["puback"] = 0
    /\ ptime = RETRY_COUNT \/ ~tmr["puback"]
    /\ ppc' = "recv"
    /\ UNCHANGED <<link, nc, connected, rcTmr, toBrk, toCli, mq, posted, cur,
                   retries, ptime, sent, apc, atopic, subs, calls, ack, sem,
                   tmr, acked, freedUse>>

(* Faulty variant: retries compared with <= RETRY_COUNT.                 *)
PubackFireOffByOne ==
    /\ tmr["puback"]
    /\ ppc = "wait" => ptime < RETRY_COUNT
    /\ ptime' = IF ppc = "wait" THEN ptime + 1 ELSE ptime
    /\ IF ~ack["puback"] /\ retries <= RETRY_COUNT
       THEN /\ Deref /\ Send([k |-> "pub", x |-> cur])
            /\ sent' = [sent EXCEPT ![cur] = @ + 1]
            /\ retries' = retries + 1
            /\ UNCHANGED <<sem, tmr>>
       ELSE IF retries >= RETRY_COUNT
       THEN /\ Give("puback") /\ tmr' = [tmr EXCEPT !["puback"] = FALSE]
            /\ UNCHANGED <<freedUse, toBrk, sent, retries>>
       ELSE UNCHANGED <<freedUse, toBrk, sent, retries, sem, tmr>>
    /\ UNCHANGED <<link, nc, connected, rcTmr, toCli, mq, posted, ppc, cur,
                   apc, atopic, subs, calls, ack, acked>>

(* puback_timer_callback on the timer service task: while no PUBACK has   *)
(* come and retries remain, the publish_opts PUBLISH is sent again on nc; *)
(* once retries are used up the semaphore is given and the timer stopped. *)
(* While the publisher waits, an expiry is one period of its wait.        *)
PubackFire ==
    /\ tmr["puback"]
    /\ ppc = "wait" => ptime < RETRY_COUNT
    /\ ptime' = IF ppc = "wait" THEN ptime + 1 ELSE ptime
    /\ IF ~ack["puback"] /\ retries < RETRY_COUNT
       THEN /\ Deref /\ Send([k |-> "pub", x |-> cur])
            /\ sent' = [sent EXCEPT ![cur] = @ + 1]
            /\ retries' = retries + 1
            /\ UNCHANGED <<sem, tmr>>
       ELSE IF retries >= RETRY_COUNT
       THEN /\ Give("puback") /\ tmr' = [tmr EXCEPT !["puback"] = FALSE]
            /\ UNCHANGED <<freedUse, toBrk, sent, retries>>
       ELSE UNCHANGED <<freedUse, toBrk, sent, retries, sem, tmr>>
    /\ UNCHANGED <<link, nc, connected, rcTmr, toCli, mq, posted, ppc, cur,
                   apc, atopic, subs, calls, ack, acked>>

-----------------------------------------------------------------------------
(* The application task.                                                   *)

Call == calls < MaxCalls /\ apc = "idle" /\ calls' = calls + 1

(* MqttApp_PostData: xQueueSend with no wait; a full queue refuses.      *)
PostData ==
    /\ Call
    /\ \E m \in Msgs \ posted :
          /\ posted' = posted \cup {m}
          /\ mq' = IF Len(mq) < MESSAGE_QUEUE_SIZE THEN Append(mq, m) ELSE mq
    /\ UNCHANGED <<link, nc, connected, rcTmr, toBrk, toCli, ppc, cur, retries,
                   ptime, sent, apc, atopic, subs, ack, sem, tmr, acked, freedUse>>

(* find_subscription: an active slot holds the topic.                   *)
Subscribed(t) == t \in subs

(* find_free_subscription_slot: some slot is inactive.                   *)
FreeSlot == Cardinality(subs) < MAX_SUBSCRIPTIONS

(* clear_subscription: the topic's slot made inactive.                   *)
ClearSubscription(t) == subs \ {t}

(* Faulty variant: the free-slot search runs one entry past the table.   *)
SubscribeNoSlotCheck ==
    /\ Call
    /\ \E t \in Topics :
          IF connected /\ t \notin subs /\ Cardinality(subs) <= MAX_SUBSCRIPTIONS
          THEN /\ subs' = subs \cup {t} /\ atopic' = t
               /\ ack' = [ack EXCEPT !["suback"] = FALSE]
               /\ Deref /\ Send([k |-> "sub", x |-> t])
               /\ tmr' = [tmr EXCEPT !["suback"] = TRUE]
               /\ acked' = acked \ {<<"suback", t>>}
               /\ apc' = "sub"
          ELSE UNCHANGED <<subs, atopic, ack, freedUse, toBrk, tmr, acked, apc>>
    /\ UNCHANGED <<link, nc, connected, rcTmr, toCli, mq, posted, ppc, cur,
                   retries, ptime, sent, sem>>

(* MqttApp_Subscribe: false when not connected or when no slot is free,  *)
(* true at once for a topic already in the table.  Otherwise the slot is *)
(* made active, the flag cleared, SUBSCRIBE sent on nc, the one-shot      *)
(* suback timer started and the task blocks on the suback semaphore.     *)
Subscribe ==
    /\ Call
    /\ \E t \in Topics :
          IF connected /\ ~Subscribed(t) /\ FreeSlot
          THEN /\ subs' = subs \cup {t} /\ atopic' = t
               /\ ack' = [ack EXCEPT !["suback"] = FALSE]
               /\ Deref /\ Send([k |-> "sub", x |-> t])
               /\ tmr' = [tmr EXCEPT !["suback"] = TRUE]
               /\ acked' = acked \ {<<"suback", t>>}
               /\ apc' = "sub"
          ELSE UNCHANGED <<subs, atopic, ack, freedUse, toBrk, tmr, acked, apc>>
    /\ UNCHANGED <<link, nc, connected, rcTmr, toCli, mq, posted, ppc, cur,
                   retries, ptime, sent, sem>>

(* The end of the wait: the semaphore taken, or the take timed out 100 ms *)
(* after the suback timer's period.  On a timeout, or on a token with the *)
(* flag still clear, the slot is cleared and false returned.              *)
SubscribeWake ==
    /\ apc = "sub"
    /\ \/ sem["suback"] = 1 /\ sem' = [sem EXCEPT !["suback"] = 0]
          /\ subs' = IF ack["suback"] THEN subs ELSE ClearSubscription(atopic)
       \/ sem["suback"] = 0 /\ ~tmr["suback"] /\ subs' = ClearSubscription(atopic)
          /\ UNCHANGED sem
    /\ apc' = "idle"
    /\ UNCHANGED <<link, nc, connected, rcTmr, toBrk, toCli, mq, posted, ppc,
                   cur, retries, ptime, sent, atopic, calls, ack, tmr, acked,
                   freedUse>>

(* MqttApp_Unsubscribe: false when not connected or the topic is not in  *)
(* the table; otherwise UNSUBSCRIBE is sent, the unsuback timer started  *)
(* and the task blocks on the unsuback semaphore.                        *)
Unsubscribe ==
    /\ Call
    /\ \E t \in Topics :
          IF connected /\ Subscribed(t)
          THEN /\ atopic' = t
               /\ ack' = [ack EXCEPT !["unsuback"] = FALSE]
               /\ Deref /\ Send([k |-> "unsub", x |-> t])
               /\ tmr' = [tmr EXCEPT !["unsuback"] = TRUE]
               /\ acked' = acked \ {<<"unsuback", t>>}
               /\ apc' = "unsub"
          ELSE UNCHANGED <<atopic, ack, freedUse, toBrk, tmr, acked, apc>>
    /\ UNCHANGED <<link, nc, connected, rcTmr, toCli, mq, posted, ppc, cur,
                   retries, ptime, sent, subs, sem>>

(* The slot is cleared only when a token came with the flag set.         *)
UnsubscribeWake ==
    /\ apc = "unsub"
    /\ \/ sem["unsuback"] = 1 /\ sem' = [sem EXCEPT !["unsuback"] = 0]
          /\ subs' = IF ack["unsuback"] THEN ClearSubscription(atopic) ELSE subs
       \/ sem["unsuback"] = 0 /\ ~tmr["unsuback"] /\ UNCHANGED <<sem, subs>>
    /\ apc' = "idle"
    /\ UNCHANGED <<link, nc, connected, rcTmr, toBrk, toCli, mq, posted, ppc,
                   cur, retries, ptime, sent, atopic, calls, ack, tmr, acked,
                   freedUse>>

(* suback_timer_callback / unsuback_timer_callback: the one-shot timer    *)
(* expires and gives the semaphore if no acknowledgement came.            *)
AckTimerFire(k) ==
    /\ tmr[k]
    /\ tmr' = [tmr EXCEPT ![k] = FALSE]
    /\ sem' = IF ack[k] THEN sem ELSE [sem EXCEPT ![k] = 1]
    /\ UNCHANGED <<link, nc, connected, rcTmr, toBrk, toCli, mq, posted, ppc,
                   cur, retries, ptime, sent, apc, atopic, subs, calls, ack,
                   acked, freedUse>>

-----------------------------------------------------------------------------
Next ==
    \/ ReconnectFire
    \/ \E l \in Links : Connected(l) \/ Disconnected(l) \/ BrokerRecv(l)
                       \/ HandleCommand(l)
    \/ Publish \/ PubTaken \/ PubTimeout \/ PubackFire
    \/ PostData \/ Subscribe \/ SubscribeWake \/ Unsubscribe \/ UnsubscribeWake
    \/ AckTimerFire("suback") \/ AckTimerFire("unsuback")

(* mongoose_task is ready whenever the queue holds a message and its      *)
(* wait ends; the timer service task runs every expired timer.  Nothing   *)
(* is assumed of the network, the broker or the application.              *)
Fairness ==
    /\ WF_vars(Publish) /\ WF_vars(PubTaken) /\ WF_vars(PubTimeout)
    /\ WF_vars(PubackFire)

Spec == Init /\ [][Next]_vars /\ Fairness

-----------------------------------------------------------------------------
(* mongoose_task sends a message at most 1 + RETRY_COUNT times, whatever  *)
(* the puback timer left running from an earlier publish does to          *)
(* mqtt_state.retries and publish_opts; retries never passes RETRY_COUNT. *)
RetransmitBound ==
    retries <= RETRY_COUNT /\ \A m \in Msgs : sent[m] <= 1 + RETRY_COUNT

(* The message queue never holds a message forever: mongoose_task takes   *)
(* each one, publishing it or dropping it when not connected, and every   *)
(* QoS 1 wait ends by PUBACK, by the timer's give or by its timeout.      *)
QueueDrains == \A m \in Msgs : Contains(mq, m) ~> ~Contains(mq, m)

(* A wait that returns success belongs to an acknowledgement of its own   *)
(* request: a publish's take succeeds only once the PUBACK for that       *)
(* message was handled, MqttApp_Subscribe returns true only after the     *)
(* SUBACK for its topic (osal header: "true - if subscription             *)
(* successful"), and MqttApp_Unsubscribe only after the UNSUBACK.         *)
AckMatchesRequest ==
    [][ /\ (ppc = "wait" /\ ppc' = "recv" /\ sem["puback"] = 1)
              => <<"puback", cur>> \in acked
        /\ (apc = "sub" /\ apc' = "idle" /\ atopic \in subs')
              => <<"suback", atopic>> \in acked
        /\ (apc = "unsub" /\ apc' = "idle" /\ atopic \notin subs')
              => <<"unsuback", atopic>> \in acked ]_vars

(* mqtt_state.nc is never dereferenced after mongoose has freed its       *)
(* connection (after MG_EV_CLOSE): not by mqtt_connect's is_closing       *)
(* write, not by a retransmission from the puback timer.                  *)
NoUseOfFreedConnection == ~freedUse

(* A QoS 0 message is sent once: the puback timer never retransmits it.   *)
QoS0SentOnce == \A m \in Msgs \ QoS1 : sent[m] <= 1

(* The current connection being up means mqtt_state.connected: a close   *)
(* event of a connection that mqtt_connect already replaced does not     *)
(* clear the flag of its successor.                                       *)
ConnectedReflectsLink == nc # 0 /\ link[nc] = "up" => connected
=============================================================================
