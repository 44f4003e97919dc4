----------------------------- MODULE PosixQueue -----------------------------
(***************************************************************************)
(* The hosted (POSIX) message queue, src/src/osal/posix/osal_queue_impl.c. *)
(*                                                                         *)
(* A queue is a ring buffer (slots, head, tail, count) guarded by one      *)
(* pthread mutex, with two condition variables: senders wait on not_full,  *)
(* receivers on not_empty.  Every stretch of code that runs with the mutex *)
(* held is one atomic step here, so the mutex itself is not a variable: a  *)
(* step begins where a thread obtains the mutex (pthread_mutex_lock, or    *)
(* the re-acquire inside pthread_cond_[timed]wait) and ends where it gives *)
(* it up (pthread_mutex_unlock, or the release inside the wait).           *)
(*                                                                         *)
(* A condition variable is the set of threads blocked on it.               *)
(* pthread_cond_signal moves one of them, any one, to "woken"; a timed     *)
(* waiter may time out ("expired"); any waiter may wake spuriously.  A     *)
(* woken or expired thread still has to re-acquire the mutex, and other    *)
(* threads may run in between.                                            *)
(***************************************************************************)
EXTENDS Naturals, Sequences, FiniteSets

CONSTANTS Cap,             \* max_items given to osal_queue_create (> 0)
          Items,           \* the values callers send (item_size bytes)
          Senders,         \* threads calling osal_queue_send
          Receivers,       \* threads calling osal_queue_receive
          Timeouts,        \* the timeout_ms arguments callers pass
          OSAL_MAX_DELAY,  \* 0xFFFFFFFF, "wait forever"
          NoItem,          \* a slot or buffer nobody has written
          NoThread         \* "no waiter to wake"

ASSUME /\ Cap \in Nat \ {0}
       /\ Senders \cap Receivers = {}
       /\ {0, OSAL_MAX_DELAY} \subseteq Timeouts
       /\ NoItem \notin Items

Threads == Senders \cup Receivers
Slots   == 0 .. (Cap - 1)

VARIABLES slots,     \* queue->buffer, one item per slot
          head,      \* queue->head
          tail,      \* queue->tail
          count,     \* queue->count
          notEmpty,  \* threads blocked on queue->not_empty
          notFull,   \* threads blocked on queue->not_full
          pc,        \* where each thread is
          tmo,       \* timeout_ms of the thread's current call
          arg,       \* *item of a sender's current call
          rcv        \* *buffer of a receiver: what it last copied out

vars == <<slots, head, tail, count, notEmpty, notFull, pc, tmo, arg, rcv>>

(* pc values: outside any call, blocked in a wait, returned from a wait   *)
(* with 0 and not yet holding the mutex, returned with ETIMEDOUT.         *)
PCs == {"idle", "waiting", "woken", "expired"}

TypeOK ==
    /\ slots \in [Slots -> Items \cup {NoItem}]
    /\ head \in Slots /\ tail \in Slots
    /\ count \in 0 .. Cap
    /\ notEmpty \subseteq Receivers /\ notFull \subseteq Senders
    /\ pc \in [Threads -> PCs]
    /\ tmo \in [Threads -> Timeouts]
    /\ arg \in [Senders -> Items]
    /\ rcv \in [Receivers -> Items \cup {NoItem}]

(* The state osal_queue_create leaves: control block zeroed by memset,    *)
(* ring buffer from malloc, so its bytes are whatever the heap held.      *)
Init ==
    /\ slots \in [Slots -> Items \cup {NoItem}]
    /\ head = 0 /\ tail = 0 /\ count = 0
    /\ notEmpty = {} /\ notFull = {}
    /\ pc = [t \in Threads |-> "idle"]
    /\ tmo = [t \in Threads |-> 0]
    /\ arg = [t \in Senders |-> CHOOSE x \in Items : TRUE]
    /\ rcv = [r \in Receivers |-> NoItem]

(* Faulty variants of definitions below, each a slip the C code could    *)
(* make: a pthread_cond_signal left out, an index advanced without the   *)
(* `% max_items` wrap, a receive that forgets to advance head.            *)
SignalTargetsOmitted(waiters) == {NoThread}
AdvanceNoWrap(i) == i + 1

(* pthread_cond_signal: the threads it may unblock (NoThread when none).  *)
SignalTargets(waiters) == IF waiters = {} THEN {NoThread} ELSE waiters

(* `(index + 1U) % queue->max_items`                                      *)
Advance(i) == (i + 1) % Cap

(* memcpy into slot tail, tail advances, count++.                         *)
PutItem(x) == /\ slots' = [slots EXCEPT ![tail] = x]
              /\ tail' = Advance(tail)
              /\ count' = count + 1

TakeItemKeepHead(t) == /\ rcv' = [rcv EXCEPT ![t] = slots[head]]
                       /\ head' = head
                       /\ count' = count - 1

(* memcpy out of slot head, head advances, count--.                       *)
TakeItem(t) == /\ rcv' = [rcv EXCEPT ![t] = slots[head]]
               /\ head' = Advance(head)
               /\ count' = count - 1

(* The new pc of every thread when t returns and w is unblocked.          *)
ReturnAndWake(t, w) ==
    [u \in Threads |-> IF u = t THEN "idle" ELSE IF u = w THEN "woken" ELSE pc[u]]

Blocks(to) == to # 0

(* osal_queue_send from the `while (count == max_items)` test on, mutex   *)
(* held, with timeout to and item x: poll fails, a blocking call waits,   *)
(* otherwise the item is copied to slot tail, tail advances, count grows  *)
(* and one not_empty waiter is signalled before the unlock.               *)
SendLoop(t, to, x) ==
    /\ tmo' = [tmo EXCEPT ![t] = to]
    /\ arg' = [arg EXCEPT ![t] = x]
    /\ IF count = Cap
       THEN IF ~Blocks(to)
            THEN /\ pc' = [pc EXCEPT ![t] = "idle"]          \* OSAL_QUEUE_FULL
                 /\ UNCHANGED <<slots, head, tail, count, notEmpty, notFull, rcv>>
            ELSE /\ pc' = [pc EXCEPT ![t] = "waiting"]
                 /\ notFull' = notFull \cup {t}
                 /\ UNCHANGED <<slots, head, tail, count, notEmpty, rcv>>
       ELSE /\ PutItem(x)
            /\ \E w \in SignalTargets(notEmpty) :
                  /\ notEmpty' = notEmpty \ {w}
                  /\ pc' = ReturnAndWake(t, w)                 \* OSAL_SUCCESS
            /\ UNCHANGED <<head, notFull, rcv>>

(* osal_queue_receive from the `while (count == 0)` test on, mutex held.  *)
RecvLoop(t, to) ==
    /\ tmo' = [tmo EXCEPT ![t] = to]
    /\ UNCHANGED arg
    /\ IF count = 0
       THEN IF ~Blocks(to)
            THEN /\ pc' = [pc EXCEPT ![t] = "idle"]          \* OSAL_QUEUE_EMPTY
                 /\ UNCHANGED <<slots, head, tail, count, notEmpty, notFull, rcv>>
            ELSE /\ pc' = [pc EXCEPT ![t] = "waiting"]
                 /\ notEmpty' = notEmpty \cup {t}
                 /\ UNCHANGED <<slots, head, tail, count, notFull, rcv>>
       ELSE /\ TakeItem(t)
            /\ \E w \in SignalTargets(notFull) :
                  /\ notFull' = notFull \ {w}
                  /\ pc' = ReturnAndWake(t, w)                 \* OSAL_SUCCESS
            /\ UNCHANGED <<slots, tail, notEmpty>>

(* A call: argument checks pass, the deadline is taken, the mutex is      *)
(* locked, and the loop test runs.                                        *)
SendCall(t) ==
    /\ pc[t] = "idle"
    /\ \E to \in Timeouts, x \in Items : SendLoop(t, to, x)

RecvCall(t) ==
    /\ pc[t] = "idle"
    /\ \E to \in Timeouts : RecvLoop(t, to)

(* The wait returned 0 (signal or spurious): the mutex is re-acquired and *)
(* the loop test runs again with the same timeout and item.               *)
SendWoken(t) == pc[t] = "woken" /\ SendLoop(t, tmo[t], arg[t])
RecvWoken(t) == pc[t] = "woken" /\ RecvLoop(t, tmo[t])

(* pthread_cond_timedwait reaches its deadline: the thread leaves the     *)
(* condition variable but has not yet got the mutex back.                 *)
Expire(t) ==
    /\ pc[t] = "waiting"
    /\ tmo[t] \notin {0, OSAL_MAX_DELAY}
    /\ pc' = [pc EXCEPT ![t] = "expired"]
    /\ notEmpty' = notEmpty \ {t}
    /\ notFull' = notFull \ {t}
    /\ UNCHANGED <<slots, head, tail, count, tmo, arg, rcv>>

(* With the mutex back, ret == ETIMEDOUT: unlock, OSAL_QUEUE_TIMEOUT.     *)
ExpiredReturn(t) ==
    /\ pc[t] = "expired"
    /\ pc' = [pc EXCEPT ![t] = "idle"]
    /\ UNCHANGED <<slots, head, tail, count, notEmpty, notFull, tmo, arg, rcv>>

(* A spurious wake-up, which POSIX allows for any waiter.                 *)
Spurious(t) ==
    /\ pc[t] = "waiting"
    /\ pc' = [pc EXCEPT ![t] = "woken"]
    /\ notEmpty' = notEmpty \ {t}
    /\ notFull' = notFull \ {t}
    /\ UNCHANGED <<slots, head, tail, count, tmo, arg, rcv>>

Next ==
    \/ \E t \in Senders : SendCall(t) \/ SendWoken(t)
    \/ \E t \in Receivers : RecvCall(t) \/ RecvWoken(t)
    \/ \E t \in Threads : Expire(t) \/ ExpiredReturn(t) \/ Spurious(t)

Spec == Init /\ [][Next]_vars

-----------------------------------------------------------------------------
(* The items the ring buffer holds, oldest first: count slots from head.  *)
Contents == [i \in 1 .. count |-> slots[(head + i - 1) % Cap]]

(* FIFO: the ring buffer implements the abstract bounded queue; every     *)
(* successful send appends its item and every successful receive copies   *)
(* out the oldest one (osal_queue_send/receive with head, tail, count).   *)
Abstract == INSTANCE QueueSpec WITH q <- Contents
ImplementsQueueSpec == Abstract!Spec

(* No lost wake-up: while a receiver is blocked on not_empty, every item  *)
(* in the queue has its own woken receiver on the way to take it, and     *)
(* while a sender is blocked on not_full every free slot has a woken      *)
(* sender.  It fails when a send or receive forgets its signal, or        *)
(* signals too few waiters (the pthread_cond_signal calls in send and     *)
(* receive), leaving a thread blocked beside an item or a free slot.      *)
NoLostWakeup ==
    /\ notEmpty # {} =>
         count <= Cardinality({r \in Receivers : pc[r] = "woken"})
    /\ notFull # {} =>
         Cap - count <= Cardinality({s \in Senders : pc[s] = "woken"})
=============================================================================
