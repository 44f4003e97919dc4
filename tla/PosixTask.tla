------------------------------ MODULE PosixTask ------------------------------
(***************************************************************************)
(* POSIX tasks, src/src/osal/posix/osal_task_impl.c, together with the     *)
(* queue they block on, src/src/osal/posix/osal_queue_impl.c.              *)
(*                                                                         *)
(* osal_task_create starts a pthread at osal_task_entry, which frees the   *)
(* start block and runs the routine.  The routine of a task is a loop of   *)
(* OSAL calls; the ones modelled are the two that block: a receive from a  *)
(* shared queue and osal_task_delay_ms.  osal_task_delete is              *)
(* pthread_cancel followed by pthread_join.                                *)
(*                                                                         *)
(* Cancellation is deferred (the pthread default, which the code never     *)
(* changes): a pending cancel acts only when the thread is in a            *)
(* cancellation point.  The ones on these paths are pthread_cond_wait and  *)
(* pthread_cond_timedwait (inside osal_queue_receive) and nanosleep       *)
(* (inside osal_task_delay_ms); pthread_mutex_lock, memcpy and            *)
(* pthread_cond_signal are not.  A thread cancelled inside a condition     *)
(* wait re-acquires the mutex before it unwinds, and the queue code pushes *)
(* no cleanup handler that would unlock it.                               *)
(*                                                                         *)
(* As in PosixQueue, code run with the queue mutex held is one step; the   *)
(* mutex is a variable here only because a thread can now end holding it. *)
(* Other application threads send to the queue with timeout 0.            *)
(***************************************************************************)
EXTENDS Naturals, FiniteSets

CONSTANTS Tasks,          \* threads made by osal_task_create
          Senders,        \* other threads calling osal_queue_send(q, x, 0)
          Cap,            \* max_items of the queue
          Timeouts,       \* timeout_ms a routine passes to osal_queue_receive
          OSAL_MAX_DELAY, \* "wait forever"
          NoThread        \* the mutex is free / nobody to signal

ASSUME /\ Cap \in Nat \ {0}
       /\ Tasks \cap Senders = {}
       /\ Timeouts \subseteq Nat \cup {OSAL_MAX_DELAY}

Threads == Tasks \cup Senders

VARIABLES life,      \* pthread state of each task
          start,     \* tasks whose struct osal_task_start is still allocated
          pc,        \* where a running task is in its routine
          tmo,       \* timeout_ms of the task's current receive
          cancelReq, \* pthread_cancel has been called on the task
          joining,   \* the task the deleting thread is in pthread_join for
          mtx,       \* owner of queue->mutex between steps
          count,     \* queue->count
          notEmpty   \* tasks blocked on queue->not_empty

vars == <<life, start, pc, tmo, cancelReq, joining, mtx, count, notEmpty>>

(* "none": never created; "started": pthread_create returned, entry not  *)
(* yet run; "running"; "exited": the thread ended; "joined": reaped.     *)
Lives == {"none", "started", "running", "exited", "joined"}
(* In the routine between calls; in a condition wait; woken or timed     *)
(* out and re-acquiring the mutex; in nanosleep.                         *)
PCs == {"body", "waiting", "woken", "expired", "sleep"}

TypeOK ==
    /\ life \in [Tasks -> Lives]
    /\ start \subseteq Tasks
    /\ pc \in [Tasks -> PCs]
    /\ tmo \in [Tasks -> Timeouts]
    /\ cancelReq \subseteq Tasks
    /\ joining \in Tasks \cup {NoThread}
    /\ mtx \in Threads \cup {NoThread}
    /\ count \in 0 .. Cap
    /\ notEmpty \subseteq Tasks

(* No task yet; the queue as osal_queue_create leaves it.                 *)
Init ==
    /\ life = [t \in Tasks |-> "none"]
    /\ start = {}
    /\ pc = [t \in Tasks |-> "body"]
    /\ tmo = [t \in Tasks |-> CHOOSE x \in Timeouts : TRUE]
    /\ cancelReq = {}
    /\ joining = NoThread
    /\ mtx = NoThread
    /\ count = 0
    /\ notEmpty = {}

Free == mtx = NoThread

(* osal_task_create: the start block is malloc'ed and pthread_create      *)
(* succeeds.  Every failing path before or after the malloc frees it and *)
(* returns an error, leaving the state as it was.                        *)
Create(t) ==
    /\ life[t] = "none"
    /\ life' = [life EXCEPT ![t] = "started"]
    /\ start' = start \cup {t}
    /\ UNCHANGED <<pc, tmo, cancelReq, joining, mtx, count, notEmpty>>

(* osal_task_entry: copy routine and arg, free the start block, run the   *)
(* routine.                                                              *)
Entry(t) ==
    /\ life[t] = "started"
    /\ life' = [life EXCEPT ![t] = "running"]
    /\ start' = start \ {t}
    /\ pc' = [pc EXCEPT ![t] = "body"]
    /\ UNCHANGED <<tmo, cancelReq, joining, mtx, count, notEmpty>>

Running(t) == life[t] = "running"

(* osal_queue_receive from the `while (count == 0)` test, mutex held: an *)
(* item is taken; a poll returns OSAL_QUEUE_EMPTY; otherwise the thread  *)
(* waits on not_empty and the wait releases the mutex.                   *)
RecvLoop(t, to) ==
    /\ tmo' = [tmo EXCEPT ![t] = to]
    /\ IF count > 0
       THEN /\ count' = count - 1
            /\ pc' = [pc EXCEPT ![t] = "body"]
            /\ UNCHANGED notEmpty
       ELSE IF to = 0
            THEN /\ pc' = [pc EXCEPT ![t] = "body"]
                 /\ UNCHANGED <<count, notEmpty>>
            ELSE /\ pc' = [pc EXCEPT ![t] = "waiting"]
                 /\ notEmpty' = notEmpty \cup {t}
                 /\ UNCHANGED count
    /\ UNCHANGED <<life, start, cancelReq, joining, mtx>>

(* The routine calls osal_queue_receive: pthread_mutex_lock, loop test.  *)
Receive(t) ==
    /\ Running(t) /\ pc[t] = "body" /\ Free
    /\ \E to \in Timeouts : RecvLoop(t, to)

(* The wait returned 0 and the mutex is back: test the loop again.       *)
RecvWoken(t) ==
    /\ Running(t) /\ pc[t] = "woken" /\ Free
    /\ RecvLoop(t, tmo[t])

(* A timed wait reaches its deadline, or any wait wakes spuriously.      *)
WaitEnds(t) ==
    /\ Running(t) /\ pc[t] = "waiting"
    /\ \/ tmo[t] # OSAL_MAX_DELAY /\ pc' = [pc EXCEPT ![t] = "expired"]
       \/ pc' = [pc EXCEPT ![t] = "woken"]
    /\ notEmpty' = notEmpty \ {t}
    /\ UNCHANGED <<life, start, tmo, cancelReq, joining, mtx, count>>

(* ETIMEDOUT with the mutex back: unlock, OSAL_QUEUE_TIMEOUT.             *)
RecvTimeout(t) ==
    /\ Running(t) /\ pc[t] = "expired" /\ Free
    /\ pc' = [pc EXCEPT ![t] = "body"]
    /\ UNCHANGED <<life, start, tmo, cancelReq, joining, mtx, count, notEmpty>>

(* osal_task_delay_ms: nanosleep, then return to the routine.            *)
Delay(t) ==
    /\ Running(t) /\ pc[t] = "body"
    /\ pc' = [pc EXCEPT ![t] = "sleep"]
    /\ UNCHANGED <<life, start, tmo, cancelReq, joining, mtx, count, notEmpty>>

Slept(t) ==
    /\ Running(t) /\ pc[t] = "sleep"
    /\ pc' = [pc EXCEPT ![t] = "body"]
    /\ UNCHANGED <<life, start, tmo, cancelReq, joining, mtx, count, notEmpty>>

(* A pending cancel acts at the cancellation point the task is in.  In a *)
(* condition wait (blocked, or woken and not yet holding the mutex) the  *)
(* thread first re-acquires queue->mutex and then ends; no cleanup       *)
(* handler unlocks it.  In nanosleep it ends holding nothing.            *)
ActOnCancel(t) ==
    /\ Running(t) /\ t \in cancelReq
    /\ \/ /\ pc[t] \in {"waiting", "woken", "expired"}
          /\ Free
          /\ mtx' = t
       \/ /\ pc[t] = "sleep"
          /\ UNCHANGED mtx
    /\ life' = [life EXCEPT ![t] = "exited"]
    /\ notEmpty' = notEmpty \ {t}
    /\ UNCHANGED <<start, pc, tmo, cancelReq, joining, count>>

(* osal_task_delete from the application's thread: pthread_cancel marks  *)
(* the cancel pending and pthread_join blocks until the task has ended.  *)
Delete(t) ==
    /\ joining = NoThread
    /\ life[t] \in {"started", "running"}
    /\ cancelReq' = cancelReq \cup {t}
    /\ joining' = t
    /\ UNCHANGED <<life, start, pc, tmo, mtx, count, notEmpty>>

(* pthread_join returns; ret_cancel and ret_join are 0: OSAL_SUCCESS.    *)
Join ==
    /\ joining # NoThread
    /\ life[joining] = "exited"
    /\ life' = [life EXCEPT ![joining] = "joined"]
    /\ joining' = NoThread
    /\ UNCHANGED <<start, pc, tmo, cancelReq, mtx, count, notEmpty>>

(* osal_queue_send(q, x, 0) from another thread: pthread_mutex_lock      *)
(* (which blocks while any thread owns the mutex), then store the item   *)
(* and signal one not_empty waiter, or return OSAL_QUEUE_FULL.           *)
Send ==
    /\ Free
    /\ IF count < Cap
       THEN /\ count' = count + 1
            /\ \E w \in IF notEmpty = {} THEN {NoThread} ELSE notEmpty :
                  /\ notEmpty' = notEmpty \ {w}
                  /\ pc' = [t \in Tasks |-> IF t = w THEN "woken" ELSE pc[t]]
       ELSE UNCHANGED <<count, notEmpty, pc>>
    /\ UNCHANGED <<life, start, tmo, cancelReq, joining, mtx>>

Next ==
    \/ \E t \in Tasks :
          \/ Create(t) \/ Entry(t) \/ Delete(t) \/ ActOnCancel(t)
          \/ Receive(t) \/ RecvWoken(t) \/ WaitEnds(t) \/ RecvTimeout(t)
          \/ Delay(t) \/ Slept(t)
    \/ Join
    \/ \E s \in Senders : Send

Spec == Init /\ [][Next]_vars

-----------------------------------------------------------------------------
(* The queue stays usable after osal_task_delete: a task that has ended  *)
(* does not own the queue mutex.  Fails when the task is cancelled in    *)
(* the pthread_cond_wait of osal_queue_receive, which re-acquires the    *)
(* mutex on the way out; after that every osal_queue_send or receive on  *)
(* the queue blocks for ever in pthread_mutex_lock.                      *)
NoMutexHeldByEndedTask ==
    \A t \in Tasks : life[t] \in {"exited", "joined"} => mtx # t
=============================================================================
