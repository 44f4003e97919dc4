------------------------------ MODULE EspTask ------------------------------
(***************************************************************************)
(* The task registry of src/src/osal/esp/osal_task_impl.c.                 *)
(*                                                                         *)
(* A task created with a caller-supplied stack gets its TCB and a registry *)
(* entry from pvPortMalloc; the entry is pushed on a singly linked list so *)
(* that osal_task_delete can find and free both.  The list is guarded by a *)
(* FreeRTOS mutex that osal_task_registry_lock creates on first use, with  *)
(* an unguarded NULL test.  Tasks run in parallel (preemption, two cores), *)
(* so each statement that reads or writes shared state is its own step:    *)
(* the NULL test, the creation, the take, the read of the list head and    *)
(* the write that links the new head.                                      *)
(*                                                                         *)
(* vTaskDelete of another task on an SMP build (Cores = 2) may find it     *)
(* running on, or pinned to, the other core: ESP-IDF's FreeRTOS then only  *)
(* puts it on xTasksWaitingTermination and yields that core, and the task  *)
(* stops, and the kernel lets go of its TCB, only when that core switches  *)
(* away (the task is "dying" until then).  With Cores = 1 the deleted task *)
(* is not running, and vTaskDelete has finished with it when it returns.   *)
(***************************************************************************)
EXTENDS Naturals, Sequences, SequencesExt

CONSTANTS Creators,   \* tasks that call osal_task_create / osal_task_delete
          Ids,        \* the tasks they create (their handles)
          SerialFirstUse, \* the application makes its first registry call
                          \* before any other task can make one
          Cores           \* portNUM_PROCESSORS: 1 or 2

ASSUME Cores \in {1, 2}

VARIABLES mtx,    \* osal_task_registry_mutex: "null", "free" or its holder
          reg,    \* the registry list, head first
          ts,     \* each task: "none", "running", "dying", "deleted"
          static, \* created with a stack buffer (has TCB + entry)
          mem,    \* its TCB and entry: "none", "alloc", "freed"
          how,    \* who deleted it: "none", "other", "self"
          pc,     \* each creator's position
          why,    \* "insert" (create) or "detach" (delete)
          tgt,    \* the task a creator is creating or deleting
          snap,   \* the list as a creator read it
          found   \* osal_task_registry_detach found the entry

vars == <<mtx, reg, ts, static, mem, how, pc, why, tgt, snap, found>>

Init ==
    /\ mtx = "null"
    /\ reg = <<>>
    /\ ts = [k \in Ids |-> "none"] /\ static = [k \in Ids |-> FALSE]
    /\ mem = [k \in Ids |-> "none"] /\ how = [k \in Ids |-> "none"]
    /\ pc = [c \in Creators |-> "idle"] /\ why = [c \in Creators |-> "insert"]
    /\ tgt = [c \in Creators |-> CHOOSE k \in Ids : TRUE]
    /\ snap = [c \in Creators |-> <<>>] /\ found = [c \in Creators |-> FALSE]

Goto(c, p) == pc' = [pc EXCEPT ![c] = p]

Busy(k) == \E c \in Creators : tgt[c] = k /\ pc[c] # "idle"

(* The registry is entered only by create with a stack buffer and by     *)
(* delete.  Under SerialFirstUse nobody enters it while another caller   *)
(* is inside before the mutex exists (an application that creates its   *)
(* first tasks from one task).                                           *)
MayEnter(c) ==
    SerialFirstUse => mtx # "null" \/ \A d \in Creators : pc[d] = "idle"

(* osal_task_create.  Without a stack buffer, xTaskCreatePinnedToCore     *)
(* succeeds or fails and nothing is registered.  With one, the entry and  *)
(* the TCB are allocated (a failed allocation frees what was taken), the  *)
(* task starts running at xTaskCreateStaticPinnedToCore, and the creator  *)
(* goes on to lock the registry and push the entry.                       *)
Create(c) ==
    /\ pc[c] = "idle"
    /\ \E k \in Ids, st \in BOOLEAN, ok \in BOOLEAN :
          /\ ts[k] = "none" /\ ~Busy(k)
          /\ IF ~ok
             THEN UNCHANGED <<ts, static, mem, pc, why, tgt>>
             ELSE /\ ts' = [ts EXCEPT ![k] = "running"]
                  /\ static' = [static EXCEPT ![k] = st]
                  /\ IF st
                     THEN /\ MayEnter(c)
                          /\ mem' = [mem EXCEPT ![k] = "alloc"]
                          /\ Goto(c, "lk_test")
                          /\ why' = [why EXCEPT ![c] = "insert"]
                          /\ tgt' = [tgt EXCEPT ![c] = k]
                     ELSE UNCHANGED <<mem, pc, why, tgt>>
    /\ UNCHANGED <<mtx, reg, how, snap, found>>

(* osal_task_delete of another task: detach its entry from the registry   *)
(* (under the lock), then vTaskDelete and free.                           *)
Delete(c) ==
    /\ pc[c] = "idle"
    /\ \E k \in Ids :
          /\ ts[k] = "running" /\ ~Busy(k) /\ MayEnter(c)
          /\ Goto(c, "lk_test")
          /\ why' = [why EXCEPT ![c] = "detach"]
          /\ tgt' = [tgt EXCEPT ![c] = k]
    /\ UNCHANGED <<mtx, reg, ts, static, mem, how, snap, found>>

(* osal_task_registry_lock, first line: the NULL test.                    *)
LockTest(c) ==
    /\ pc[c] = "lk_test"
    /\ Goto(c, IF mtx = "null" THEN "lk_create" ELSE "lk_take")
    /\ UNCHANGED <<mtx, reg, ts, static, mem, how, why, tgt, snap, found>>

(* xSemaphoreCreateMutexStatic on the one static buffer: a mutex that is  *)
(* free again, whoever held the buffer's previous incarnation.            *)
LockCreate(c) ==
    /\ pc[c] = "lk_create"
    /\ mtx' = "free"
    /\ Goto(c, "lk_take")
    /\ UNCHANGED <<reg, ts, static, mem, how, why, tgt, snap, found>>

(* xSemaphoreTake(..., portMAX_DELAY): wait until the mutex is free.      *)
LockTake(c) ==
    /\ pc[c] = "lk_take" /\ mtx = "free"
    /\ mtx' = c
    /\ Goto(c, IF why[c] = "insert" THEN "ins_read" ELSE "det_read")
    /\ UNCHANGED <<reg, ts, static, mem, how, why, tgt, snap, found>>

(* Registration: entry->next = head; head = entry.                       *)
InsRead(c) ==
    /\ pc[c] = "ins_read"
    /\ snap' = [snap EXCEPT ![c] = reg]
    /\ Goto(c, "ins_write")
    /\ UNCHANGED <<mtx, reg, ts, static, mem, how, why, tgt, found>>

(* Faulty variant: head = entry without linking the old list behind it.   *)
InsWriteNoLink(c) ==
    /\ pc[c] = "ins_write"
    /\ reg' = <<tgt[c]>>
    /\ Goto(c, "unlock")
    /\ UNCHANGED <<mtx, ts, static, mem, how, why, tgt, snap, found>>

InsWrite(c) ==
    /\ pc[c] = "ins_write"
    /\ reg' = Cons(tgt[c], snap[c])
    /\ Goto(c, "unlock")
    /\ UNCHANGED <<mtx, ts, static, mem, how, why, tgt, snap, found>>

(* osal_task_registry_detach: the walk from the head, then the unlink.    *)
(* Unlinking the head writes osal_task_registry_head from the walk's copy *)
(* of cur->next; unlinking further down writes prev->next in place.       *)
Unlinked(c) ==
    IF snap[c] # <<>> /\ Head(snap[c]) = tgt[c]
    THEN Tail(snap[c])
    ELSE Remove(reg, tgt[c])

DetRead(c) ==
    /\ pc[c] = "det_read"
    /\ snap' = [snap EXCEPT ![c] = reg]
    /\ Goto(c, "det_write")
    /\ UNCHANGED <<mtx, reg, ts, static, mem, how, why, tgt, found>>

DetWrite(c) ==
    /\ pc[c] = "det_write"
    /\ reg' = Unlinked(c)
    /\ found' = [found EXCEPT ![c] = Contains(snap[c], tgt[c])]
    /\ Goto(c, "unlock")
    /\ UNCHANGED <<mtx, ts, static, mem, how, why, tgt, snap>>

(* osal_task_registry_unlock: xSemaphoreGive, which does nothing for a    *)
(* task that does not hold the mutex.  Create then returns; delete goes   *)
(* on to vTaskDelete.                                                     *)
Unlock(c) ==
    /\ pc[c] = "unlock"
    /\ mtx' = IF mtx = c THEN "free" ELSE mtx
    /\ Goto(c, IF why[c] = "insert" THEN "idle" ELSE "kill")
    /\ UNCHANGED <<reg, ts, static, mem, how, why, tgt, snap, found>>

(* vTaskDelete(task_id), line 250.  On SMP the task may be running on the *)
(* other core and go on until that core switches away.                    *)
Kill(c) ==
    /\ pc[c] = "kill"
    /\ \E end \in IF Cores = 1 THEN {"deleted"} ELSE {"deleted", "dying"} :
          ts' = [ts EXCEPT ![tgt[c]] = end]
    /\ how' = [how EXCEPT ![tgt[c]] = "other"]
    /\ Goto(c, "free")
    /\ UNCHANGED <<mtx, reg, static, mem, why, tgt, snap, found>>

(* Faulty variant: delete returns without freeing the detached entry.     *)
FreeSkipped(c) ==
    /\ pc[c] = "free"
    /\ Goto(c, "idle")
    /\ UNCHANGED <<mtx, reg, ts, static, mem, how, why, tgt, snap, found>>

(* vPortFree(entry->tcb) and vPortFree(entry) if the entry was found.     *)
Free(c) ==
    /\ pc[c] = "free"
    /\ mem' = IF found[c] THEN [mem EXCEPT ![tgt[c]] = "freed"] ELSE mem
    /\ Goto(c, "idle")
    /\ UNCHANGED <<mtx, reg, ts, static, how, why, tgt, snap, found>>

(* The other core switches away from a task deleted while running there, *)
(* and the kernel is done with its TCB.                                  *)
Reclaim(k) ==
    /\ ts[k] = "dying"
    /\ ts' = [ts EXCEPT ![k] = "deleted"]
    /\ UNCHANGED <<mtx, reg, static, mem, how, pc, why, tgt, snap, found>>

(* osal_task_delete(own handle): vTaskDelete(self) and nothing else.      *)
SelfDelete(k) ==
    /\ ts[k] = "running"
    /\ ~\E c \in Creators : tgt[c] = k /\ why[c] = "detach" /\ pc[c] # "idle"
    /\ ts' = [ts EXCEPT ![k] = "deleted"]
    /\ how' = [how EXCEPT ![k] = "self"]
    /\ UNCHANGED <<mtx, reg, static, mem, pc, why, tgt, snap, found>>

Next ==
    \/ \E c \in Creators :
          \/ Create(c) \/ Delete(c) \/ LockTest(c) \/ LockCreate(c)
          \/ LockTake(c) \/ InsRead(c) \/ InsWrite(c) \/ DetRead(c)
          \/ DetWrite(c) \/ Unlock(c) \/ Kill(c) \/ Free(c)
    \/ \E k \in Ids : SelfDelete(k) \/ Reclaim(k)

Spec == Init /\ [][Next]_vars

-----------------------------------------------------------------------------
(* Every task created with a stack buffer and still running is on the    *)
(* registry once its creator has returned from osal_task_create, over    *)
(* any interleaving of creates and deletes by several tasks; otherwise   *)
(* osal_task_delete cannot find its entry and leaks the TCB and entry.   *)
NoLostRegistration ==
    \A k \in Ids : ts[k] = "running" /\ static[k] /\ ~Busy(k) => Contains(reg, k)

(* Once osal_task_delete of another task has returned, the TCB and entry *)
(* that osal_task_create allocated for a task with a caller-supplied     *)
(* stack are released.                                                   *)
StaticTaskReleased ==
    \A k \in Ids : how[k] = "other" /\ static[k] /\ ~Busy(k) => mem[k] = "freed"

(* Any deleted task with a caller-supplied stack has had its TCB and     *)
(* entry released, whichever task called osal_task_delete.               *)
DeletedTaskReleased ==
    \A k \in Ids : ts[k] = "deleted" /\ static[k] => mem[k] = "freed"

(* The TCB of a task is never freed while the task may still run or the  *)
(* kernel still holds it: the free in osal_task_delete must come after    *)
(* vTaskDelete has finished with the task.  Fails with Cores = 2: a task  *)
(* running on the other core is only marked by vTaskDelete, and the TCB   *)
(* is freed under it (create with a stack, delete, vTaskDelete, free).   *)
NoFreeWhileRunning ==
    \A k \in Ids : mem[k] = "freed" => ts[k] = "deleted"
=============================================================================
