------------------------------ MODULE OsalMutex ------------------------------
(***************************************************************************)
(* The mutex wrapper, src/src/osal/posix/osal_mutex_impl.c and            *)
(* src/src/osal/esp/osal_mutex_impl.c, chosen by the constant Backend.     *)
(*                                                                         *)
(* POSIX: pthread_mutex_init with NULL attributes gives the default mutex  *)
(* type.  Unlocking it from a thread that does not own it, or unlocking it *)
(* when free, is undefined by POSIX; glibc's default (PTHREAD_MUTEX_TIMED) *)
(* unlock releases the lock without looking at the owner and returns 0.   *)
(* glibc counts users in __nusers: lock adds one, unlock takes one away   *)
(* (an unsigned count, so an unlock too many leaves it non-zero), and     *)
(* pthread_mutex_destroy returns EBUSY when __nusers is not 0, whoever    *)
(* holds the lock.                                                        *)
(*                                                                         *)
(* ESP: xSemaphoreCreateMutex gives a FreeRTOS mutex.  A give when it is   *)
(* free finds the one-item queue full and fails at once; a give by a task *)
(* other than the holder reaches configASSERT(pxTCB == pxCurrentTCB) in    *)
(* xTaskPriorityDisinherit and aborts (ESP-IDF builds keep configASSERT). *)
(* vSemaphoreDelete deletes whatever the state.                            *)
(*                                                                         *)
(* On both a take by the holder blocks for ever (the mutexes are not       *)
(* recursive), and a freed mutex wakes one blocked taker, which contends  *)
(* again with any other caller.  Status codes are abstracted to the ghost  *)
(* `owners`: the tasks whose take returned OSAL_SUCCESS and whose own give *)
(* has not since returned OSAL_SUCCESS.                                    *)
(***************************************************************************)
EXTENDS Integers, FiniteSets

CONSTANTS Backend,   \* "posix" or "esp": which file is compiled
          Tasks,     \* tasks calling the API on one mutex
          NoTask,    \* no holder
          MaxStrayUnlocks  \* bound: unlocks more than locks (POSIX)

ASSUME Backend \in {"posix", "esp"} /\ NoTask \notin Tasks

VARIABLES mtx,      \* the handle: "none", "live", "deleted"
          holder,   \* the task holding the lock, or NoTask
          blocked,  \* tasks waiting inside pthread_mutex_lock / xSemaphoreTake
          owners,   \* ghost: tasks told they hold the mutex
          aborted,  \* a configASSERT has stopped the program
          nusers    \* glibc's __nusers, as a signed count (POSIX only)

vars == <<mtx, holder, blocked, owners, aborted, nusers>>

TypeOK ==
    /\ mtx \in {"none", "live", "deleted"}
    /\ holder \in Tasks \cup {NoTask}
    /\ blocked \subseteq Tasks /\ owners \subseteq Tasks
    /\ aborted \in BOOLEAN
    /\ nusers \in -MaxStrayUnlocks .. Cardinality(Tasks)

Init ==
    /\ mtx = "none" /\ holder = NoTask /\ blocked = {}
    /\ owners = {} /\ aborted = FALSE /\ nusers = 0

(* pthread_mutex_lock acquired: ++__nusers.  FreeRTOS keeps no count.     *)
UserIn ==
    IF Backend = "posix" THEN nusers' = nusers + 1 ELSE UNCHANGED nusers

(* A task may call when the program runs and it is not blocked.           *)
Calls(t) == ~aborted /\ t \notin blocked

(* osal_mutex_create: malloc and pthread_mutex_init, or                    *)
(* xSemaphoreCreateMutex; either may fail with OSAL_ERROR and no handle.  *)
Create(t) ==
    /\ Calls(t) /\ mtx = "none"
    /\ mtx' = "live"
    /\ UNCHANGED <<holder, blocked, owners, aborted, nusers>>

(* osal_mutex_take: the lock is taken when free, else the caller blocks,  *)
(* the holder itself included.                                            *)
Take(t) ==
    /\ Calls(t) /\ mtx = "live"
    /\ IF holder = NoTask
       THEN holder' = t /\ owners' = owners \cup {t} /\ UserIn
            /\ UNCHANGED blocked
       ELSE blocked' = blocked \cup {t} /\ UNCHANGED <<holder, owners, nusers>>
    /\ UNCHANGED <<mtx, aborted>>

(* A blocked taker wins the freed lock and its take returns OSAL_SUCCESS. *)
TakeWoken(t) ==
    /\ ~aborted /\ t \in blocked /\ mtx = "live" /\ holder = NoTask
    /\ holder' = t /\ owners' = owners \cup {t} /\ blocked' = blocked \ {t}
    /\ UserIn
    /\ UNCHANGED <<mtx, aborted>>

(* osal_mutex_give, POSIX: pthread_mutex_unlock releases whoever holds    *)
(* the lock, --__nusers, and returns 0.                                   *)
PosixGive(t) ==
    /\ nusers > -MaxStrayUnlocks
    /\ holder' = NoTask /\ owners' = owners \ {t} /\ nusers' = nusers - 1
    /\ UNCHANGED aborted

(* osal_mutex_give, ESP: xSemaphoreGive fails on a free mutex             *)
(* (OSAL_SEM_FAILURE), releases when the caller holds it, and aborts      *)
(* otherwise.                                                             *)
EspGive(t) ==
    /\ CASE holder = NoTask -> UNCHANGED <<holder, owners, aborted>>
         [] holder = t      -> holder' = NoTask /\ owners' = owners \ {t}
                               /\ UNCHANGED aborted
         [] OTHER           -> aborted' = TRUE /\ UNCHANGED <<holder, owners>>
    /\ UNCHANGED nusers

Give(t) ==
    /\ Calls(t) /\ mtx = "live"
    /\ IF Backend = "posix" THEN PosixGive(t) ELSE EspGive(t)
    /\ UNCHANGED <<mtx, blocked>>

(* osal_mutex_delete, POSIX: pthread_mutex_destroy refuses with EBUSY     *)
(* while __nusers is not 0 (OSAL_ERR_INVALID_ID, nothing freed), else the *)
(* mutex is destroyed and freed.                                          *)
PosixDelete ==
    IF nusers # 0 THEN UNCHANGED mtx ELSE mtx' = "deleted"

(* osal_mutex_delete, ESP: vSemaphoreDelete deletes whatever the state.   *)
EspDelete == mtx' = "deleted"

Delete(t) ==
    /\ Calls(t) /\ mtx = "live"
    /\ IF Backend = "posix" THEN PosixDelete ELSE EspDelete
    /\ UNCHANGED <<holder, blocked, owners, aborted, nusers>>

Next == \E t \in Tasks :
           Create(t) \/ Take(t) \/ TakeWoken(t) \/ Give(t) \/ Delete(t)

Spec == Init /\ [][Next]_vars

-----------------------------------------------------------------------------
(* At most one task is told it holds the mutex (spec.md 2: an owner-      *)
(* tracking exclusion; 3: at most one owner, only the owner may release;  *)
(* 4.4).  osal_mutex_give must not let a task that does not hold the      *)
(* mutex release it for the holder.                                       *)
(* Fails on POSIX, where the default pthread mutex tracks no owner for     *)
(* unlock: t1 takes, t2 gives, t2 takes, and both return from take with   *)
(* OSAL_SUCCESS.                                                          *)
MutexExclusive == Cardinality(owners) <= 1
=============================================================================
