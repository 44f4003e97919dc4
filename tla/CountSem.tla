------------------------------ MODULE CountSem ------------------------------
(***************************************************************************)
(* The counting semaphore of both backends:                                *)
(*   src/src/osal/posix/osal_count_sem_impl.c  (a POSIX sem_t)             *)
(*   src/src/osal/esp/osal_count_sem_impl.c    (a FreeRTOS counting sem)   *)
(* and the ESP binary semaphore (src/src/osal/esp/osal_bin_sem_impl.c).   *)
(*                                                                         *)
(* The kernel object is a counter with a limit: sem_post fails with        *)
(* EOVERFLOW at SEM_VALUE_MAX, xSemaphoreGive fails at the uxMaxCount      *)
(* given to xSemaphoreCreateCounting.  Each kernel call is atomic.  A task *)
(* blocked in a take leaves the wait when a token is there (it takes it)   *)
(* or, for a finite timeout, when its deadline passes.  An ISR is a        *)
(* caller that never blocks.                                               *)
(***************************************************************************)
EXTENDS Naturals

CONSTANTS Backend,        \* "posix" or "esp": which file is compiled
          Tasks,          \* task-context callers
          InitValues,     \* initial_value arguments of osal_count_sem_create
          MaxValues,      \* max_value arguments (0 = "no limit")
          Timeouts,       \* timeout_ms arguments of osal_count_sem_timed_wait
          OSAL_MAX_DELAY, \* wait forever
          SEM_VALUE_MAX   \* the POSIX limit of a sem_t counter

ASSUME /\ Backend \in {"posix", "esp"}
       /\ InitValues \subseteq Nat /\ MaxValues \subseteq Nat
       /\ {0, OSAL_MAX_DELAY} \subseteq Timeouts
       /\ SEM_VALUE_MAX \in Nat \ {0}

VARIABLES sem,    \* lifecycle of the handle: "none", "live", "failed", "deleted"
          count,  \* the kernel counter
          limit,  \* the largest value the kernel lets the counter reach
          maxArg, \* max_value as passed to create
          pc,     \* "idle" or "blocked" for each task
          tmo,    \* timeout of a task's current take
          ret,    \* status each caller last got
          replied \* flips with every status returned to a caller

vars == <<sem, count, limit, maxArg, pc, tmo, ret, replied>>

Callers  == Tasks \cup {"isr"}
Statuses == {"NONE", "SUCCESS", "ERROR", "INVALID_SEM_VALUE", "SEM_FAILURE",
             "SEM_TIMEOUT", "NOT_IMPLEMENTED"}

TypeOK ==
    /\ sem \in {"none", "live", "failed", "deleted"}
    /\ count \in Nat /\ limit \in Nat /\ maxArg \in MaxValues \cup {0, 1}
    /\ pc \in [Tasks -> {"idle", "blocked"}]
    /\ tmo \in [Tasks -> Timeouts]
    /\ ret \in [Callers -> Statuses]
    /\ replied \in [Callers -> {0, 1}]

Init ==
    /\ sem = "none" /\ count = 0 /\ limit = 0 /\ maxArg = 0
    /\ pc = [t \in Tasks |-> "idle"]
    /\ tmo = [t \in Tasks |-> 0]
    /\ ret = [c \in Callers |-> "NONE"]
    /\ replied = [c \in Callers |-> 0]

Reply(c, s) == /\ ret' = [ret EXCEPT ![c] = s]
               /\ replied' = [replied EXCEPT ![c] = 1 - @]

(* A create that returns an error: no semaphore exists.                   *)
Refuse(c, s) == sem' = "failed" /\ Reply(c, s) /\ UNCHANGED <<count, limit>>

(* POSIX create: initial_value > max_value is refused only when max_value *)
(* is given; sem_init fails (EINVAL) above SEM_VALUE_MAX.                 *)
PosixCreate(c, i, m) ==
    CASE m # 0 /\ i > m      -> Refuse(c, "INVALID_SEM_VALUE")
      [] i > SEM_VALUE_MAX   -> Refuse(c, "ERROR")
      [] OTHER               -> /\ sem' = "live" /\ count' = i
                                /\ limit' = SEM_VALUE_MAX
                                /\ Reply(c, "SUCCESS")

(* Faulty variant: the initial_value > effective_max check left out.      *)
EspCreateNoValueCheck(c, i, m) ==
    LET eff == IF m = 0 THEN (IF i = 0 THEN 1 ELSE i) ELSE m
    IN  /\ sem' = "live" /\ count' = i /\ limit' = eff
        /\ Reply(c, "SUCCESS")

(* ESP create: max_value 0 becomes max(initial_value, 1).                 *)
EspCreate(c, i, m) ==
    LET eff == IF m = 0 THEN (IF i = 0 THEN 1 ELSE i) ELSE m
    IN  IF i > eff
        THEN Refuse(c, "INVALID_SEM_VALUE")
        ELSE /\ sem' = "live" /\ count' = i /\ limit' = eff
             /\ Reply(c, "SUCCESS")

(* ESP osal_bin_sem_create: initial_value above OSAL_SEM_FULL (1) is      *)
(* refused; xSemaphoreCreateBinary makes an empty semaphore with limit 1  *)
(* and a give fills it.  Its give, take, timed wait and ISR calls are the *)
(* same FreeRTOS calls as the counting semaphore's and the same actions.  *)
BinCreate(c, i) ==
    IF i > 1
    THEN Refuse(c, "INVALID_SEM_VALUE")
    ELSE /\ sem' = "live" /\ count' = i /\ limit' = 1
         /\ Reply(c, "SUCCESS")

(* A create of a counting semaphore, or on ESP of a binary one (its      *)
(* max is 1; the POSIX backend has no binary semaphore implementation).  *)
Create(c) ==
    /\ sem # "live" /\ c \in Tasks
    /\ \E i \in InitValues :
          \/ \E m \in MaxValues :
                /\ maxArg' = m
                /\ IF Backend = "posix" THEN PosixCreate(c, i, m) ELSE EspCreate(c, i, m)
          \/ Backend = "esp" /\ maxArg' = 1 /\ BinCreate(c, i)
    /\ UNCHANGED <<pc, tmo>>

(* osal_count_sem_give (and give_from_isr on ESP): sem_post or            *)
(* xSemaphoreGive, which fail when the counter is at its limit.           *)
Give(c) ==
    /\ sem = "live" /\ (c \in Tasks => pc[c] = "idle")
    /\ IF count < limit
       THEN count' = count + 1 /\ Reply(c, "SUCCESS")
       ELSE UNCHANGED count /\ Reply(c, "SEM_FAILURE")
    /\ UNCHANGED <<sem, limit, maxArg, pc, tmo>>

(* osal_count_sem_take is a timed wait with OSAL_MAX_DELAY.  A token is   *)
(* taken at once; a poll fails with SEM_TIMEOUT (sem_trywait EAGAIN, or   *)
(* xSemaphoreTake with 0 ticks); otherwise the task blocks.               *)
TakeCall(t) ==
    /\ sem = "live" /\ t \in Tasks /\ pc[t] = "idle"
    /\ \E to \in Timeouts :
          /\ tmo' = [tmo EXCEPT ![t] = to]
          /\ CASE count > 0 -> /\ count' = count - 1 /\ Reply(t, "SUCCESS")
                               /\ UNCHANGED pc
               [] to = 0    -> /\ Reply(t, "SEM_TIMEOUT")
                               /\ UNCHANGED <<count, pc>>
               [] OTHER     -> /\ pc' = [pc EXCEPT ![t] = "blocked"]
                               /\ UNCHANGED <<count, ret, replied>>
    /\ UNCHANGED <<sem, limit, maxArg>>

(* Faulty variant: a blocked task released without a token to take.      *)
TakeWokenNoToken(t) ==
    /\ pc[t] = "blocked"
    /\ count' = count - 1
    /\ pc' = [pc EXCEPT ![t] = "idle"]
    /\ Reply(t, "SUCCESS")
    /\ UNCHANGED <<sem, limit, maxArg, tmo>>

(* A blocked task gets a token.                                           *)
TakeWoken(t) ==
    /\ pc[t] = "blocked" /\ count > 0
    /\ count' = count - 1
    /\ pc' = [pc EXCEPT ![t] = "idle"]
    /\ Reply(t, "SUCCESS")
    /\ UNCHANGED <<sem, limit, maxArg, tmo>>

(* The deadline of a finite timed wait passes (sem_timedwait ETIMEDOUT,   *)
(* or xSemaphoreTake returning pdFALSE).                                  *)
TakeExpire(t) ==
    /\ pc[t] = "blocked" /\ tmo[t] \notin {0, OSAL_MAX_DELAY}
    /\ pc' = [pc EXCEPT ![t] = "idle"]
    /\ Reply(t, "SEM_TIMEOUT")
    /\ UNCHANGED <<sem, count, limit, maxArg, tmo>>

(* ISR calls: on POSIX both return OSAL_ERR_NOT_IMPLEMENTED; on ESP give  *)
(* is Give and take never blocks (SEM_TIMEOUT when the counter is 0).     *)
IsrGive ==
    IF Backend = "posix"
    THEN sem = "live" /\ Reply("isr", "NOT_IMPLEMENTED")
         /\ UNCHANGED <<sem, count, limit, maxArg, pc, tmo>>
    ELSE Give("isr")

IsrTake ==
    /\ sem = "live"
    /\ CASE Backend = "posix" -> Reply("isr", "NOT_IMPLEMENTED") /\ UNCHANGED count
         [] count > 0        -> count' = count - 1 /\ Reply("isr", "SUCCESS")
         [] OTHER            -> Reply("isr", "SEM_TIMEOUT") /\ UNCHANGED count
    /\ UNCHANGED <<sem, limit, maxArg, pc, tmo>>

(* osal_count_sem_delete.  Deleting a semaphore a task is blocked on is   *)
(* undefined on both kernels; callers delete it once nobody waits.        *)
Delete(t) ==
    /\ sem = "live" /\ t \in Tasks /\ pc[t] = "idle"
    /\ \A u \in Tasks : pc[u] = "idle"
    /\ sem' = "deleted"
    /\ Reply(t, "SUCCESS")
    /\ UNCHANGED <<count, limit, maxArg, pc, tmo>>

Next ==
    \/ \E t \in Tasks : Create(t) \/ Give(t) \/ TakeCall(t) \/ TakeWoken(t)
                        \/ TakeExpire(t) \/ Delete(t)
    \/ IsrGive \/ IsrTake

Spec == Init /\ [][Next]_vars

-----------------------------------------------------------------------------
(* The counter limit a caller may rely on: max_value, or the platform's  *)
(* own limit (SEM_VALUE_MAX) when max_value is 0, "no limit".            *)
RequestedLimit == IF maxArg = 0 THEN SEM_VALUE_MAX ELSE maxArg

(* spec.md 3: the count never exceeds max.  osal_count_sem_create checks *)
(* initial_value against max_value and osal_count_sem_give must not post *)
(* past it, over any sequence of creates, gives, takes and ISR calls.    *)
CountWithinMax == sem = "live" /\ maxArg # 0 => count <= maxArg

(* A give fails (SEM_FAILURE) only when the counter is at the limit the  *)
(* caller asked for at create (osal_count_sem_give, give_from_isr, and   *)
(* the effective_max computed by create).  Checked with MaxValues = {0}, *)
(* where ESP create turns "no limit" into max(initial_value, 1); it is    *)
(* not in the pass run.  It says nothing of a binary semaphore, whose give *)
(* on a full semaphore fails although spec.md 4.4 calls it a success.     *)
GiveFailed(c) == replied'[c] # replied[c] /\ ret'[c] = "SEM_FAILURE"

GiveFailsOnlyAtLimit ==
    [][\A c \in Callers : GiveFailed(c) => count >= RequestedLimit]_vars
=============================================================================
