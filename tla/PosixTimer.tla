----------------------------- MODULE PosixTimer -----------------------------
(***************************************************************************)
(* One hosted (POSIX) software timer, src/src/osal/posix/osal_timer_impl.c.*)
(*                                                                         *)
(* The timer owns a worker thread (osal_timer_thread), a mutex and one     *)
(* condition variable.  The API calls (start, reset, stop, change_period,  *)
(* set_context, delete) lock the mutex, set flags, signal the condition    *)
(* variable and unlock; each is one atomic step.  The worker's stretches   *)
(* between waits are atomic steps too, since it holds the mutex for them.  *)
(* The worker releases the mutex while it waits and while the user         *)
(* callback runs, and the callback may itself call the API on its timer.   *)
(*                                                                         *)
(* Time is not counted: a timed wait may reach its deadline at any moment, *)
(* and a deadline is "computed" at the steps that call                     *)
(* osal_timer_get_deadline.  Ghost variables record the commands issued    *)
(* since the deadline was last computed, and whether the timer has been    *)
(* activated since it last fired.                                          *)
(***************************************************************************)
EXTENDS Naturals

CONSTANTS Periods,      \* period_ms values callers pass (all > 0)
          Contexts,     \* user context pointers
          MaxCmds,      \* bound on start/reset/stop/change_period calls
          MaxSpurious   \* bound on spurious condition-variable wake-ups

ASSUME /\ Periods # {} /\ 0 \notin Periods
       /\ Contexts # {}
       /\ MaxCmds \in Nat /\ MaxSpurious \in Nat

VARIABLES active,        \* timer->active
          stopRequested, \* timer->stop_requested
          autoReload,    \* timer->auto_reload, fixed at create
          period,        \* timer->period_ms
          context,       \* timer->context
          wpc,           \* where the worker thread is
          dpc,           \* progress of osal_timer_delete
          cmds,          \* API commands issued so far (bounded)
          spurious,      \* spurious wake-ups so far (bounded)
          restartReq,    \* ghost: reset, change_period or start of a
                         \*   dormant timer since the deadline was computed
          armed          \* ghost: activated since the timer last fired

vars == <<active, stopRequested, autoReload, period, context, wpc, dpc,
          cmds, spurious, restartReq, armed>>

(* Worker locations: created, not yet locked; in cond_wait while dormant; *)
(* woken from it, re-acquiring; in cond_timedwait toward the deadline;    *)
(* returned 0 from it; returned ETIMEDOUT; running the callback without   *)
(* the mutex; thread returned.                                            *)
WPCs == {"start", "idlewait", "top", "timedwait", "twoken", "texpired",
         "callback", "exited"}

TypeOK ==
    /\ active \in BOOLEAN /\ stopRequested \in BOOLEAN /\ autoReload \in BOOLEAN
    /\ period \in Periods /\ context \in Contexts
    /\ wpc \in WPCs
    /\ dpc \in {"none", "joining", "failed", "done"}
    /\ cmds \in 0 .. MaxCmds /\ spurious \in 0 .. MaxSpurious
    /\ restartReq \in BOOLEAN /\ armed \in BOOLEAN

(* After a successful osal_timer_create: fields zeroed by osal_timer_init *)
(* then set, the worker thread created.                                   *)
Init ==
    /\ active = FALSE /\ stopRequested = FALSE
    /\ autoReload \in BOOLEAN
    /\ period \in Periods
    /\ context \in Contexts
    /\ wpc = "start" /\ dpc = "none"
    /\ cmds = 0 /\ spurious = 0
    /\ restartReq = FALSE /\ armed = FALSE

-----------------------------------------------------------------------------
SignalLost == UNCHANGED wpc

(* pthread_cond_signal(&timer->cond): only the worker ever waits on it;   *)
(* the signal is lost when the worker is not waiting.                     *)
Signal ==
    wpc' = CASE wpc = "idlewait"  -> "top"
             [] wpc = "timedwait" -> "twoken"
             [] OTHER             -> wpc

(* The worker at the top of its outer loop, holding the mutex: leave if   *)
(* stop was requested, wait while dormant, else compute the deadline and  *)
(* start the timed wait.                                                  *)
EvalTop ==
    CASE stopRequested -> wpc' = "exited" /\ UNCHANGED restartReq
      [] ~active       -> wpc' = "idlewait" /\ UNCHANGED restartReq
      [] OTHER         -> wpc' = "timedwait" /\ restartReq' = FALSE

(* A caller's API call may only use a live handle, and start, reset,      *)
(* stop and change_period count toward MaxCmds.                           *)
CanCommand == cmds < MaxCmds /\ dpc # "done"

(* Ghost: a restart asked for before the worker reached its deadline; one *)
(* issued while an expiry already waits for the mutex races that expiry.  *)
BeforeExpiry == wpc # "texpired"

(* osal_timer_start: active = true, signal.                               *)
Start ==
    /\ CanCommand
    /\ active' = TRUE
    /\ Signal
    /\ restartReq' = (restartReq \/ (~active /\ BeforeExpiry))
    /\ armed' = TRUE
    /\ cmds' = cmds + 1
    /\ UNCHANGED <<stopRequested, autoReload, period, context, dpc, spurious>>

(* osal_timer_reset: the same code as start; the header promises it       *)
(* restarts the interval.                                                 *)
Reset ==
    /\ CanCommand
    /\ active' = TRUE
    /\ Signal
    /\ restartReq' = (restartReq \/ BeforeExpiry)
    /\ armed' = TRUE
    /\ cmds' = cmds + 1
    /\ UNCHANGED <<stopRequested, autoReload, period, context, dpc, spurious>>

(* osal_timer_stop: active = false, signal.                               *)
Stop ==
    /\ CanCommand
    /\ active' = FALSE
    /\ Signal
    /\ cmds' = cmds + 1
    /\ UNCHANGED <<stopRequested, autoReload, period, context, dpc, spurious,
                   restartReq, armed>>

ChangePeriodNoArgCheck(p) ==
    /\ CanCommand
    /\ period' = p
    /\ active' = TRUE
    /\ Signal
    /\ restartReq' = (restartReq \/ BeforeExpiry)
    /\ armed' = TRUE
    /\ cmds' = cmds + 1
    /\ UNCHANGED <<stopRequested, autoReload, context, dpc, spurious>>

(* osal_timer_change_period: ARGCHECK(new_period_ms > 0) returns          *)
(* OSAL_TIMER_ERR_INVALID_ARGS untouched; else period = p, active = true, *)
(* signal.                                                                *)
ChangePeriod(p) ==
    /\ CanCommand
    /\ p > 0
    /\ period' = p
    /\ active' = TRUE
    /\ Signal
    /\ restartReq' = (restartReq \/ BeforeExpiry)
    /\ armed' = TRUE
    /\ cmds' = cmds + 1
    /\ UNCHANGED <<stopRequested, autoReload, context, dpc, spurious>>

(* osal_timer_set_context under the mutex.                                *)
SetContext(c) ==
    /\ dpc # "done"
    /\ context' = c
    /\ UNCHANGED <<active, stopRequested, autoReload, period, wpc, dpc, cmds,
                   spurious, restartReq, armed>>

DeleteSignalOmitted ==
    /\ dpc \in {"none", "failed"}
    /\ stopRequested' = TRUE
    /\ active' = FALSE
    /\ dpc' = "joining"
    /\ UNCHANGED <<autoReload, period, context, wpc, cmds, spurious,
                   restartReq, armed>>

(* osal_timer_delete from a task, first half: stop_requested, active =   *)
(* false, signal, unlock; the caller then blocks in pthread_join.  The    *)
(* handle may be one whose delete from its own callback failed.          *)
Delete ==
    /\ dpc \in {"none", "failed"}
    /\ stopRequested' = TRUE
    /\ active' = FALSE
    /\ Signal
    /\ dpc' = "joining"
    /\ UNCHANGED <<autoReload, period, context, cmds, spurious,
                   restartReq, armed>>

(* osal_timer_delete called by the callback on its own timer: the flags  *)
(* are set and the (lost) signal sent as above, but pthread_join of the   *)
(* calling thread fails with EDEADLK, and OSAL_ERROR is returned with     *)
(* nothing destroyed or freed.                                            *)
SelfDelete ==
    /\ wpc = "callback" /\ dpc = "none"
    /\ stopRequested' = TRUE
    /\ active' = FALSE
    /\ dpc' = "failed"
    /\ UNCHANGED <<autoReload, period, context, wpc, cmds, spurious,
                   restartReq, armed>>

(* pthread_join returns once the worker has returned; the condition       *)
(* variable and mutex are destroyed and the block freed if dynamic.       *)
Join ==
    /\ dpc = "joining" /\ wpc = "exited"
    /\ dpc' = "done"
    /\ UNCHANGED <<active, stopRequested, autoReload, period, context, wpc,
                   cmds, spurious, restartReq, armed>>

-----------------------------------------------------------------------------
(* osal_timer_thread.  Each action runs from one point where the worker   *)
(* holds the mutex to the next point where it gives it up.                *)

(* The thread starts and locks the mutex.                                 *)
WorkerBegin ==
    /\ wpc = "start"
    /\ EvalTop
    /\ UNCHANGED <<active, stopRequested, autoReload, period, context, dpc,
                   cmds, spurious, armed>>

(* Back from pthread_cond_wait with the mutex: the `while (!active &&     *)
(* !stop_requested)` test and the rest of the outer loop head again.      *)
IdleWoken ==
    /\ wpc = "top"
    /\ EvalTop
    /\ UNCHANGED <<active, stopRequested, autoReload, period, context, dpc,
                   cmds, spurious, armed>>

(* A spurious return from either wait.                                    *)
SpuriousWake ==
    /\ spurious < MaxSpurious
    /\ wpc \in {"idlewait", "timedwait"}
    /\ wpc' = IF wpc = "idlewait" THEN "top" ELSE "twoken"
    /\ spurious' = spurious + 1
    /\ UNCHANGED <<active, stopRequested, autoReload, period, context, dpc,
                   cmds, restartReq, armed>>

(* The deadline passes: pthread_cond_timedwait will return ETIMEDOUT once *)
(* it has the mutex back.                                                 *)
Expire ==
    /\ wpc = "timedwait"
    /\ wpc' = "texpired"
    /\ UNCHANGED <<active, stopRequested, autoReload, period, context, dpc,
                   cmds, spurious, restartReq, armed>>

(* pthread_cond_timedwait returned 0: leave for the outer loop if stopped *)
(* or dormant, otherwise compute a new deadline and wait again.           *)
TimedWoken ==
    /\ wpc = "twoken"
    /\ IF ~active \/ stopRequested
       THEN EvalTop
       ELSE wpc' = "timedwait" /\ restartReq' = FALSE
    /\ UNCHANGED <<active, stopRequested, autoReload, period, context, dpc,
                   cmds, spurious, armed>>

FireKeepActive ==
    /\ wpc = "texpired"
    /\ IF autoReload THEN restartReq' = FALSE ELSE UNCHANGED restartReq
    /\ armed' = FALSE
    /\ wpc' = "callback"
    /\ UNCHANGED <<active, stopRequested, autoReload, period, context, dpc,
                   cmds, spurious>>

(* ETIMEDOUT with the mutex back: a one-shot timer goes dormant, an       *)
(* auto-reload one computes its next deadline; the mutex is unlocked and  *)
(* the callback invoked.                                                  *)
Fire ==
    /\ wpc = "texpired"
    /\ IF autoReload
       THEN restartReq' = FALSE /\ UNCHANGED active
       ELSE active' = FALSE /\ UNCHANGED restartReq
    /\ armed' = FALSE
    /\ wpc' = "callback"
    /\ UNCHANGED <<stopRequested, autoReload, period, context, dpc, cmds,
                   spurious>>

(* The callback returns and the mutex is re-locked.  A one-shot timer     *)
(* breaks to the outer loop; an auto-reload one stays in the inner loop,  *)
(* waiting for the deadline computed before the callback, while it is    *)
(* active and not stopped.                                                *)
CallbackReturn ==
    /\ wpc = "callback"
    /\ IF autoReload /\ active /\ ~stopRequested
       THEN wpc' = "timedwait" /\ UNCHANGED restartReq
       ELSE EvalTop
    /\ UNCHANGED <<active, stopRequested, autoReload, period, context, dpc,
                   cmds, spurious, armed>>

(* The API calls come from any task, and from the callback itself while  *)
(* wpc = "callback": both are the same atomic steps, except a delete of   *)
(* the timer from its own callback.                                       *)
CallerStep ==
    \/ Start \/ Reset \/ Stop \/ \E p \in Periods \cup {0} : ChangePeriod(p)
    \/ \E c \in Contexts : SetContext(c)
    \/ Delete \/ SelfDelete \/ Join

WorkerStep ==
    \/ WorkerBegin \/ IdleWoken \/ SpuriousWake \/ Expire
    \/ TimedWoken \/ Fire \/ CallbackReturn

Next == CallerStep \/ WorkerStep

(* The worker thread is scheduled whenever it can run, the clock keeps    *)
(* moving so a timed wait does reach its deadline, and a callback         *)
(* returns.  Callers are not obliged to call anything; spurious wake-ups  *)
(* are the environment's and get no fairness.                             *)
Fairness ==
    /\ WF_vars(WorkerBegin) /\ WF_vars(IdleWoken) /\ WF_vars(Expire)
    /\ WF_vars(TimedWoken) /\ WF_vars(Fire) /\ WF_vars(CallbackReturn)
    /\ WF_vars(Join)

Spec == Init /\ [][Next]_vars /\ Fairness

-----------------------------------------------------------------------------
FireStep == wpc = "texpired" /\ wpc' = "callback"

(* A one-shot timer fires once per activation: between two callbacks of a *)
(* timer created with auto_reload false there is a start, reset or        *)
(* change_period.  It rests on the worker clearing `active` before it     *)
(* unlocks for the callback, and on the idle wait re-testing `active`     *)
(* after every wake-up, spurious ones included.                           *)
OneShotFiresOncePerArm == [][FireStep /\ ~autoReload => armed]_vars

(* An active timer fires: once the timer is active it eventually runs its *)
(* callback unless it is stopped or deleted first.  It needs every        *)
(* command that activates the timer to wake a worker asleep in the        *)
(* dormant cond_wait, and the worker to arm a deadline whenever it finds  *)
(* the timer active.                                                      *)
ActiveTimerFires ==
    active ~> (~active \/ stopRequested \/ wpc = "callback")

(* Delete terminates: osal_timer_delete, once it has set stop_requested,  *)
(* returns from pthread_join, wherever the worker was (dormant wait,     *)
(* timed wait, mid-expiry or inside the callback).                        *)
DeleteJoins == dpc = "joining" ~> dpc = "done"

(* The deadline moves only on a restart (spec.md 4.6 and 9; header of     *)
(* osal_timer_start: "To restart an already-active timer, use             *)
(* osal_timer_reset()").  Whenever the worker, woken from its timed wait, *)
(* computes a new deadline, a reset, change_period or start of a dormant  *)
(* timer was issued since the last one.                                   *)
DeadlineMovesOnlyOnRestart ==
    [][wpc = "twoken" /\ wpc' = "timedwait" => restartReq]_vars

(* A deleted timer is released: once osal_timer_delete has been called   *)
(* (spec.md 4.6: delete joins the worker and releases the resources;     *)
(* spec.md 5: a callback may call any operation on any object), the      *)
(* worker is eventually joined and the timer freed, without the caller   *)
(* having to call delete again.  Fails when the callback deletes its own  *)
(* timer: the join of the worker by itself fails.                        *)
DeleteReleases == stopRequested ~> dpc = "done"

(* Every callback reflects the latest command (spec.md 8, "Timer         *)
(* concurrent calls", and 4.6): the worker starts a callback only for an  *)
(* active timer (stop makes it Dormant) and never on a deadline computed  *)
(* before a reset or change_period that completed before the deadline.    *)
FireReflectsLatestCommand == [][FireStep => active /\ ~restartReq]_vars
=============================================================================
