------------------------------ MODULE EspTimer ------------------------------
(***************************************************************************)
(* The FreeRTOS software timer behind src/src/osal/esp/osal_timer_impl.c.  *)
(*                                                                         *)
(* The OSAL keeps a meta block (callback, user context, free_meta) in the  *)
(* timer's ID slot, in the caller's static buffer when it fits and on the  *)
(* heap otherwise.  Every command (start, reset, stop, change_period,      *)
(* delete) is posted to the timer command queue, waiting at most           *)
(* osal_timeout_to_ticks(cmd_timeout_ms) for room; the timer service task  *)
(* takes the commands in FIFO order and runs the callbacks of expired      *)
(* timers through osal_timer_callback, which reads the meta block.         *)
(*                                                                         *)
(* The service task follows the FreeRTOS timer task loop: it either runs   *)
(* the callback of an expired timer or wakes for a command, and then       *)
(* drains the command queue.  Time is abstract: an active timer may expire *)
(* at any moment.  osal_timer_delete frees a heap meta block as soon as    *)
(* xTimerDelete has queued the command.                                    *)
(***************************************************************************)
EXTENDS Naturals, Sequences

CONSTANTS Tasks,          \* task-context callers
          QLen,           \* configTIMER_QUEUE_LENGTH
          Timeouts,       \* cmd_timeout_ms arguments
          OSAL_MAX_DELAY, \* wait forever (portMAX_DELAY)
          TICK_RATE_HZ,   \* configTICK_RATE_HZ
          MaxCmds         \* bound on the API calls of a behaviour

ASSUME /\ QLen \in Nat \ {0} /\ TICK_RATE_HZ \in Nat \ {0}
       /\ {0, OSAL_MAX_DELAY} \subseteq Timeouts
       /\ MaxCmds \in Nat

VARIABLES hdl,        \* the caller's handle: "none", "valid", "deleted"
          isStatic,   \* ~meta->free_meta
          meta,       \* the meta block: "none", "live", "freed"
          tmr,        \* the kernel timer: "none", "dormant", "active", "deleted"
          autoReload, \* auto_reload given to create
          cmdq,       \* the timer command queue
          spc,        \* service task: "idle", "callback", "drain"
          pc,         \* caller: "idle", "sending" (waiting for room), "freeing"
          tmo,        \* cmd_timeout_ms of a caller's current call
          op,         \* command a caller is posting
          ret,        \* status each caller last got
          replied,    \* flips with every status returned to a caller
          cmds        \* API calls so far

vars == <<hdl, isStatic, meta, tmr, autoReload, cmdq, spc, pc, tmo, op, ret,
          replied, cmds>>

Callers  == Tasks \cup {"isr"}
Commands == {"start", "reset", "stop", "period", "delete"}
Statuses == {"NONE", "SUCCESS", "ERROR", "TIMER_ERR_INTERNAL"}

TypeOK ==
    /\ hdl \in {"none", "valid", "deleted"}
    /\ isStatic \in BOOLEAN /\ autoReload \in BOOLEAN
    /\ meta \in {"none", "live", "freed"}
    /\ tmr \in {"none", "dormant", "active", "deleted"}
    /\ cmdq \in Seq(Commands) /\ Len(cmdq) <= QLen
    /\ spc \in {"idle", "callback", "drain"}
    /\ pc \in [Tasks -> {"idle", "sending", "freeing"}]
    /\ tmo \in [Tasks -> Timeouts] /\ op \in [Tasks -> Commands]
    /\ ret \in [Callers -> Statuses] /\ replied \in [Callers -> {0, 1}]
    /\ cmds \in 0 .. MaxCmds

Init ==
    /\ hdl = "none" /\ isStatic = FALSE /\ meta = "none" /\ tmr = "none"
    /\ autoReload = FALSE /\ cmdq = <<>> /\ spc = "idle"
    /\ pc = [t \in Tasks |-> "idle"]
    /\ tmo = [t \in Tasks |-> 0] /\ op = [t \in Tasks |-> "start"]
    /\ ret = [c \in Callers |-> "NONE"] /\ replied = [c \in Callers |-> 0]
    /\ cmds = 0

Reply(c, s) == /\ ret' = [ret EXCEPT ![c] = s]
               /\ replied' = [replied EXCEPT ![c] = 1 - @]

(* osal_timeout_to_ticks: OSAL_MAX_DELAY is portMAX_DELAY, anything else  *)
(* goes through pdMS_TO_TICKS, which truncates to whole ticks.            *)
Ticks(ms) == IF ms = OSAL_MAX_DELAY THEN ms ELSE (ms * TICK_RATE_HZ) \div 1000

(* A command is in the queue: the call returns, except delete, which      *)
(* still has to free the meta block.                                      *)
Queued(c, o) ==
    /\ cmdq' = Append(cmdq, o)
    /\ IF o = "delete"
       THEN pc' = [pc EXCEPT ![c] = "freeing"] /\ UNCHANGED <<ret, replied>>
       ELSE pc' = [pc EXCEPT ![c] = "idle"] /\ Reply(c, "SUCCESS")

(* Faulty variant: a command posted whether or not the queue has room.    *)
PostNoRoomCheck(c, o, to) ==
    /\ tmo' = [tmo EXCEPT ![c] = to] /\ op' = [op EXCEPT ![c] = o]
    /\ Queued(c, o)

(* xTimerGenericCommand from a task with block time Ticks(to); a pdFAIL   *)
(* is OSAL_TIMER_ERR_INTERNAL.                                            *)
Post(c, o, to) ==
    /\ tmo' = [tmo EXCEPT ![c] = to] /\ op' = [op EXCEPT ![c] = o]
    /\ CASE Len(cmdq) < QLen -> Queued(c, o)
         [] Ticks(to) = 0    -> /\ Reply(c, "TIMER_ERR_INTERNAL")
                                /\ UNCHANGED <<cmdq, pc>>
         [] OTHER            -> /\ pc' = [pc EXCEPT ![c] = "sending"]
                                /\ UNCHANGED <<cmdq, ret, replied>>

(* A task calls the API on its valid handle.                              *)
Call(c) == hdl = "valid" /\ pc[c] = "idle" /\ cmds < MaxCmds /\ cmds' = cmds + 1

Unchanged == UNCHANGED <<hdl, isStatic, meta, tmr, autoReload, spc>>

(* osal_timer_create.  A buffer of exactly OSAL_TIMER_STATIC_SIZE bytes   *)
(* holds the StaticTimer_t but not the meta block, which is then taken    *)
(* from the heap.  malloc and xTimerCreate may fail; xTimerCreateStatic   *)
(* does not.  On failure a heap meta block is freed.                      *)
Create(c) ==
    /\ hdl = "none" /\ pc[c] = "idle" /\ cmds < MaxCmds
    /\ cmds' = cmds + 1
    /\ \E buf \in {"none", "exact", "roomy"}, ar \in BOOLEAN,
          mallocOk \in BOOLEAN, createOk \in BOOLEAN :
          LET heapMeta == buf # "roomy"
          IN  CASE heapMeta /\ ~mallocOk ->
                     Reply(c, "ERROR") /\ UNCHANGED <<hdl, isStatic, meta, tmr, autoReload>>
                [] buf = "none" /\ ~createOk ->
                     /\ meta' = "freed" /\ isStatic' = FALSE
                     /\ Reply(c, "ERROR") /\ UNCHANGED <<hdl, tmr, autoReload>>
                [] OTHER ->
                     /\ hdl' = "valid" /\ meta' = "live" /\ isStatic' = ~heapMeta
                     /\ tmr' = "dormant" /\ autoReload' = ar
                     /\ Reply(c, "SUCCESS")
    /\ UNCHANGED <<cmdq, spc, pc, tmo, op>>

Start(c)        == Call(c) /\ \E to \in Timeouts : Post(c, "start", to) /\ Unchanged
Reset(c)        == Call(c) /\ \E to \in Timeouts : Post(c, "reset", to) /\ Unchanged
Stop(c)         == Call(c) /\ \E to \in Timeouts : Post(c, "stop", to) /\ Unchanged
ChangePeriod(c) == Call(c) /\ \E to \in Timeouts : Post(c, "period", to) /\ Unchanged

(* Faulty variant: the result of xTimerDelete ignored, the meta block     *)
(* freed even when the command never got into the queue.                  *)
DeleteIgnoresFail(c) ==
    /\ Call(c)
    /\ \E to \in Timeouts :
          /\ tmo' = [tmo EXCEPT ![c] = to] /\ op' = [op EXCEPT ![c] = "delete"]
          /\ cmdq' = IF Len(cmdq) < QLen THEN Append(cmdq, "delete") ELSE cmdq
    /\ pc' = [pc EXCEPT ![c] = "freeing"]
    /\ UNCHANGED <<ret, replied>> /\ Unchanged

(* osal_timer_delete: xTimerDelete, then the meta block is freed.         *)
Delete(c) == Call(c) /\ \E to \in Timeouts : Post(c, "delete", to) /\ Unchanged

(* A caller waiting for room posts once the service task made some.       *)
SendWoken(c) ==
    /\ pc[c] = "sending" /\ Len(cmdq) < QLen
    /\ Queued(c, op[c])
    /\ UNCHANGED <<tmo, op, cmds>> /\ Unchanged

(* The block time of a waiting caller runs out.                           *)
SendTimeout(c) ==
    /\ pc[c] = "sending" /\ tmo[c] # OSAL_MAX_DELAY
    /\ pc' = [pc EXCEPT ![c] = "idle"]
    /\ Reply(c, "TIMER_ERR_INTERNAL")
    /\ UNCHANGED <<cmdq, tmo, op, cmds>> /\ Unchanged

(* Faulty variant: the meta block freed whatever free_meta says.          *)
DeleteFreeIgnoresStatic(c) ==
    /\ pc[c] = "freeing"
    /\ meta' = "freed" /\ hdl' = "deleted"
    /\ pc' = [pc EXCEPT ![c] = "idle"] /\ Reply(c, "SUCCESS")
    /\ UNCHANGED <<isStatic, tmr, autoReload, cmdq, spc, tmo, op, cmds>>

(* The rest of osal_timer_delete once xTimerDelete returned pdPASS.       *)
DeleteFree(c) ==
    /\ pc[c] = "freeing"
    /\ meta' = IF isStatic THEN meta ELSE "freed"
    /\ hdl' = "deleted"
    /\ pc' = [pc EXCEPT ![c] = "idle"] /\ Reply(c, "SUCCESS")
    /\ UNCHANGED <<isStatic, tmr, autoReload, cmdq, spc, tmo, op, cmds>>

(* The ISR variants post without blocking.                                *)
IsrPost(o) ==
    /\ hdl = "valid" /\ cmds < MaxCmds /\ cmds' = cmds + 1
    /\ IF Len(cmdq) < QLen
       THEN cmdq' = Append(cmdq, o) /\ Reply("isr", "SUCCESS")
       ELSE Reply("isr", "TIMER_ERR_INTERNAL") /\ UNCHANGED cmdq
    /\ UNCHANGED <<pc, tmo, op>> /\ Unchanged

StartFromIsr == IsrPost("start")
StopFromIsr  == IsrPost("stop")
ResetFromIsr == IsrPost("reset")

(* The kernel's effect of a command on the timer (prvProcessReceivedCommands). *)
Apply(o) == CASE tmr = "deleted" -> "deleted"
              [] o = "stop"      -> "dormant"
              [] o = "delete"    -> "deleted"
              [] OTHER           -> "active"

(* The service task finds the timer expired and runs osal_timer_callback: *)
(* pvTimerGetTimerID gives the meta block, whose callback is called.  A   *)
(* one-shot timer goes dormant, an auto-reload one is re-armed.           *)
ServiceExpire ==
    /\ spc = "idle" /\ tmr = "active"
    /\ spc' = "callback"
    /\ tmr' = IF autoReload THEN "active" ELSE "dormant"
    /\ UNCHANGED <<hdl, isStatic, meta, autoReload, cmdq, pc, tmo, op, ret, replied, cmds>>

(* The user callback returns; the task goes on to drain the queue.        *)
CallbackReturn ==
    /\ spc = "callback" /\ spc' = "drain"
    /\ UNCHANGED <<hdl, isStatic, meta, tmr, autoReload, cmdq, pc, tmo, op, ret, replied, cmds>>

(* One queued command is taken and applied.                               *)
ServiceCommand ==
    /\ spc \in {"idle", "drain"} /\ cmdq # <<>>
    /\ tmr' = Apply(Head(cmdq))
    /\ cmdq' = Tail(cmdq)
    /\ spc' = "drain"
    /\ UNCHANGED <<hdl, isStatic, meta, autoReload, pc, tmo, op, ret, replied, cmds>>

(* The queue is empty: the task blocks until the next expiry or command.  *)
DrainDone ==
    /\ spc = "drain" /\ cmdq = <<>> /\ spc' = "idle"
    /\ UNCHANGED <<hdl, isStatic, meta, tmr, autoReload, cmdq, pc, tmo, op, ret, replied, cmds>>

TaskStep(c) ==
    \/ Create(c) \/ Start(c) \/ Reset(c) \/ Stop(c) \/ ChangePeriod(c)
    \/ Delete(c) \/ SendWoken(c) \/ SendTimeout(c) \/ DeleteFree(c)

ServiceStep == ServiceExpire \/ CallbackReturn \/ ServiceCommand \/ DrainDone

Next ==
    \/ \E c \in Tasks : TaskStep(c)
    \/ StartFromIsr \/ StopFromIsr \/ ResetFromIsr
    \/ ServiceStep

(* The service task runs whenever it has work (it has the highest timer   *)
(* priority), and a caller that got room in the queue or is between       *)
(* xTimerDelete and free() is scheduled again.                            *)
Fairness ==
    /\ WF_vars(CallbackReturn) /\ WF_vars(ServiceCommand) /\ WF_vars(DrainDone)
    /\ \A c \in Tasks : WF_vars(SendWoken(c)) /\ WF_vars(DeleteFree(c))

Spec == Init /\ [][Next]_vars /\ Fairness

-----------------------------------------------------------------------------
(* Ownership of the meta block (osal_timer_meta_create, the failure path  *)
(* of osal_timer_create, and osal_timer_delete): a heap block is alive    *)
(* exactly while a valid handle owns it, so neither a failed create nor a *)
(* delete leaks it, and a block in the caller's buffer is never freed.    *)
MetaOwnership ==
    /\ meta = "live" /\ ~isStatic => hdl = "valid"
    /\ isStatic => meta # "freed"

(* Once osal_timer_delete has returned OSAL_SUCCESS, the kernel timer is  *)
(* eventually deleted: the delete command it queued reaches the service   *)
(* task, whatever other commands and expiries come first.                 *)
DeleteTakesEffect == hdl = "deleted" ~> tmr = "deleted"

(* A command fails with OSAL_TIMER_ERR_INTERNAL at once, without waiting  *)
(* for room, only when it was called with cmd_timeout_ms 0 (spec.md 4.6:  *)
(* the queue fails when the timeout elapses with the service task busy);  *)
(* it is about osal_timeout_to_ticks and the xTimer* block time.  Checked *)
(* with Timeouts <- MCSubTickTimeouts, where a timeout below one tick      *)
(* truncates to 0; it is not in the pass run.                             *)
FailedAtOnce(c) ==
    /\ pc[c] = "idle" /\ pc'[c] = "idle"
    /\ replied'[c] # replied[c] /\ ret'[c] = "TIMER_ERR_INTERNAL"

CmdTimeoutHonoured == [][\A c \in Tasks : FailedAtOnce(c) => tmo'[c] = 0]_vars

(* osal_timer_callback never reads a freed meta block: the service task  *)
(* runs a timer's callback only while its meta block is allocated.        *)
FireStep == spc = "idle" /\ spc' = "callback"

MetaReadOnlyWhileAllocated == [][FireStep => meta # "freed"]_vars
=============================================================================
