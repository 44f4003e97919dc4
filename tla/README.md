# TLA+ models of the hq_platform OSAL

This directory holds TLA+ specifications of the operating-system abstraction layer
in `src/src/osal` and of the MQTT client built on FreeRTOS in
`src/src/protocols/mqtt_app.c` with its configuration store
`src/src/protocols/mqtt_config.c`, of the HTTP server `src/src/protocols/http_server.c`
on the mongoose glue `src/src/mongoose/mongoose_process.c`, of the demo program in
`src/examples/osal_demo/main/osal_demo.c`, the TLC configurations that check them, and `PROJECT.json`.
`PROJECT.json` maps every model definition to the C lines it translates. It also
lists the runs, the mutants that show each property can fail, the findings, and the
hazards of the code.

## 1. The system

The OSAL gives tasks, mutexes, semaphores, message queues and software timers one C
API. It has two backends: POSIX (`posix/`, pthreads) and ESP-IDF (`esp/`, FreeRTOS).

| Part | Sources | State | Operations | Interacts with |
|---|---|---|---|---|
| Status taxonomy | `common/osal_error.c`, `include/osal_error.h` | none (a table) | `osal_get_status_name` | every call returns a status |
| Guards / assert | `include/osal_assert.h`, `osal_macro.h`, `*/osal_assert.c` | none | `OSAL_CHECK_POINTER`, `ARGCHECK`, `OSAL_CHECK_STRING` | early returns of every call |
| Time | `posix/osal_task_impl.c`, deadline helpers in queue and timer | the clock | `get_time_ms`, `delay_ms`, deadline computation | every timed wait |
| Task | `posix/osal_task_impl.c`, `esp/osal_task_impl.c` | thread handles; ESP: a TCB registry (linked list + lazily created mutex) | create, delete, delay, get_time | cancels threads that may hold OSAL locks |
| Mutex | `*/osal_mutex_impl.c` | a pthread / FreeRTOS mutex | create, delete, lock, unlock | — |
| Binary semaphore | `esp/osal_bin_sem_impl.c` (no POSIX file) | 0/1 | create, give, take (timed), delete | ISR variants |
| Counting semaphore | `*/osal_count_sem_impl.c` | count, max | create, give, take, timed take, delete | — |
| Message queue | `posix/osal_queue_impl.c`, `esp/osal_queue_impl.c` | POSIX: a ring buffer (buffer, head, tail, count) behind one mutex with two condition variables, `not_empty` and `not_full` | create, send, receive (poll / timed / forever), get_count, delete | blocked senders and receivers wake each other |
| Software timer | `posix/osal_timer_impl.c`, `esp/osal_timer_impl.c` | POSIX: flags `active`, `stop_requested`, `auto_reload`, `period_ms` and `context` behind a mutex + condvar, with one worker thread per timer; ESP: a FreeRTOS timer + a meta block | create, start, reset, stop, change_period, set/get_context, is_active, delete | the worker runs the user callback with the mutex released; the callback may call the API |
| Log | `common/osal_log.c` | none | formatted output | — |
| MQTT client | `protocols/mqtt_app.c` | the connection pointer `nc` and `connected`; a subscription table; the received flags; three binary semaphores, four FreeRTOS timers and a message queue | PostData, Subscribe, Unsubscribe, Init, Deinit; `ev_handler` and the timer callbacks | four tasks: the mongoose poll task, the timer service task, `mongoose_task` and the application |
| Demo | `examples/osal_demo/main/osal_demo.c` | a 20-reading queue, a binary semaphore, a periodic timer and three counters | `app_init`, three task loops, the timer callback | producer → queue → consumer → semaphore → monitor |
| MQTT configuration | `protocols/mqtt_config.c` | `config_data` in RAM, seven NVS entries, the certificate file `/spiffs/mqtt.pem` | Init, the setters, Save | Save calls the MQTT client's `config_update_callback`, which re-initialises the client and reloads the configuration |
| Mongoose glue | `mongoose/mongoose_process.c` | the event manager `mgr` and its connections, `mongooseProcessRunning`, the poll task | `MongooseProcess_Init`, `MongooseProcess_Deinit`; the task loops on `mg_mgr_poll` | the MQTT client and the HTTP server open their connections in `mgr` |
| HTTP server | `protocols/http_server.c` | the listener pointer `nc`, a table of up to 16 API tokens, `last_msg_time` | `HTTPServer_Init`, `Deinit`, `AddApiToken`, `IsClientConnected`; the poll task calls `fn` for each request | listens in the mongoose manager; each token's callback answers a request |

### Hard behaviours

- **Queue.**
  - `pthread_cond_signal` wakes one arbitrary waiter, or nobody.
  - Timed waits expire, and waits may wake spuriously.
  - A woken thread competes with newly arriving callers for the mutex.
- **POSIX timer.**
  - Caller commands race the worker thread.
  - The worker releases the mutex around the callback, and the callback may itself start, stop, reset or delete its timer.
  - Timed waits time out while commands are in flight.
- **ESP timer.** `delete` frees the meta block while the FreeRTOS timer service task may still run the callback on it.
- **ESP task registry.**
  - Its mutex is created lazily, with an unguarded NULL test.
  - A task that deletes itself skips the registry detach.
- **POSIX task.** `delete` cancels a thread with deferred cancellation. The thread may be blocked in a queue's condition wait, which is a cancellation point and re-acquires the mutex on the way out.
- **MQTT configuration.** `MQTTConfig_Save` writes eight pieces of storage one after another, each durable at once, and a reset may come between any two. It ignores a failed entry write and a failed certificate write.
- **Mutex.** A give by a task that does not hold the mutex: glibc's default mutex releases it, FreeRTOS asserts. A take by the holder blocks for ever on both.
- **HTTP server.** `MongooseProcess_Deinit` frees every connection of the manager, the HTTP listener included, while `http_server.c` keeps its pointer. Requests are routed by prefix, in registration order.
- **Demo.** Each task counts its work after the OSAL call returns, and the monitor reads all counters without a lock. `app_init` starts each task as soon as it is created, and returns on the first failure while earlier tasks keep running.

## 2. Modules

| Module | Models | Kind |
|---|---|---|
| `QueueSpec` | what a queue promises (spec.md 4.5): a bounded FIFO | abstract specification |
| `PosixQueue` | `posix/osal_queue_impl.c`: create, send, receive | implementation, refines `QueueSpec` |
| `OsalMutex` | `posix/osal_mutex_impl.c` and `esp/osal_mutex_impl.c`, chosen by the constant `Backend` | implementation |
| `MCOsalMutex` | two tasks | TLC instance |
| `MCPosixQueue` | model values for `PosixQueue` | TLC instance |
| `PosixTimer` | `posix/osal_timer_impl.c`: worker thread and the whole API | implementation |
| `MCPosixTimer` | instance for `PosixTimer` | TLC instance |
| `CountSem` | `posix/osal_count_sem_impl.c` and `esp/osal_count_sem_impl.c`, chosen by the constant `Backend`, and `esp/osal_bin_sem_impl.c` | implementation |
| `MCCountSem` | model value for `OSAL_MAX_DELAY` | TLC instance |
| `EspTimer` | `esp/osal_timer_impl.c` over the FreeRTOS timer command queue and service task | implementation |
| `MCEspTimer` | model values and timeout sets for `EspTimer` | TLC instance |
| `EspTask` | `esp/osal_task_impl.c`: create, delete, the TCB registry and its lazily created mutex | implementation |
| `MCEspTask` | model values for `EspTask` | TLC instance |
| `MqttApp` | `protocols/mqtt_app.c`: connections, publisher, subscribe and unsubscribe, acknowledgement handling, against a broker | implementation |
| `MCMqttApp` | model values and message/topic sets for `MqttApp` | TLC instance |
| `PosixTask` | `posix/osal_task_impl.c` (create, entry, delay, delete) composed with the receive and send of `posix/osal_queue_impl.c` | implementation |
| `MCPosixTask` | model values and timeouts for `PosixTask` | TLC instance |
| `OsalDemo` | `examples/osal_demo/main/osal_demo.c` over the ESP queue and binary semaphore | implementation |
| `MCOsalDemo` | the demo's own sizes | TLC instance |
| `MqttConfig` | `protocols/mqtt_config.c`: RAM, NVS and the certificate file across `MQTTConfig_Save` and resets | implementation |
| `MCMqttConfig` | two entries with two values each, two certificates | TLC instance |
| `MongooseHttp` | `mongoose/mongoose_process.c` and `protocols/http_server.c`: the manager, the poll task, the listener, the tokens and request routing | implementation |
| `MCMongooseHttp` | two connection blocks, the API names "a" and "ab", five URIs | TLC instance |

### Abstraction of locking

Each stretch of C that runs with the object's mutex held is one atomic step, so the
mutex is not a variable.

- A step starts where a thread gets the mutex:
  - a `pthread_mutex_lock`;
  - the re-acquire inside `pthread_cond_[timed]wait`.
- A step ends where the thread gives the mutex up:
  - an unlock;
  - the release inside a wait.

A condition variable is modelled as the set of threads waiting on it.

- A thread woken by a signal, a timeout or a spurious wake-up does not hold the mutex yet.
- It passes through an intermediate pc (`woken`, `expired`, `twoken`, `texpired`).
- Other threads may run before it takes the mutex back.

### Time

Real time is not modelled.

- A timed wait whose deadline is finite may expire at any moment.
- An infinite wait (`OSAL_MAX_DELAY`) never expires.
- A poll (timeout 0) never waits.

This covers every possible clock, including the wall-clock steps the queue is exposed
to through `CLOCK_REALTIME`. `OSAL_MAX_DELAY` (0xFFFFFFFF) is a model value, because
the code only compares timeouts with it for equality.

### OsalMutex

| Action | C code |
|---|---|
| `Create(t)` | `osal_mutex_create`: `malloc` and `pthread_mutex_init(NULL)`, or `xSemaphoreCreateMutex`; a failure changes nothing |
| `Take(t)` | `osal_mutex_take`: the lock when free, else the caller blocks, the holder too (neither mutex is recursive) |
| `TakeWoken(t)` | a blocked `pthread_mutex_lock` or `xSemaphoreTake(portMAX_DELAY)` wins the freed lock |
| `Give(t)` | `osal_mutex_give`: `PosixGive` or `EspGive` |
| `Delete(t)` | `osal_mutex_delete`: `PosixDelete` (EBUSY while glibc's `__nusers` is not 0) or `EspDelete` |

The wrapper passes NULL attributes, so the POSIX mutex is the default type.
glibc's unlock of that type does not look at the owner: it releases the lock
and returns 0 for any caller (POSIX leaves it undefined). FreeRTOS's give on a
free mutex fails, and a give by a non-holder reaches
`configASSERT(pxTCB == pxCurrentTCB)` in `xTaskPriorityDisinherit`, which
ESP-IDF turns into an abort (`aborted`). The return codes are abstracted to
the ghost `owners`, the tasks whose take returned `OSAL_SUCCESS` and whose own
give has not. On POSIX, `nusers` is glibc's `__nusers`: a lock adds one and
an unlock takes one away, even an unlock of a free mutex, and
`pthread_mutex_destroy` returns EBUSY while it is not 0, whoever holds the
lock. `MaxStrayUnlocks` (1 in both configurations) bounds how far unlocks may
outnumber locks. `MCOsalMutexEsp.cfg` checks `MutexExclusive` on the ESP backend,
and TLC finds no violation in its 25 states. The POSIX run shows the violation.

### PosixQueue

**Variables.** `slots`, `head`, `tail` and `count` are the fields of
`struct osal_queue_internal`. `notEmpty` and `notFull` are the waiter sets of the two
condvars. Each thread also has:

- `pc`: where it is;
- `tmo`: its timeout argument;
- `arg`: its item;
- `rcv`: its receive buffer.

**Init** is the state `osal_queue_create` leaves:

- the control block is zeroed;
- the `malloc`ed buffer holds arbitrary items (`NoItem` or any item).

**Actions.**

- **`SendCall`, `RecvCall`: a call.** The argument checks pass, the mutex is locked and the loop test runs. The loop test is `SendLoop` / `RecvLoop`:
  - a poll fails;
  - a blocking call joins the waiter set;
  - otherwise the copy, the index advance, the count update and one `pthread_cond_signal` happen in one step.
- **`SendWoken`, `RecvWoken`.** A wait returned 0. The thread re-runs the loop test.
- **`Expire`.** A timed wait times out.
- **`ExpiredReturn`.** The thread that timed out returns `OSAL_QUEUE_TIMEOUT`.
- **`Spurious`.** A spurious wake-up.

### PosixTimer

**Variables.**

- `active`, `stopRequested`, `autoReload`, `period` and `context` are the timer's fields.
- `wpc` is the worker thread's position.
- `dpc` is the progress of `osal_timer_delete`: `none`, then `joining`, then `done`; `failed` after a delete from the timer's own callback.
- Two ghost variables track when a restart of the countdown is owed:
  - `restartReq` is set by a reset, a change_period or a start of a dormant timer, and cleared when the worker computes a fresh deadline;
  - `armed` is set by a start and cleared by a one-shot fire.
- `cmds` and `spurious` are counters bounded by `MaxCmds` and `MaxSpurious`.

**Caller actions.** `Start`, `Reset`, `Stop`, `ChangePeriod` and `SetContext` each take
the mutex, set flags, signal the condvar and unlock in one step. `Signal` moves a
waiting worker to its wake-up point, and is lost if the worker is not waiting.

A call made by the callback is the same step, taken while `wpc = "callback"`.

`Delete` sets `stop_requested`, clears `active` and signals. `Join` completes once the
worker has exited. `SelfDelete` is a delete called by the callback on its own timer.
It sets the same flags, but `pthread_join` of the calling thread fails with
EDEADLK, so it returns `OSAL_ERROR` and neither destroys nor frees anything. The
worker then exits when the callback returns. A later `Delete` from a task joins
the exited worker and frees the timer.

**Worker actions.**

| Action | C lines |
|---|---|
| `WorkerBegin` | thread start up to the outer loop |
| `IdleWoken` | return from the idle `pthread_cond_wait`, then the outer loop (`EvalTop`) |
| `Expire` / `SpuriousWake` | the timed wait expires / wakes spuriously |
| `TimedWoken` | the `ret == 0` branch, which recomputes the deadline |
| `Fire` | the `ETIMEDOUT` branch up to the unlock before the callback |
| `CallbackReturn` | the relock and the `auto_reload` test |

### CountSem

One module holds both backends, because their operations have the same shape
and differ in the kernel's limit and in the checks of create.

- `count` is the kernel counter and `limit` is the value at which the kernel
  refuses a give: `SEM_VALUE_MAX` for a `sem_t` (`sem_post` fails with
  EOVERFLOW), the `uxMaxCount` passed to `xSemaphoreCreateCounting` on ESP.
- `maxArg` keeps the `max_value` the caller passed, so properties can compare
  the count with what was asked for. The POSIX code stores it nowhere.
- `PosixCreate` and `EspCreate` are the two creates with their value checks.
  ESP turns `max_value` 0 into `max(initial_value, 1)`.
- `BinCreate` is the ESP `osal_bin_sem_create`: a semaphore with limit 1,
  refused above `OSAL_SEM_FULL`. Its give, take, timed wait, ISR calls and
  delete are the same FreeRTOS calls as the counting semaphore's, so they are
  the same actions; `maxArg` is 1 for it. POSIX has no binary semaphore file.
  A give on a full binary semaphore fails with `OSAL_SEM_FAILURE`, as
  `xSemaphoreGive` does; spec.md 4.4 calls it a success. No property judges
  that divergence.
- `Give` is `sem_post` / `xSemaphoreGive`; the ISR give on ESP is the same step.
- `TakeCall` is a take or timed wait: a token is taken at once, a poll fails
  with `SEM_TIMEOUT`, otherwise the task blocks. `TakeWoken` and `TakeExpire`
  are the two ways a blocked task leaves. The POSIX EINTR retry reuses its
  absolute deadline and so is the same blocked state.
- `IsrGive`, `IsrTake`: `OSAL_ERR_NOT_IMPLEMENTED` on POSIX, non-blocking on ESP.
- `Delete` happens only when no task is blocked; the opposite is undefined on
  both kernels.

### EspTimer

- `meta` is the meta block (callback, context, `free_meta`) kept in the timer's
  ID slot; `isStatic` is `~free_meta`. `Create` picks a caller buffer that is
  absent, exactly `OSAL_TIMER_STATIC_SIZE` (no room left for the meta block,
  which then goes to the heap) or large enough, and the outcome of each
  allocation and of `xTimerCreate[Static]`; a failed create frees a heap meta block.
- `cmdq` is the FreeRTOS timer command queue of length `QLen`. `Post` is
  `xTimerGenericCommand` from a task: it queues at once if there is room, fails
  with `OSAL_TIMER_ERR_INTERNAL` if the block time in ticks is 0, and
  otherwise waits (`SendWoken`, `SendTimeout`). `Ticks` is
  `osal_timeout_to_ticks`, which truncates.
- `Delete` posts the delete command; `DeleteFree` is the rest of
  `osal_timer_delete`, which frees a heap meta block as soon as the command is
  queued.
- `IsrPost` is the `...FromISR` variants: never blocking, failing on a full queue.
- The service task (`spc`) follows the FreeRTOS timer task loop:
  `ServiceExpire` runs `osal_timer_callback` for an expired active timer, which
  reads the meta block (a one-shot timer goes dormant first); `ServiceCommand`
  applies the command at the head of the queue (`Apply`); `DrainDone` ends a drain.

### EspTask

- `reg` is the registry list, head first; `mtx` is
  `osal_task_registry_mutex`: `"null"`, `"free"` or the task holding it.
- `ts`, `static`, `mem` and `how` are, per created task, its kernel state,
  whether it was created with a caller stack (and so has a `pvPortMalloc`ed
  TCB and entry), the state of those two blocks, and who deleted it.
- The registry is entered from two places, both by the creators `Creators`:
  the end of `osal_task_create` with a stack buffer, and `osal_task_delete`
  of another task. Tasks run in parallel, so each statement that touches the
  registry is a step of its own:
  - `LockTest` (the NULL test), `LockCreate` (`xSemaphoreCreateMutexStatic`
    on the one static buffer, which yields a free mutex whoever held the
    buffer before) and `LockTake`;
  - `InsRead` (`entry->next = head`) and `InsWrite` (`head = entry`);
  - `DetRead` (the walk) and `DetWrite` (the unlink: a write of the head from
    the walk's copy, or of `prev->next` in place);
  - `Unlock`, a `xSemaphoreGive` that does nothing for a non-holder.
- `Kill` is `vTaskDelete` (line 250) and `Free` the two `vPortFree`s that
  follow when the entry was found (lines 252-257). With `Cores = 2` (the
  dual-core ESP32), `vTaskDelete` of a task running on the other core only
  marks it: `Kill` may leave it `"dying"`, and `Reclaim` is that core
  removing it at its next switch. With `Cores = 1` the deletion is immediate. `SelfDelete` is `osal_task_delete` on the caller's own handle:
  `vTaskDelete` and nothing else.
- A created task may delete itself as soon as `xTaskCreateStatic` has
  returned, before its creator registers it. Another task can delete it only
  after create returned its handle.
- `SerialFirstUse` says whether the application makes its first registry call
  before any other task can make one. `Init` is the boot state: the mutex is NULL.

### MqttApp

`mqtt_app.c` shares its static state between four FreeRTOS tasks without a
lock. Each handler or callback is one step of its task:

| Task | Actions | C code |
|---|---|---|
| mongoose poll task | `Connected`, `Disconnected`, `HandleCommand` | `ev_handler` → `mqtt_connected`, `mqtt_disconnected`, `handle_mqtt_command` |
| timer service task | `ReconnectFire`, `PubackFire`, `AckTimerFire(k)` | `reconnect_timer_callback` + `mqtt_connect`, `puback_timer_callback`, `suback_`/`unsuback_timer_callback` |
| `mongoose_task` | `Publish`, `PubTaken`, `PubTimeout` | the receive loop + `mqtt_publish_internal`; the two ends of its take |
| application | `PostData`, `Subscribe`, `SubscribeWake`, `Unsubscribe`, `UnsubscribeWake` | the public API; a `...Wake` is the end of the call's take |
| broker | `BrokerRecv` | not code: it answers each QoS 1 PUBLISH, SUBSCRIBE and UNSUBSCRIBE |

- `link[l]` is the state of the `l`-th connection `mqtt_connect` opened:
  connecting, up, closing (`is_closing` set) or closed (freed by mongoose after
  MG_EV_CLOSE). `toBrk[l]` and `toCli[l]` are its two TCP streams, in order
  and lost when it closes. Packets carry a kind and a message or topic, which
  stands for the packet id.
- `nc` and `connected` are `mqtt_state.nc` and `.connected`; `rcTmr` is the
  reconnect timer. `ack`, `sem` and `tmr` are the received flags, the binary
  semaphores and the puback/suback/unsuback timers, one each.
- `Deref` records a dereference of `nc` after its connection was freed: the
  `is_closing` write in `mqtt_connect` and the sends through `nc`. `freedUse`
  is that record; the write itself has no modelled effect.
- `acked` is a ghost: the acknowledgements handled since each request started.
- Time: the publisher's take lasts `TIMEOUT_DEFAULT_MS * RETRY_COUNT + 100` ms
  after a publish that restarts the auto-reload puback timer, so the timer
  expires `RETRY_COUNT` times within the wait and once more after it. `ptime`
  counts the expiries within the wait. A subscribe or unsubscribe take ends
  100 ms after its one-shot timer, so `...Wake` may time out only once that
  timer has fired or been stopped. All other timing is free.

### PosixTask

A task's life is `none` → `started` (`pthread_create` returned) → `running`
(`osal_task_entry` freed the start block) → `exited` → `joined`. A running
task's routine is a loop of two blocking OSAL calls, chosen freely:
`osal_queue_receive` on one shared queue (`Receive`, `RecvWoken`, `WaitEnds`,
`RecvTimeout`, as in `PosixQueue`) and `osal_task_delay_ms` (`Delay`,
`Slept`). Other threads call `osal_queue_send` with timeout 0 (`Send`).

`osal_task_delete` is `Delete` (`pthread_cancel` marks the cancel pending and
`pthread_join` starts waiting) and `Join` (the join returns once the task has
ended). Cancellation is deferred, the default the code keeps, so a pending
cancel acts only in a cancellation point: `ActOnCancel`. In `nanosleep` the
thread just ends. In `pthread_cond_wait` or `pthread_cond_timedwait` it first
re-acquires the queue mutex, then ends. `osal_queue_receive` pushes no cleanup
handler, so the mutex stays locked. That is why the mutex `mtx` is a variable
here, and every step that locks it requires it free.

### OsalDemo

The demo only links on ESP: the POSIX backend has no binary semaphore. The
queue and semaphore therefore behave as FreeRTOS ones. A blocked task is
unblocked by the operation that makes room or data, and then retries. There
are no spurious wake-ups. A second give of a binary semaphore fails, and the
demo ignores the status.

| Thread | Actions | C code |
|---|---|---|
| `app_main` | `InitStep` | `main` calling `app_init`; each of its seven calls succeeds or fails (`InitSteps`) |
| producer | `ProducerSend`, `ProducerRetry`, `ProducerTimeout`, `ProducerCount` | `producer_task_func`: send with timeout 100, then count |
| consumer | `ConsumerReceive`, `ConsumerRetry`, `ConsumerTimeout`, `ConsumerProcess` | `consumer_task_func`: receive with timeout 2000, count, batch, give |
| monitor | `MonitorReport` | `monitor_task_func`: take, print |
| timer service task | `TimerCallback` | `status_timer_callback` |

A task runs once `app_init` has created it (`Running`). The readings' values,
the averages, the log text and the 500 ms delay are left out: no property reads
them, and a delay only lets time pass. A send that times out on a full queue
returns `OSAL_QUEUE_TIMEOUT` on ESP. The demo's comment calls the send
"non-blocking", and its `OSAL_QUEUE_FULL` branch can never run with a
100 ms timeout. The model keeps the path the code takes: an error log, and the
reading dropped.

### MqttConfig

| Action | C code |
|---|---|
| `SetValue(k, v)`, `SetCert(c)` | `MQTTConfig_SetString`, `SetBool`, `SetCert`: RAM only |
| `SaveBegin` | `_save_data`'s `nvs_open` READWRITE; on failure straight to the callback with result false |
| `SaveEntry` | one turn of the loop, `nvs_set_*` of entry `i`, which may fail and is only logged |
| `SaveUnlink` | the certificate entry: `stat` and `unlink` of the old file |
| `SaveOpen` | `fopen("wb")` and `fwrite`; a failed `fopen` breaks out with nothing recorded |
| `SaveCommit` | `nvs_commit`, whose failure makes the result false |
| `SaveCallback` | `apply_config_callback`: `MqttApp_Deinit`, `MqttApp_Init`, whose `MQTTConfig_Init` reloads RAM (`Loads`) |
| `Restart` | a reset at any step, then `MqttApp_Init` on zeroed RAM |

`ReadData` is `_read_data`. A key never written reads as its default. A missing
or empty certificate file leaves the buffer as it was: zero at boot, and the
RAM certificate in the callback's reload. `Loads` adds `_set_default_config`,
which runs when the namespace was never created or the open fails. ESP-IDF's
NVS writes an entry to flash inside `nvs_set_*`, so the model makes each entry
durable at its own step. If a platform kept entries until `nvs_commit`, the
unlink of the certificate before the commit would still tear the
configuration. The ghost `saved` holds the RAM configuration at each `Save`
call. `loaded` is what the last `MQTTConfig_Init` produced, the configuration
`mqtt_connect` then uses. The getters and `MQTTConfig_SetCallback` change
nothing the model needs: the callback is always MqttApp's. `MQTTConfig_SetInt`
always fails, because no entry is an integer.

### MongooseHttp

The application task calls the four Init and Deinit functions and
`HTTPServer_AddApiToken` in any order: no code in the repository calls them, so
the model leaves the order open. The poll task runs `mg_mgr_poll`.

| Action | C code |
|---|---|
| `ProcInit` | `MongooseProcess_Init`: nothing when running; `mg_mgr_init` (`MgrInit`: it zeroes `mgr`, so connections still linked become `"orphan"`, allocated and reachable by no poll or free), then `osal_task_create` of the poll task, whose failure is followed by `mg_mgr_free` |
| `ProcDeinit` | `MongooseProcess_Deinit`: delete the poll task when running, then `mg_mgr_free` (`MgrFree`) in every case |
| `HttpInit` | `HTTPServer_Init`: only when `nc` is NULL, `mg_http_listen`, whose connection or NULL becomes `nc`; nothing checks that `mgr` was initialised, so it may listen on the zero or a freed manager |
| `HttpDeinit` | `HTTPServer_Deinit`: `nc->is_closing = 1` when `nc` is set, then `nc = NULL` |
| `AddApiToken(n)` | `HTTPServer_AddApiToken`: append a token |
| `Serve(u)` | `fn` on MG_EV_HTTP_MSG, called by the poll task for a request to an open listener: the first token whose route matches (`Route`), or the 400 reply |
| `Reap` | `mg_mgr_poll` freeing a connection marked `is_closing` |

The mongoose library is not in this repository, so its calls are modelled from
its documentation. `mg_http_listen` links a new connection into the manager or
returns NULL. `mg_mgr_poll` frees connections marked closing. `mg_mgr_free`
frees every connection of the manager. In `mg_match`, `#` matches any run of
characters, `/` included, so the route `"/api/<name>#"` is a prefix test
(`RouteMatches`, `IsPrefix`), and `Route` is `SelectInSeq` over the token
table, the index of the first match. A URI below `/api/` is the sequence of
characters after that prefix, and any other URI is `NotApi`. The state of a
connection block is one of `unused`, `open`, `closing` and `freed`, so a write
through a stale pointer is visible. `served` is a ghost holding the last
request and the token that answered it. Each call on the manager is one step,
as in `MqttApp`.

The `assert(tokens_size < 16)` is kept below by the bound `MaxTokens`.
`last_msg_time` is read only by `HTTPServer_IsClientConnected`, which changes
nothing, and `_get_method` and the reply text are data no property reads.

## 3. Runs

| Run | Config | Expect | Checks |
|---|---|---|---|
| `queue_fifo` | `MCPosixQueue.cfg` | pass | `TypeOK`; `NoLostWakeup`; `ImplementsQueueSpec` (refinement of `QueueSpec` under the mapping `q <- Contents`, the count slots from head) |
| `timer_core` | `MCPosixTimer.cfg` | pass | `TypeOK`; `OneShotFiresOncePerArm`; `ActiveTimerFires` (liveness); `DeleteJoins` (liveness) |
| `countsem_esp` | `MCCountSemEsp.cfg` | pass | `TypeOK`; `CountWithinMax` |
| `esptimer` | `MCEspTimer.cfg` | pass | `TypeOK`; `MetaOwnership`; `DeleteTakesEffect` (liveness) |
| `esptask` | `MCEspTask.cfg` | pass | `NoLostRegistration`; `StaticTaskReleased`, on two cores |
| `mqtt` | `MCMqttApp.cfg` | pass | `TypeOK`; `RetransmitBound`; `QueueDrains` (liveness) |
| `mqtt_stale_ack` | `MCMqttAppStaleAck.cfg` | violation | `AckMatchesRequest`: a late SUBACK completes the next subscribe |
| `mutex_not_owner` | `MCOsalMutexPosix.cfg` | violation | `MutexExclusive`: on POSIX a give by a task that does not hold the mutex frees it for a second taker |
| `posix_task_cancel` | `MCPosixTaskCancel.cfg` | violation | `NoMutexHeldByEndedTask`: a task deleted in a queue wait ends owning the queue mutex |
| `osal_demo` | `MCOsalDemo.cfg` | pass | `TypeOK`; `ReadingsConserved`; `StatsReported` (liveness) |
| `mqtt_config_torn` | `MCMqttConfig.cfg` | violation | `LoadedConfigWasSaved`: a reset inside `MQTTConfig_Save` makes the next boot load a configuration nobody saved |
| `http_listener_uaf` | `MCMongooseHttp.cfg` | violation | `NoWriteToFreedListener`: `HTTPServer_Deinit` writes through the listener `MongooseProcess_Deinit` freed |

### What the violations show

These are the five findings in `PROJECT.json`.

1. **MQTT acknowledgements matched to nothing.** `handle_mqtt_command` sets the flag and gives the semaphore for any SUBACK, UNSUBACK or PUBACK, without looking at the packet id. Trace (9 steps): connect, subscribe t1, the broker's SUBACK is slower than the suback timer, the subscribe times out and clears its slot, subscribe t2, the late SUBACK of t1 is handled, and subscribe t2 returns true before the broker has read its SUBSCRIBE. `mqtt_app.h` says true means "subscription successful". The publisher has the same flaw: after `RETRY_COUNT` retries the puback timer gives the semaphore 4.9 s after the take has timed out, and the next QoS 1 publish takes that token at once.
2. **POSIX task deleted in a queue wait keeps the queue locked.** `osal_task_delete` is `pthread_cancel` then `pthread_join`. `osal_queue_receive` waits in `pthread_cond_wait`, a cancellation point, and pushes no cleanup handler. Trace (6 steps): create, entry, delete (cancel pending, join waiting), receive on the empty queue blocks, the cancel acts, and the task ends owning `queue->mutex`. Every later send, receive or `get_count` on that queue then blocks in `pthread_mutex_lock`. Deleting a second task blocked on the same queue never returns, because its cancellation must first take that mutex. `osal_task.h` puts no restriction on what the deleted task may be doing.
3. **MQTT configuration torn by a reset.** `_save_data` writes the entries one `nvs_set` at a time, then unlinks the certificate file and writes a new one. Trace (6 states): set a new address and user name, `MQTTConfig_Save`, the address entry is written, reset. The next boot loads the new broker address with the default user name, a configuration nobody saved. The same happens without a reset: a failed `nvs_set` is only logged, a failed `fopen` after the unlink is not noticed at all, and Save then returns true. The client connects with the reloaded configuration.
4. **HTTP listener used after the manager freed it.** `MongooseProcess_Deinit` calls `mg_mgr_free`, which closes and frees every connection of `mgr`, the listener `http_server.c` keeps in its static `nc` among them, and nothing clears `nc`. The shortest trace has 4 states: the initial state, `HTTPServer_Init` on the manager that was never initialised, `MongooseProcess_Deinit`, and `HTTPServer_Deinit`, whose `nc->is_closing = 1` writes into freed memory. Torn down in the other order the write is harmless. After a restart of the process, `HTTPServer_Init` finds `nc` set and never listens again. Neither header states an order.
5. **POSIX mutex released by a task that does not hold it.** `osal_mutex_create` passes NULL attributes to `pthread_mutex_init`, and glibc's default mutex unlocks for any thread. So `osal_mutex_give` from a task that does not hold the mutex returns `OSAL_SUCCESS` and frees it. Trace (5 states): create, t1 takes, t2 gives, t2 takes, and both tasks hold the mutex. Spec.md 2 calls the mutex owner-tracking, and spec.md 3 and 4.4 say only the owner may release it. The ESP backend enforces this through FreeRTOS's assert. A `PTHREAD_MUTEX_ERRORCHECK` attribute would make the POSIX give fail with `EPERM`.

Fourteen more disagreements are recorded as hazards rather than runs, because the
project keeps at most twelve runs. Each shows up by changing one line of a
configuration, or by checking a configuration that is on disk:

- `MCEspTaskSmp.cfg` (checks `NoFreeWhileRunning`, `Cores = 2`):
  `osal_task_delete` frees the TCB and entry as soon as `vTaskDelete`
  returns. On a dual-core ESP32, deleting a task that runs on the other core
  only marks it, so the TCB is freed under a running task. Trace (16 states):
  a task created with a stack is registered, another task deletes it, and the
  free comes before the other core has switched away. With `Cores = 1` the
  property holds over 115,699 states.
- `MCEspTimerUaf.cfg` (checks `MetaReadOnlyWhileAllocated`): `osal_timer_delete`
  frees a heap meta block once the delete command is queued. An expiry handled
  by the service task before the command is taken runs `osal_timer_callback`,
  which reads `meta->callback` from freed memory (spec.md 4.6 has delete
  destroy the timer before its resources are released). Trace: create, start,
  command applied, delete, free, expiry.
- `MCMongooseHttpRoute.cfg` (checks `RouteReachesOwnHandler`): `fn` answers
  from the first token whose `"/api/<name>#"` matches, and `#` matches any
  suffix. A token registered before another whose name it prefixes ("mqtt"
  before "mqtt_config") takes that one's requests (`http_server.h`: api_name
  is the "API name after /api/"). Trace (6 states): process and server up,
  tokens "a" then "ab", a request for `/api/ab` is answered by "a".
- `MCMqttAppFreedConn.cfg` (checks `NoUseOfFreedConnection`):
  `mqtt_disconnected` leaves `mqtt_state.nc` pointing at the connection
  mongoose frees after MG_EV_CLOSE. The reconnect timer then runs
  `mqtt_connect`, whose first statement writes `nc->is_closing`. Trace (3
  steps): the first connection fails, it is closed and freed, the reconnect
  timer fires. Every failed or dropped connection is followed by this write,
  and a puback retransmission sends through the same pointer.
- `MCPosixTimerStaleFire.cfg` (checks `FireReflectsLatestCommand`): after
  the timed wait expires, the worker runs the callback without re-checking
  `active` or `stop_requested`, so a stop or delete that completed in that
  window is followed by one more callback. TLC's trace has four steps: start,
  expiry, delete, callback. For an auto-reload timer the next deadline is also
  computed before the callback, so a reset or change_period issued during the
  callback signals nobody (spec.md 8: the most recent command must not be lost).
- `MCPosixTimerSelfDelete.cfg` (checks `DeleteReleases`): a callback that
  deletes its own timer gets `OSAL_ERROR` from the worker's join of itself.
  The timer and the exited thread stay allocated until some task calls
  delete again. Spec.md 5 lets a callback call any operation, and spec.md
  4.6 says delete joins the worker and releases the resources. The trace has
  seven states: start, expiry, fire, the callback's delete, callback return.
- `MCPosixTimerDeadline.cfg` (checks `DeadlineMovesOnlyOnRestart`): whenever
  `pthread_cond_timedwait` returns 0 the worker recomputes
  `deadline = now + period`. The signal of `osal_timer_start` on an active
  timer does that, so start restarts a running timer (`osal_timer.h` line 43
  and spec.md 4.6 say it does not). A spurious wake-up does it too, which
  postpones expiry (spec.md 4.2 reuses a deadline across spurious wake-ups).
  TLC's shortest trace is the start.
- `MCEspTaskLockRace.cfg` (checks `NoLostRegistration` with
  `SerialFirstUse = FALSE`): two tasks making their first registry call both
  see the mutex NULL and both create it. The second creation re-initialises
  the mutex the first holds, both splice the list from the same head, and one
  entry is lost; its task's later delete frees nothing.

- `Backend = "posix"` in `MCCountSemEsp.cfg`: `osal_count_sem_give` calls
  `sem_post` without comparing with `max_value`, and TLC shows `CountWithinMax`
  violated after create(1, 1) and one give (spec.md 3 bounds the count by max).
- `INVARIANT DeletedTaskReleased` in `MCEspTask.cfg`: `osal_task_delete` of
  the calling task returns after `vTaskDelete` without detaching its entry, so
  the TCB and entry of a task created with a stack buffer are never freed
  (create with a stack, then self-delete).
- `INVARIANT QoS0SentOnce` in `MCMqttApp.cfg`: a puback timer left running by
  a QoS 1 publish whose PUBACK did not arrive within the wait retransmits the next message, a QoS 0
  one, because `mqtt_publish_internal` cleared the flag and `retries`.
- `INVARIANT ConnectedReflectsLink` in `MCMqttApp.cfg`: the reconnect timer
  replaces a connection that is still connecting, the new one connects, and
  the old one's MG_EV_CLOSE then runs `mqtt_disconnected`, clearing
  `connected` beside a working connection (three steps).

The next two properties are kept in their modules but not in a pass run. Under
the pass runs' bounds they only restate a guard; they matter at the bounds
below.

- `MaxValues = {0}` in `MCCountSemEsp.cfg`, adding `PROPERTY GiveFailsOnlyAtLimit`: the ESP create turns "no limit" into
  `max(initial_value, 1)`, and TLC shows `GiveFailsOnlyAtLimit` violated by the
  second give.
- `Timeouts <- MCSubTickTimeouts` (`{0, 5, forever}`) in `MCEspTimer.cfg`, adding `PROPERTY CmdTimeoutHonoured`:
  `osal_timeout_to_ticks` truncates 5 ms at 100 Hz to 0 ticks, and TLC shows
  `CmdTimeoutHonoured` violated by a command that fails at once on a full queue.

### Bounds

- **Queue: capacity 2, 2 items, 2 senders, 2 receivers, timeouts {0, 50, forever}.** This lets both waiter sets hold several threads, so a signal can pick among them. It lets the ring wrap, and it makes every mix of poll, timed and infinite waits possible. The run reaches about 1.1 million distinct states in under 2 minutes.
- **POSIX timer: periods {100, 200}, two contexts, at most 4 commands (`MaxCmds`), at most 1 spurious wake-up (`MaxSpurious`).** Four commands allow a start, a reset during a callback, a stop and a delete in one behaviour.
- **Counting semaphore: two tasks and an ISR, initial values {0, 1, 3}, max values {1, 2}, `SEM_VALUE_MAX` 3, timeouts {0, 50, forever}.** An initial value above each max exercises the refusal, and both tasks can block at once. `SEM_VALUE_MAX` only needs to exceed the max values.
- **ESP timer: one task and the ISR, a one-slot command queue, 100 Hz tick, at most 4 API calls, timeouts {0, 50 ms, forever}.** One slot is the smallest queue that can be full, so both waiting and timing out on room happen; four calls allow create's outcome, a start, a command that waits and a delete.
- **ESP task registry: two creators, three task handles, two cores.** Two creators are what the lock race needs; three handles allow a registration beside two others, so an unlink in the middle of the list and at the head both occur. A handle is used once (create needs a handle in state `none`), which bounds each behaviour.

- **MQTT: one QoS 1 and one QoS 0 message, two topics for a one-slot table, a one-slot message queue, at most two connections and three application calls; `RETRY_COUNT` is the code's 3.** Two connections are what a reconnect needs; a one-slot queue and two posts make PostData's refusal happen; two topics and one slot make the full-table refusal happen; three calls allow subscribe, unsubscribe and a post, or two posts and a subscribe. A QoS 0 message after a QoS 1 one is what a left-over puback timer acts on. About 283,000 distinct states in under 30 seconds.

- **POSIX task: two tasks, one sender thread, a one-slot queue, receive timeouts {0, 100, forever}.** Two tasks on one queue are what the second, hanging delete needs; the timeouts make every wait kind possible.
- **MQTT configuration: two of the seven entries, two values each, two certificates, at most 2 Saves (`MaxSaves`).** Two entries are the fewest a reset can fall between. Two Saves let a torn save follow a complete one, and two certificates let the unlink lose a saved one.
- **Demo: the code's own sizes, a 20-reading queue and batches of 10; 21 readings (`MaxReadings`), one timer callback (`MaxExpires`).** 21 readings are one more than the queue holds, so the producer can find the queue full and time out, and they complete a batch, so the monitor has something to report. About 11,000 distinct states in a few seconds.

- **Mutex: two tasks.** Two tasks are the fewest for a give by a task that does not hold the mutex, and for a taker blocked behind a holder. The spaces are small (17 and 25 states) because the wrapper has no state of its own.
- **HTTP server: two connection blocks, two tokens (`MaxTokens`) named "a" and "ab", and the URIs `a`, `ab`, `a/b`, `b` and one outside `/api/`.** Two blocks let a listener be freed and another allocated. One name is a prefix of the other, which is what shadowing needs, and the URIs cover an exact name, a sub-path, an unknown name and a non-API request.

The violation configurations use the smallest bounds that still show their trace.

### Fairness

- **POSIX timer.** The worker's steps and `Join` are weakly fair: a thread that can take the mutex eventually runs. `Expire` is weakly fair because time passes, so a finite deadline is eventually reached.
- **ESP timer.** The service task's steps (`CallbackReturn`, `ServiceCommand`, `DrainDone`) are weakly fair: it is the highest-priority timer task and runs whenever it has work. A task waiting for room (`SendWoken`) and the rest of a delete (`DeleteFree`) are weakly fair: they are the calling task continuing.
- **MQTT.** `Publish`, `PubTaken`, `PubTimeout` and `PubackFire` are weakly fair: `mongoose_task` runs when the queue holds a message and its take ends, and the timer service task runs expired timers. Nothing is assumed of the network, the broker or the application, which may stop; so a connection may never come up and an acknowledgement may never come.
- **Demo.** `InitStep` and the producer, consumer and monitor steps are weakly fair. Every task blocks in each loop, in a queue wait, a delay or a semaphore take, so the FreeRTOS scheduler runs each ready task eventually, `app_main`'s low-priority task included. The timer callback needs no fairness.
- Queue, counting semaphore, task registry and POSIX task runs check safety only and carry no fairness.

There is no fairness for:

- callers, which may stop calling;
- spurious wake-ups, which POSIX allows but never promises;
- timer expiry on ESP, which depends on a period the model abstracts.

### Deadlock checking

These runs set `CHECK_DEADLOCK FALSE`, each because the program really may stop:

- `MCPosixTimer.cfg`: once delete has returned the timer no longer exists, and a model whose command budget is spent has no further steps. `DeleteJoins` and `ActiveTimerFires` state the progress that matters.
- `MCEspTimer.cfg`: likewise, after delete or when the call budget is spent with the queue drained. `DeleteTakesEffect` states the progress that matters.
- `MCEspTask.cfg`: every handle has been created and deleted, and every creator is idle.
- `MCMqttApp.cfg` and its two violation configurations: once the application's calls and the two connections are used up and the queue is drained, nothing is left to do. `QueueDrains` states the progress that matters.

- `MCOsalMutexPosix.cfg` and `MCOsalMutexEsp.cfg`: a task blocked on a deleted mutex or on a mutex it holds itself never returns, and on ESP a failed `configASSERT` stops the program.
- `MCOsalDemo.cfg`: when `app_init` fails before any task exists, `app_main` returns and nothing runs.

The queue, counting semaphore and POSIX task runs check deadlock: a thread can always call, and a
blocked timed waiter can expire.

### Mutants

For each property of a passing run, `PROJECT.json` names a faulty variant of one
mapped definition. The variants are defined in the modules just before the definition
they replace. TLC finds the property violated when the variant is used:

| Variant | Fault | Property violated |
|---|---|---|
| `AdvanceNoWrap` | index advanced without the wrap | `TypeOK` |
| `SignalTargetsOmitted` | signal left out | `NoLostWakeup` |
| `TakeItemKeepHead` | head not advanced | `ImplementsQueueSpec` |
| `ChangePeriodNoArgCheck` | `ARGCHECK(new_period_ms > 0)` dropped | `TypeOK` |
| `FireKeepActive` | one-shot not deactivated | `OneShotFiresOncePerArm` |
| `SignalLost` | command signal lost | `ActiveTimerFires` |
| `DeleteSignalOmitted` | delete without signal | `DeleteJoins` |
| `TakeWokenNoToken` | blocked take released without a token | `TypeOK` (count below 0) |
| `EspCreateNoValueCheck` | `initial_value > effective_max` check dropped | `CountWithinMax` |
| `PostNoRoomCheck` | command queued on a full queue | `TypeOK` |
| `DeleteFreeIgnoresStatic` | meta block freed even in the caller's buffer | `MetaOwnership` |
| `DeleteIgnoresFail` | delete frees and returns although the command was not queued | `DeleteTakesEffect` |
| `InsWriteNoLink` | new head written without linking the old list | `NoLostRegistration` |
| `FreeSkipped` | TCB and entry not freed after `vTaskDelete` | `StaticTaskReleased` |
| `SubscribeNoSlotCheck` | free-slot search runs one entry past the table | `TypeOK` |
| `PubackFireOffByOne` | retries compared with `<=` | `RetransmitBound` |
| `PublishWhenConnected` | messages taken from the queue only while connected | `QueueDrains` |
| `ConsumerProcessNoReset` | batch count not reset after the report | `TypeOK` |
| `ProducerTimeoutCounts` | a timed-out send counted as produced (status tested against `OSAL_QUEUE_FULL` only) | `ReadingsConserved` |
| `GiveMonitorOmitted` | the monitor never signalled | `StatsReported` |

`EspTask` has no type invariant in its run: no plausible fault of its code takes a
variable outside its type, and every check costs a mutant.

## 4. Not modelled, and the plan

Not modelled now:

| Part | Why |
|---|---|
| Logging, assert handler | output only |
| ESP queue create, delete, `get_count`, ISR variants | thin translations onto FreeRTOS, whose kernel is not in this repository; send and receive are modelled in `OsalDemo` |
| MQTT `Deinit`/`Init` (the config-update callback) | it deletes the queue and semaphores `mongoose_task` may be blocked on, which is undefined in FreeRTOS, and starts a second `mongoose_task` (listed as a hazard) |
| MQTT incoming PUBLISH dispatch (`handle_mqtt_message`) | calls the user callback of a matching slot and changes no state |
| mongoose itself | modelled only through its documented calls in `MongooseHttp`. The poll loop's data race with `mqtt_connect` on the timer task is below the one-step-per-handler level (listed as a hazard) |
| `HTTPServer_IsClientConnected` | a read of the tick count against `last_msg_time`; `ST2MS` comes from `app_config.h`, which is not in the repository |
| MQTT configuration: chunked `SetCert` | a shorter certificate written over a longer one keeps the old tail, and `_read_data`'s `fread` over a non-zero buffer does the same; both are byte-level data the model's whole certificates do not carry |
| Tests | programs that call the code and check return codes |
| Demo: what happens after a failed `app_init` | on ESP the tasks created before the failure keep running; a producer without a consumer fills the queue and drops every reading. `StatsReported` allows a monitor that was never created; no property states more |
| POSIX queue `delete`, `get_count` | `delete` with waiters is undefined, and spec.md 4.5 makes quiescing the caller's duty; without waiters it only frees. `get_count` reads `count` under the mutex and changes nothing |
| ESP task `delay`, `get_time_ms`; `create`'s argument checks | reads of the kernel clock; early returns that change no state |
| ESP task create's failure paths | a failed allocation or `xTaskCreateStatic` (lines 173-183, 195-199) is a create that allocates nothing; the frees on those paths are not modelled, so no property sees a leak there |
| MQTT: `MG_EV_ERROR` apart from `MG_EV_CLOSE`, and `mg_mqtt_connect` returning NULL | `Disconnected` is the one handler both events reach; a failed connect leaves `nc` NULL until the reconnect timer fires again, which the model does not take |
| A created ESP task that itself creates or deletes tasks | the deleted task could hold the registry mutex (listed as a hazard) |

The project keeps at most twelve runs, and all twelve are used. New components
share runs: a pass run of a later module replaces a violation run by a hazard
that one configuration reproduces, as listed in section 3.

Planned, in order:

1. **Pure operators** checked against reference definitions over bounded inputs:
   the status-name table, timespec normalisation, the queue size-overflow check.
   The 32-bit millisecond time of `osal_task_get_time_ms` wraps after 49.7 days,
   but no code in the repository compares two such values.
   Each needs a run of its own, and all twelve are in use. The timespec helpers
   (`osal_queue_impl.c` 28-37, `osal_timer_impl.c` 15-24) stay within range: the
   nanosecond sum is below 2 * 10^9, which fits a 32-bit `long`.
2. **An ESP mutex run**, `MCOsalMutexEsp.cfg` with a third task to exceed a
   hundred states, once a run slot is free.
