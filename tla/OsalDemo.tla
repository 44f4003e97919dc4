------------------------------- MODULE OsalDemo -------------------------------
(***************************************************************************)
(* The OSAL demo, src/examples/osal_demo/main/osal_demo.c: a sensor        *)
(* pipeline of three tasks and a timer built by app_init.                  *)
(*                                                                         *)
(*   producer  sends a reading with a 100 ms timeout, counts it in        *)
(*             readings_produced if the send succeeded, sleeps 500 ms;     *)
(*   consumer  receives with a 2000 ms timeout, counts the reading in     *)
(*             readings_processed and in its batch, and after STATS_BATCH  *)
(*             readings resets the batch and gives monitor_semaphore;      *)
(*   monitor   takes monitor_semaphore for ever and prints the counters;   *)
(*   timer     a periodic callback counting timer_expires.                 *)
(*                                                                         *)
(* The demo links only on ESP (the POSIX backend has no binary semaphore), *)
(* so the queue and semaphore are FreeRTOS ones: a woken task retries its  *)
(* queue operation, nothing wakes spuriously, and a binary semaphore       *)
(* given twice holds one token.  The readings' values, the logging and     *)
(* osal_task_delay_ms (which only lets time pass) are left out.  A task's  *)
(* step is the code from one OSAL call to the next.                        *)
(***************************************************************************)
EXTENDS Naturals, Sequences

CONSTANTS QUEUE_LEN,    \* max_items of data_queue (20)
          STATS_BATCH,  \* readings per statistics batch (10)
          MaxReadings,  \* bound: readings the producer makes
          MaxExpires    \* bound: timer callbacks

(* The calls of app_init in order; each may fail, and app_main then      *)
(* returns while the tasks already created keep running.                 *)
InitSteps == <<"queue", "semaphore", "timer", "producer", "consumer",
               "monitor", "start">>

VARIABLES step,      \* calls of app_init that have succeeded
          failed,    \* app_init returned -1
          count,     \* items in data_queue
          pp,        \* producer: "loop", "full" (blocked in send), "sent"
          cs,        \* consumer: "loop", "empty" (blocked in receive), "got"
          batch,     \* the consumer's local count
          sem,       \* monitor_semaphore holds a token
          produced,  \* app_state.readings_produced
          processed, \* app_state.readings_processed
          expires,   \* app_state.timer_expires
          reported   \* the monitor has printed the statistics

vars == <<step, failed, count, pp, cs, batch, sem, produced, processed,
          expires, reported>>

Created == {InitSteps[i] : i \in 1 .. step}

TypeOK ==
    /\ step \in 0 .. Len(InitSteps) /\ failed \in BOOLEAN
    /\ count \in 0 .. QUEUE_LEN
    /\ pp \in {"loop", "full", "sent"} /\ cs \in {"loop", "empty", "got"}
    /\ batch \in 0 .. (STATS_BATCH - 1)
    /\ sem \in {0, 1}
    /\ produced \in 0 .. MaxReadings /\ processed \in 0 .. MaxReadings
    /\ expires \in 0 .. MaxExpires
    /\ reported \in BOOLEAN

(* Static storage zeroed (app_state = {0}); main about to call app_init. *)
Init ==
    /\ step = 0 /\ failed = FALSE
    /\ count = 0 /\ pp = "loop" /\ cs = "loop" /\ batch = 0 /\ sem = 0
    /\ produced = 0 /\ processed = 0 /\ expires = 0 /\ reported = FALSE

(* app_init makes its next call.  On success the object exists (a task  *)
(* starts running at once, before the rest of app_init); on failure it  *)
(* logs, returns -1 and app_main returns.  osal_bin_sem_create is given *)
(* OSAL_SEM_EMPTY, so sem stays 0.                                      *)
InitStep ==
    /\ ~failed /\ step < Len(InitSteps)
    /\ \/ step' = step + 1 /\ UNCHANGED failed
       \/ failed' = TRUE /\ UNCHANGED step
    /\ UNCHANGED <<count, pp, cs, batch, sem, produced, processed, expires,
                   reported>>

Running(task) == task \in Created

(* Faulty variants: the monitor is never signalled; a timed-out send is *)
(* counted as produced (a status test against OSAL_QUEUE_FULL only).     *)
GiveMonitorOmitted == UNCHANGED sem
ProducerTimeoutCounts ==
    /\ pp = "full" /\ count = QUEUE_LEN
    /\ pp' = "loop" /\ produced' = produced + 1
    /\ UNCHANGED <<step, failed, count, cs, batch, sem, processed, expires,
                   reported>>

(* xQueueSend: the reading is copied into the queue (a blocked receiver  *)
(* is unblocked and retries), or the producer blocks while it is full.   *)
PutOrBlock ==
    IF count < QUEUE_LEN
    THEN count' = count + 1 /\ pp' = "sent"
    ELSE pp' = "full" /\ UNCHANGED count

(* producer_task_func: take the time, build a reading, osal_queue_send   *)
(* with timeout 100.                                                     *)
ProducerSend ==
    /\ Running("producer") /\ pp = "loop" /\ produced < MaxReadings
    /\ PutOrBlock
    /\ UNCHANGED <<step, failed, cs, batch, sem, produced, processed,
                   expires, reported>>

(* Unblocked by a receive that made room: the send completes.            *)
ProducerRetry ==
    /\ pp = "full" /\ count < QUEUE_LEN
    /\ PutOrBlock
    /\ UNCHANGED <<step, failed, cs, batch, sem, produced, processed,
                   expires, reported>>

(* The 100 ms pass with the queue still full: OSAL_QUEUE_TIMEOUT, which  *)
(* is neither OSAL_SUCCESS nor OSAL_QUEUE_FULL, so "Send failed" is     *)
(* logged; the reading is dropped and the producer sleeps.              *)
ProducerTimeout ==
    /\ pp = "full" /\ count = QUEUE_LEN
    /\ pp' = "loop"
    /\ UNCHANGED <<step, failed, count, cs, batch, sem, produced, processed,
                   expires, reported>>

(* OSAL_SUCCESS: readings_produced++, log, osal_task_delay_ms(500).      *)
ProducerCount ==
    /\ pp = "sent"
    /\ produced' = produced + 1 /\ pp' = "loop"
    /\ UNCHANGED <<step, failed, count, cs, batch, sem, processed, expires,
                   reported>>

(* xQueueReceive: take the oldest reading (a producer blocked on a full  *)
(* queue is unblocked), or block while the queue is empty.              *)
TakeOrBlock ==
    IF count > 0
    THEN count' = count - 1 /\ cs' = "got"
    ELSE cs' = "empty" /\ UNCHANGED count

(* consumer_task_func: osal_queue_receive with timeout 2000.             *)
ConsumerReceive ==
    /\ Running("consumer") /\ cs = "loop"
    /\ TakeOrBlock
    /\ UNCHANGED <<step, failed, pp, batch, sem, produced, processed,
                   expires, reported>>

(* Unblocked by a send: the receive completes.                           *)
ConsumerRetry ==
    /\ cs = "empty" /\ count > 0
    /\ TakeOrBlock
    /\ UNCHANGED <<step, failed, pp, batch, sem, produced, processed,
                   expires, reported>>

(* 2000 ms with no data: OSAL_QUEUE_TIMEOUT, a warning, loop again.      *)
ConsumerTimeout ==
    /\ cs = "empty" /\ count = 0
    /\ cs' = "loop"
    /\ UNCHANGED <<step, failed, count, pp, batch, sem, produced, processed,
                   expires, reported>>

(* osal_bin_sem_give: xSemaphoreGive on a binary semaphore that already  *)
(* holds its token fails, and the demo ignores the status.               *)
GiveMonitor == sem' = 1

(* Faulty variant: the batch accumulators are not reset after a report. *)
ConsumerProcessNoReset ==
    /\ cs = "got"
    /\ processed' = processed + 1 /\ cs' = "loop" /\ batch' = batch + 1
    /\ IF batch + 1 >= STATS_BATCH THEN GiveMonitor ELSE UNCHANGED sem
    /\ UNCHANGED <<step, failed, count, pp, produced, expires, reported>>

(* OSAL_SUCCESS: readings_processed++, count++, the sums; at count >= 10 *)
(* print the averages, reset the accumulators and signal the monitor.   *)
ConsumerProcess ==
    /\ cs = "got"
    /\ processed' = processed + 1 /\ cs' = "loop"
    /\ IF batch + 1 >= STATS_BATCH
       THEN batch' = 0 /\ GiveMonitor
       ELSE batch' = batch + 1 /\ UNCHANGED sem
    /\ UNCHANGED <<step, failed, count, pp, produced, expires, reported>>

(* monitor_task_func: osal_bin_sem_take (portMAX_DELAY) returns with the *)
(* token, and the statistics are printed.                                *)
MonitorReport ==
    /\ Running("monitor") /\ sem = 1
    /\ sem' = 0 /\ reported' = TRUE
    /\ UNCHANGED <<step, failed, count, pp, cs, batch, produced, processed,
                   expires>>

(* status_timer_callback on the timer service task, once osal_timer_start *)
(* has succeeded: timer_expires++.                                       *)
TimerCallback ==
    /\ Running("start") /\ expires < MaxExpires
    /\ expires' = expires + 1
    /\ UNCHANGED <<step, failed, count, pp, cs, batch, sem, produced,
                   processed, reported>>

Producer == ProducerSend \/ ProducerRetry \/ ProducerTimeout \/ ProducerCount
Consumer == ConsumerReceive \/ ConsumerRetry \/ ConsumerTimeout \/ ConsumerProcess

Next == InitStep \/ Producer \/ Consumer \/ MonitorReport \/ TimerCallback

(* Every task blocks in each loop (a queue wait, a delay or a semaphore  *)
(* take), so the FreeRTOS scheduler runs each ready task eventually,     *)
(* app_main's task included.  The timer callback needs no fairness.      *)
Fairness == WF_vars(InitStep) /\ WF_vars(Producer) /\ WF_vars(Consumer)
            /\ WF_vars(MonitorReport)

Spec == Init /\ [][Next]_vars /\ Fairness

-----------------------------------------------------------------------------
(* Every reading is accounted for: the readings whose send succeeded     *)
(* (readings_produced, plus one the producer has sent but not yet        *)
(* counted) are those processed (readings_processed, plus one received   *)
(* and not yet counted) and those still queued.  The producer counts     *)
(* after osal_queue_send returns and the consumer after receive returns, *)
(* so the monitor may print one more processed than produced, never two; *)
(* and a send that timed out must not be counted.                        *)
ReadingsConserved ==
    produced + (IF pp = "sent" THEN 1 ELSE 0)
      = processed + (IF cs = "got" THEN 1 ELSE 0) + count

MonitorNeverCreated == failed /\ ~Running("monitor")

(* Once a full batch has been processed the monitor prints the           *)
(* statistics, unless app_init failed before creating it: the consumer's *)
(* osal_bin_sem_give after STATS_BATCH readings reaches the monitor's    *)
(* osal_bin_sem_take even when it happens before the monitor exists.     *)
StatsReported ==
    processed >= STATS_BATCH ~> (reported \/ MonitorNeverCreated)
=============================================================================
