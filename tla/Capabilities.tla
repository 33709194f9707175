---------------------------- MODULE Capabilities ----------------------------
(***************************************************************************)
(* The capability structs of include/osal/capabilities.hpp: for each       *)
(* backend the has_... flags that are true (without the prefix), in the    *)
(* default build.  The backend's classes compile an operation away, or     *)
(* refuse it, where the flag it needs is missing.                          *)
(***************************************************************************)
EXTENDS Naturals

Everywhere ==
  {"barrier", "monotonic_clock", "periodic_timer", "thread_local_data",
   "timed_event_flags", "timed_queue", "timed_semaphore", "timer"}

IsrSafe == {"isr_event_flags", "isr_queue", "isr_semaphore"}

freertos_capabilities ==
  Everywhere \cup IsrSafe \cup
  {"dynamic_thread_priority", "isr_message_buffer", "isr_stream_buffer", "native_event_flags",
   "native_message_buffer", "native_stream_buffer", "priority_inheritance", "recursive_mutex",
   "task_notification", "timed_mutex"}

zephyr_capabilities ==
  Everywhere \cup IsrSafe \cup
  {"cpu_load_stats", "dynamic_thread_priority", "high_resolution", "isr_work_queue_submit",
   "native_condvar", "native_event_flags", "native_work_queue", "priority_inheritance",
   "recursive_mutex", "spinlock", "stack_overflow_detection", "thread_suspend_resume",
   "timed_join", "timed_mutex", "timer_callbacks_may_run_in_isr"}

threadx_capabilities ==
  Everywhere \cup IsrSafe \cup
  {"dynamic_thread_priority", "native_event_flags", "priority_inheritance", "recursive_mutex",
   "timed_mutex"}

px5_capabilities ==
  Everywhere \cup IsrSafe \cup
  {"dynamic_thread_priority", "native_event_flags", "priority_inheritance", "recursive_mutex",
   "timed_mutex", "wait_set"}

micrium_capabilities ==
  Everywhere \cup IsrSafe \cup
  {"dynamic_thread_priority", "native_event_flags", "priority_inheritance", "recursive_mutex",
   "timed_mutex"}

(* RTEMS and INTEGRITY inherit this one.                                   *)
posix_capabilities ==
  Everywhere \cup
  {"dynamic_thread_priority", "high_resolution", "native_condvar", "native_rwlock",
   "priority_inheritance", "recursive_mutex", "system_clock", "timed_mutex", "wait_set"}

linux_capabilities ==
  Everywhere \cup
  {"dynamic_thread_priority", "high_resolution", "native_condvar", "native_rwlock",
   "priority_inheritance", "recursive_mutex", "system_clock", "thread_affinity",
   "timed_mutex", "wait_set"}

bare_metal_capabilities ==
  Everywhere \cup IsrSafe \cup {"timed_mutex", "timer_callbacks_may_run_in_isr"}

vxworks_capabilities ==
  Everywhere \cup IsrSafe \cup
  {"dynamic_thread_priority", "native_condvar", "priority_inheritance", "recursive_mutex",
   "timed_mutex", "timer_callbacks_may_run_in_isr"}

nuttx_capabilities ==
  Everywhere \cup
  {"dynamic_thread_priority", "high_resolution", "isr_work_queue_submit", "native_condvar",
   "native_rwlock", "native_work_queue", "priority_inheritance", "recursive_mutex",
   "stack_overflow_detection", "system_clock", "timed_mutex"}

chibios_capabilities ==
  Everywhere \cup IsrSafe \cup
  {"dynamic_thread_priority", "high_resolution", "native_condvar", "native_event_flags",
   "priority_inheritance", "timer_callbacks_may_run_in_isr"}

embos_capabilities ==
  Everywhere \cup IsrSafe \cup
  {"cpu_load_stats", "dynamic_thread_priority", "high_resolution", "native_event_flags",
   "priority_inheritance", "recursive_mutex", "stack_overflow_detection", "task_notification",
   "timed_mutex"}

qnx_capabilities ==
  Everywhere \cup
  {"dynamic_thread_priority", "high_resolution", "native_condvar", "native_rwlock",
   "priority_inheritance", "recursive_mutex", "system_clock", "thread_affinity",
   "timed_join", "timed_mutex"}

cmsis_rtos_capabilities ==
  Everywhere \cup IsrSafe \cup
  {"dynamic_thread_priority", "native_memory_pool", "priority_inheritance",
   "recursive_mutex", "timed_mutex"}

cmsis_rtos2_capabilities ==
  Everywhere \cup IsrSafe \cup
  {"dynamic_thread_priority", "native_event_flags", "native_memory_pool",
   "priority_inheritance", "recursive_mutex", "timed_mutex"}

Capabilities ==
  [freertos |-> freertos_capabilities, zephyr |-> zephyr_capabilities,
   posix |-> posix_capabilities, linux |-> linux_capabilities, nuttx |-> nuttx_capabilities,
   chibios |-> chibios_capabilities, embos |-> embos_capabilities,
   cmsis_rtos2 |-> cmsis_rtos2_capabilities, bare_metal |-> bare_metal_capabilities,
   micrium |-> micrium_capabilities, px5 |-> px5_capabilities,
   cmsis_rtos |-> cmsis_rtos_capabilities, qnx |-> qnx_capabilities,
   threadx |-> threadx_capabilities, vxworks |-> vxworks_capabilities]

Backends == DOMAIN Capabilities
=============================================================================
