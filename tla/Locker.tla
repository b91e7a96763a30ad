------------------------------- MODULE Locker -------------------------------
(***************************************************************************)
(* lock/locker.h: the wrappers of sem_t and pthread_mutex_t that every     *)
(* other component synchronises with.                                      *)
(*                                                                         *)
(* Each operator is one call, as an action on the variable that holds the  *)
(* semaphore or the mutex.  A semaphore is its value, a mutex is the       *)
(* thread that holds it or Nobody.  A call that blocks is an action that   *)
(* is not enabled until the call returns.                                  *)
(***************************************************************************)
EXTENDS Naturals

CONSTANT Nobody   \* the owner of a mutex that is free

(***************************************************************************)
(* sem::wait.  sem_wait blocks while the value is 0.  It is also one of    *)
(* the calls a signal handler interrupts: main installs its handlers       *)
(* without SA_RESTART (main.cpp:198-199), so a blocked sem_wait on the     *)
(* thread that takes the signal returns -1 (EINTR) and wait() returns      *)
(* false with the value unchanged.                                         *)
(***************************************************************************)
\* Slip: a wait that does not block.
SemWait_NoBlock(s) == s' = s - 1

SemWait(s)        == s > 0 /\ s' = s - 1
SemInterrupted(s) == s = 0 /\ s' = s

SemPost(s) == s' = s + 1

(***************************************************************************)
(* locker::lock and locker::unlock.  The mutex is a default one: unlocking *)
(* it never fails, whoever holds it, and leaves it free.                   *)
(***************************************************************************)
MutexLock(m, thread) == m = Nobody /\ m' = thread
MutexUnlock(m)       == m' = Nobody

=============================================================================
