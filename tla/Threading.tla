----------------------------- MODULE Threading -----------------------------
(***************************************************************************)
(* examples/threading: start_thread_obtaining_mutex starts threads that    *)
(* take one mutex for a while and return their thread_data to whoever      *)
(* joins them.  pthreads and malloc are modelled from their use; the       *)
(* joiner does what threading.h asks of it.  Times are left out: a sleep   *)
(* ends at any moment.                                                     *)
(***************************************************************************)
EXTENDS Stdio, FiniteSets

CONSTANTS Threads,
          NoThread,     \* the owner of a free mutex
          ThreadFaults  \* which calls may fail, a subset of ThreadFaultKinds

ThreadFaultKinds == {"malloc", "create", "lock", "unlock"}

ASSUME ThreadAssumption ==
  NoThread \notin Threads /\ ThreadFaults \subseteq ThreadFaultKinds /\ Threads \subseteq Lines

VARIABLES thread,  \* where each thread is
          owner,   \* who holds the mutex
          data,    \* its thread_data: "none", "allocated" or "freed"
          success, \* thread_complete_success
          returned, \* what the thread returned: "nothing yet", "data" or "NULL"
          touched  \* threads that used a thread_data that was not allocated

thrvars == <<thread, owner, data, success, returned, touched>>

ThrInit ==
  /\ thread = [t \in Threads |-> "unborn"]
  /\ owner = NoThread
  /\ data = [t \in Threads |-> "none"]
  /\ success = [t \in Threads |-> FALSE]
  /\ returned = [t \in Threads |-> "nothing yet"]
  /\ touched = {}

Goto(t, label) == thread' = [thread EXCEPT ![t] = label]

\* ERROR_LOG is a printf; a thread comes to one of them at most.
ERROR_LOG(t) == printf(t)

\* The thread uses its thread_data.
Use(t) == touched' = IF data[t] = "allocated" THEN touched ELSE touched \cup {t}

-----------------------------------------------------------------------------
\* A plausible bug: the data is freed once the thread has been created.
Mutant_start(t) ==
  /\ thread[t] = "unborn"
  /\ data' = [data EXCEPT ![t] = "freed"]
  /\ Goto(t, "wait_to_obtain")
  /\ UNCHANGED <<owner, success, returned, touched, stdio>>

\* The caller gets true and a thread, or false and nothing to free.
start_thread_obtaining_mutex(t) ==
  /\ thread[t] = "unborn"
  /\ \/ "malloc" \in ThreadFaults /\ ERROR_LOG(t) /\ Goto(t, "failed") /\ UNCHANGED data
     \/ /\ "create" \in ThreadFaults /\ ERROR_LOG(t) /\ Goto(t, "failed")
        /\ data' = [data EXCEPT ![t] = "freed"]
     \/ /\ data' = [data EXCEPT ![t] = "allocated"]
        /\ Goto(t, "wait_to_obtain")
        /\ UNCHANGED stdio
  /\ UNCHANGED <<owner, success, returned, touched>>

FailThread(t) ==
  /\ ERROR_LOG(t)
  /\ returned' = [returned EXCEPT ![t] = "NULL"]
  /\ Goto(t, "ended")

\* usleep, then pthread_mutex_lock.
obtain_mutex(t) ==
  /\ thread[t] = "wait_to_obtain" /\ Use(t)
  /\ owner = NoThread /\ owner' = t
  /\ Goto(t, "wait_to_release")
  /\ UNCHANGED <<data, success, returned, stdio>>

lock_failed(t) ==
  /\ thread[t] = "wait_to_obtain" /\ Use(t) /\ "lock" \in ThreadFaults
  /\ FailThread(t)
  /\ UNCHANGED <<data, success, owner>>

\* A plausible bug: the thread returns without releasing the mutex.
Mutant_release(t) ==
  /\ thread[t] = "wait_to_release" /\ Use(t)
  /\ success' = [success EXCEPT ![t] = TRUE]
  /\ returned' = [returned EXCEPT ![t] = "data"]
  /\ Goto(t, "ended")
  /\ UNCHANGED <<data, owner, stdio>>

\* usleep, then pthread_mutex_unlock; the result is saved after the unlock.
release_mutex(t) ==
  /\ thread[t] = "wait_to_release" /\ Use(t)
  /\ \/ owner' = NoThread /\ Goto(t, "released") /\ UNCHANGED <<returned, stdio>>
     \/ "unlock" \in ThreadFaults /\ FailThread(t) /\ UNCHANGED owner
  /\ UNCHANGED <<data, success>>

complete(t) ==
  /\ thread[t] = "released" /\ Use(t)
  /\ success' = [success EXCEPT ![t] = TRUE]
  /\ returned' = [returned EXCEPT ![t] = "data"]
  /\ Goto(t, "ended")
  /\ UNCHANGED <<data, owner, stdio>>

\* The joiner looks at thread_complete_success and frees what the thread returned.
join(t) ==
  /\ thread[t] = "ended"
  /\ Goto(t, "joined")
  /\ \/ returned[t] = "data" /\ Use(t) /\ data' = [data EXCEPT ![t] = "freed"]
     \/ returned[t] = "NULL" /\ UNCHANGED <<data, touched>>
  /\ UNCHANGED <<owner, success, returned, stdio>>

ThreadStep(t) == obtain_mutex(t) \/ release_mutex(t) \/ complete(t) \/ join(t)

ThrNext == \E t \in Threads : start_thread_obtaining_mutex(t) \/ ThreadStep(t) \/ lock_failed(t)

-----------------------------------------------------------------------------
ThrTypeOK ==
  /\ owner \in Threads \cup {NoThread} /\ touched \subseteq Threads
  /\ \A t \in Threads :
       /\ thread[t] \in {"unborn", "failed", "wait_to_obtain", "wait_to_release",
                         "released", "ended", "joined"}
       /\ data[t] \in {"none", "allocated", "freed"} /\ success[t] \in BOOLEAN
       /\ returned[t] \in {"nothing yet", "data", "NULL"}
       /\ returned[t] = "nothing yet" <=> thread[t] \notin {"ended", "joined"}

\* Two threads are never between lock and unlock at once, and the mutex names
\* the one that is: the unlock of one never frees the lock of another.
HolderIsOwner == \A t \in Threads : thread[t] = "wait_to_release" => owner = t

\* thread_data is used only while it is allocated, by its thread and then by
\* the joiner: the start function must not free what a running thread has.
DataOutlivesThread == touched = {}

\* A joined thread's data is freed unless a lock or unlock failed; a thread
\* that never ran leaves none.
DataNotLost ==
  \A t \in Threads :
    /\ thread[t] = "failed" => data[t] # "allocated"
    /\ thread[t] = "joined" => data[t] = "freed" \/ returned[t] = "NULL"

\* Mutex and data of the threads: one holder, no use after free, no leak, though
\* the thread ends on its own and the joiner frees what it returns.
ThreadInv == ThrTypeOK /\ HolderIsOwner /\ DataOutlivesThread /\ DataNotLost

=============================================================================
