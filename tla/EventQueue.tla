------------------------------ MODULE EventQueue ------------------------------
(***************************************************************************)
(* The library lock and the event queue of the IAX client                  *)
(* (iaxclient_lib.c: get_iaxc_lock, put_iaxc_lock, iaxci_post_event, the   *)
(* processing thread and its start and stop).                              *)
(*                                                                         *)
(* iaxc_lock protects the library.  A thread that posts an event tries the *)
(* lock: if somebody has it (the thread itself, as a rule) the event goes  *)
(* to event_queue; otherwise the lock is dropped again and the             *)
(* application's callback is called without it.  put_iaxc_lock takes the   *)
(* whole queue, releases the lock, and posts what it took once more.       *)
(* The short sections under event_queue_lock contain memory accesses only  *)
(* and are one step each.                                                  *)
(***************************************************************************)
EXTENDS Integers, Sequences, FiniteSets

CONSTANTS
    App,        \* threads of the application that call the library
    Proc,       \* the processing thread, main_proc_thread_func
    NoThread,   \* iaxc_lock is free
    MaxCalls,   \* bound on the library calls of one application thread
    MaxEvents   \* bound on the events one thread posts

ASSUME EventAssumption ==
    /\ Proc \notin App
    /\ NoThread \notin App \cup {Proc}
    /\ MaxCalls \in Nat /\ MaxEvents \in Nat

Thread == App \cup {Proc}

VARIABLES
    lock,       \* iaxc_lock: the thread that holds it
    queue,      \* event_queue
    pc,         \* where a thread is
    local,      \* the events a thread still has to post, the first one at hand
    flag,       \* main_proc_thread_flag: 0 running, 1 should quit, -1 not running
    calls,      \* library calls an application thread has begun
    posted,     \* events a thread has posted
    delivered   \* the events the callback was called with, in order

vars == <<lock, queue, pc, local, flag, calls, posted, delivered>>

Event == [by : Thread, n : 1 .. MaxEvents]

Where == {"idle", "waiting", "locked", "taken", "posting", "probe", "busy", "callback",
          "join", "exited"}

NewEvent(t) == [by |-> t, n |-> posted[t] + 1]

\* The thread is done with the first event of its list, and with the call
\* around it when that was the last one.
FinishFirst(t) ==
    /\ local' = [local EXCEPT ![t] = Tail(@)]
    /\ pc' = [pc EXCEPT ![t] = IF Len(local[t]) = 1 THEN "idle" ELSE "posting"]

NeverQuit == FALSE                       \* mutant: the loop does not read the flag

\* The test of the loop of main_proc_thread_func
MustQuit == flag # 0

-----------------------------------------------------------------------------
(* get_iaxc_lock, and events posted by a thread that has the lock *)

\* A turn of the processing thread's loop, or a library call of the application.  The
\* flag is read before the lock is asked for: a thread past the test takes one more turn,
\* however long it waits for the lock.
Enter(t) ==
    /\ pc[t] = "idle"
    /\ \/ /\ t = Proc /\ ~MustQuit
          /\ UNCHANGED calls
       \/ /\ t \in App /\ calls[t] < MaxCalls
          /\ calls' = [calls EXCEPT ![t] = @ + 1]
    /\ pc' = [pc EXCEPT ![t] = "waiting"]
    /\ UNCHANGED <<lock, queue, local, flag, posted, delivered>>

GetLock(t) ==
    /\ pc[t] = "waiting"
    /\ lock = NoThread
    /\ lock' = t
    /\ pc' = [pc EXCEPT ![t] = "locked"]
    /\ UNCHANGED <<queue, local, flag, calls, posted, delivered>>

\* The thread holds the lock, so its own trylock fails: the event is queued.
PostLocked(t) ==
    /\ pc[t] = "locked"
    /\ posted[t] < MaxEvents
    /\ queue' = Append(queue, NewEvent(t))
    /\ posted' = [posted EXCEPT ![t] = @ + 1]
    /\ UNCHANGED <<lock, pc, local, flag, calls, delivered>>

\* Messages (iaxci_usermsg) are also posted by threads outside of the lock.
PostUnlocked(t) ==
    /\ pc[t] = "idle"
    /\ t \in App
    /\ posted[t] < MaxEvents
    /\ local' = [local EXCEPT ![t] = <<NewEvent(t)>>]
    /\ posted' = [posted EXCEPT ![t] = @ + 1]
    /\ pc' = [pc EXCEPT ![t] = "posting"]
    /\ UNCHANGED <<lock, queue, flag, calls, delivered>>

-----------------------------------------------------------------------------
(* put_iaxc_lock *)

LeftInQueue == queue                        \* mutant: event_queue = NULL is missing

LeftAfterTake == <<>>

TakeQueue(t) ==
    /\ pc[t] = "locked"
    /\ local' = [local EXCEPT ![t] = queue]
    /\ queue' = LeftAfterTake
    /\ pc' = [pc EXCEPT ![t] = "taken"]
    /\ UNCHANGED <<lock, flag, calls, posted, delivered>>

Unlock(t) ==
    /\ pc[t] = "taken"
    /\ lock' = NoThread
    /\ pc' = [pc EXCEPT ![t] = IF local[t] = <<>> THEN "idle" ELSE "posting"]
    /\ UNCHANGED <<queue, local, flag, calls, posted, delivered>>

-----------------------------------------------------------------------------
(* iaxci_post_event by a thread that does not hold the lock *)

TryLock(t) ==
    /\ pc[t] = "posting"
    /\ IF lock = NoThread
       THEN /\ lock' = t
            /\ pc' = [pc EXCEPT ![t] = "probe"]
       ELSE /\ pc' = [pc EXCEPT ![t] = "busy"]
            /\ UNCHANGED lock
    /\ UNCHANGED <<queue, local, flag, calls, posted, delivered>>

EventDropped(t) == queue                    \* mutant: the busy path forgets the event

Requeued(t) == Append(queue, Head(local[t]))

\* The trylock failed.  By now the lock may be free again.
Requeue(t) ==
    /\ pc[t] = "busy"
    /\ queue' = Requeued(t)
    /\ FinishFirst(t)
    /\ UNCHANGED <<lock, flag, calls, posted, delivered>>

KeepProbed(t) == t                          \* mutant: the callback runs under the lock

AfterProbe(t) == NoThread

\* The trylock succeeded: the lock is released before the callback.
Unprobe(t) ==
    /\ pc[t] = "probe"
    /\ lock' = AfterProbe(t)
    /\ pc' = [pc EXCEPT ![t] = "callback"]
    /\ UNCHANGED <<queue, local, flag, calls, posted, delivered>>

Callback(t) ==
    /\ pc[t] = "callback"
    /\ delivered' = Append(delivered, Head(local[t]))
    /\ FinishFirst(t)
    /\ UNCHANGED <<lock, queue, flag, calls, posted>>

-----------------------------------------------------------------------------
(* iaxc_stop_processing_thread and the end of main_proc_thread_func *)

StopThread(t) ==
    /\ t \in App /\ pc[t] = "idle"
    /\ flag >= 0
    /\ flag' = 1
    /\ pc' = [pc EXCEPT ![t] = "join"]
    /\ UNCHANGED <<lock, queue, local, calls, posted, delivered>>

Join(t) ==
    /\ pc[t] = "join"
    /\ pc[Proc] = "exited"
    /\ pc' = [pc EXCEPT ![t] = "idle"]
    /\ UNCHANGED <<lock, queue, local, flag, calls, posted, delivered>>

Exit ==
    /\ pc[Proc] = "idle"
    /\ MustQuit
    /\ flag' = -1
    /\ pc' = [pc EXCEPT ![Proc] = "exited"]
    /\ UNCHANGED <<lock, queue, local, calls, posted, delivered>>

-----------------------------------------------------------------------------

Init ==
    /\ lock = NoThread
    /\ queue = <<>>
    /\ pc = [t \in Thread |-> "idle"]
    /\ local = [t \in Thread |-> <<>>]
    /\ flag = 0
    /\ calls = [t \in App |-> 0]
    /\ posted = [t \in Thread |-> 0]
    /\ delivered = <<>>

\* What a thread does of its own accord once it is inside the library.
Continue(t) ==
    \/ TakeQueue(t) \/ Unlock(t)
    \/ TryLock(t) \/ Requeue(t) \/ Unprobe(t) \/ Callback(t)
    \/ Join(t)

Next ==
    \/ \E t \in Thread : Enter(t) \/ GetLock(t) \/ PostLocked(t) \/ PostUnlocked(t) \/ Continue(t)
    \/ \E t \in App : StopThread(t)
    \/ Exit

Spec == Init /\ [][Next]_vars

\* The scheduler runs every thread that can run; the processing thread loops on
\* until it is told to quit.  Whether the application calls is up to it.
Fairness ==
    /\ \A t \in Thread : WF_vars(Continue(t))
    /\ WF_vars(Enter(Proc)) /\ WF_vars(GetLock(Proc))
    /\ WF_vars(Exit)

FairSpec == Spec /\ Fairness

-----------------------------------------------------------------------------
(* Properties *)

TypeOK ==
    /\ lock \in Thread \cup {NoThread}
    /\ queue \in Seq(Event)
    /\ pc \in [Thread -> Where]
    /\ local \in [Thread -> Seq(Event)]
    /\ flag \in {-1, 0, 1}
    /\ calls \in [App -> 0 .. MaxCalls]
    /\ posted \in [Thread -> 0 .. MaxEvents]
    /\ delivered \in Seq(Event)

\* iaxc_lock is held exactly by the one thread that is in a section under it; so
\* two threads are never inside the library together, and the application's
\* callback, which may call the library again, never runs under the lock.
LockIsHeldInside ==
    \A t \in Thread : lock = t <=> pc[t] \in {"locked", "taken", "probe"}

Copies(s, e) == Cardinality({i \in DOMAIN s : s[i] = e})

InLists(e) == {t \in Thread : \E i \in DOMAIN local[t] : local[t][i] = e}

\* No event is lost or duplicated on its way, however often it is taken from the
\* queue and put back: it is in the queue, in one thread's list, or delivered.
EventsAreConserved ==
    \A t \in Thread : \A n \in 1 .. posted[t] :
        LET e == [by |-> t, n |-> n]
        IN  Copies(queue, e) + Cardinality(InLists(e)) + Copies(delivered, e) = 1

\* Every event reaches the callback as long as the processing thread runs: one
\* that was put back when nobody held the lock any more is picked up by it.
EventsAreDelivered ==
    \A t \in Thread : \A n \in 1 .. MaxEvents :
        posted[t] >= n ~>
            \/ \E i \in DOMAIN delivered : delivered[i] = [by |-> t, n |-> n]
            \/ flag # 0

\* Stopping the processing thread ends, whatever that thread is doing.
StopReturns == \A t \in App : pc[t] = "join" ~> pc[t] = "idle"

=============================================================================
