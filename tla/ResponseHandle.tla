---------------------------- MODULE ResponseHandle ----------------------------
(***************************************************************************)
(* One ResponseHandle (src/handle.rs): a cell that is written once, an     *)
(* event for the threads blocked in wait_timeout and a list of wakers for  *)
(* the tasks polling a clone as a future.  Several parties may fulfil it:  *)
(* the worker, and the sender that found the worker dead.  ThreadHandle    *)
(* uses the same handle for the worker's exit (wait_exited).               *)
(***************************************************************************)
CONSTANTS
  Fulfillers,   \* parties that call fulfill, each with an outcome of its own
  Waiters,      \* threads that call wait_timeout
  Tasks,        \* tasks that poll a clone
  Unset         \* the empty cell, and the outcome of a wait that timed out

ASSUME HandleAssumption == Unset \notin Fulfillers

VARIABLES
  cell,        \* OnceLock: Unset, or the party whose outcome was recorded
  fulfiller,   \* where each fulfil call is
  waiter,      \* where each wait_timeout call is
  task,        \* where each polling task is
  listeners,   \* listeners registered with the event and not notified yet
  wakers,      \* the tasks whose waker is registered
  result       \* what each waiter and task got

handleVars == <<cell, fulfiller, waiter, task, listeners, wakers, result>>

Users == Waiters \cup Tasks
Results == Fulfillers \cup {Unset}

\* Type invariant.  The cell, the listeners and the wakers of a handle (handle.rs, Inner).
HandleTypeOK ==
  /\ cell \in Results
  /\ fulfiller \in [Fulfillers -> {"set", "notify", "wake", "done"}]
  /\ waiter \in [Waiters -> {"check", "listen", "recheck", "blocked", "returned"}]
  /\ task \in [Tasks -> {"check", "register", "recheck", "pending", "ready"}]
  /\ listeners \subseteq Waiters
  /\ wakers \subseteq Tasks
  /\ result \in [Users -> Results]

HandleInit ==
  /\ cell = Unset
  /\ fulfiller = [f \in Fulfillers |-> "set"]
  /\ waiter = [w \in Waiters |-> "check"]
  /\ task = [t \in Tasks |-> "check"]
  /\ listeners = {}
  /\ wakers = {}
  /\ result = [u \in Users |-> Unset]

is_set == cell # Unset

-----------------------------------------------------------------------------
\* fulfill: record the outcome, notify every listener, wake every task.
FulfillSet(f) ==
  /\ fulfiller[f] = "set"
  /\ fulfiller' = [fulfiller EXCEPT ![f] = "notify"]
  /\ cell' = IF is_set THEN cell ELSE f
  /\ UNCHANGED <<waiter, task, listeners, wakers, result>>

\* Mutant: the notification waits for somebody to listen.
FulfillRendezvous(f) ==
  /\ fulfiller[f] = "notify"
  /\ fulfiller' = IF listeners = {} THEN fulfiller ELSE [fulfiller EXCEPT ![f] = "wake"]
  /\ listeners' = {}
  /\ UNCHANGED <<cell, waiter, task, wakers, result>>

FulfillNotify(f) ==
  /\ fulfiller[f] = "notify"
  /\ fulfiller' = [fulfiller EXCEPT ![f] = "wake"]
  /\ listeners' = {}
  /\ UNCHANGED <<cell, waiter, task, wakers, result>>

\* The wakers are taken under the lock and woken: a task that returned
\* Pending is polled again.
FulfillWake(f) ==
  /\ fulfiller[f] = "wake"
  /\ fulfiller' = [fulfiller EXCEPT ![f] = "done"]
  /\ wakers' = {}
  /\ task' = [t \in Tasks |-> IF t \in wakers /\ task[t] = "pending" THEN "check" ELSE task[t]]
  /\ UNCHANGED <<cell, waiter, listeners, result>>

Fulfill(f) == FulfillSet(f) \/ FulfillNotify(f) \/ FulfillWake(f)

-----------------------------------------------------------------------------
\* wait_timeout returns what the cell holds; get() on an empty cell is a timeout.
WaitReturn(w) ==
  /\ waiter' = [waiter EXCEPT ![w] = "returned"]
  /\ result' = [result EXCEPT ![w] = cell]
  /\ UNCHANGED <<cell, fulfiller, task, wakers>>

WaitGoOn(w, next) ==
  /\ waiter' = [waiter EXCEPT ![w] = next]
  /\ UNCHANGED <<cell, fulfiller, task, wakers, result>>

WaitCheck(w) ==
  /\ waiter[w] = "check"
  /\ IF is_set THEN WaitReturn(w) ELSE WaitGoOn(w, "listen")
  /\ UNCHANGED listeners

WaitListen(w) ==
  /\ waiter[w] = "listen"
  /\ listeners' = listeners \cup {w}
  /\ WaitGoOn(w, "recheck")

\* Mutant: no second look at the cell once the listener is registered.
WaitBlindly(w) ==
  /\ waiter[w] = "recheck"
  /\ WaitGoOn(w, "blocked")
  /\ UNCHANGED listeners

\* A listener that goes out of scope is removed from the event.
WaitRecheck(w) ==
  /\ waiter[w] = "recheck"
  /\ IF is_set
     THEN WaitReturn(w) /\ listeners' = listeners \ {w}
     ELSE WaitGoOn(w, "blocked") /\ UNCHANGED listeners

WaitNotified(w) ==
  /\ waiter[w] = "blocked"
  /\ w \notin listeners
  /\ WaitReturn(w)
  /\ UNCHANGED listeners

\* The timeout passed: a last look at the cell.
WaitTimeout(w) ==
  /\ waiter[w] = "blocked"
  /\ WaitReturn(w)
  /\ listeners' = listeners \ {w}

WaitProceed(w) == WaitCheck(w) \/ WaitListen(w) \/ WaitRecheck(w) \/ WaitNotified(w)

-----------------------------------------------------------------------------
\* Future::poll.
PollReady(t) ==
  /\ task' = [task EXCEPT ![t] = "ready"]
  /\ result' = [result EXCEPT ![t] = cell]

PollCheck(t) ==
  /\ task[t] = "check"
  /\ IF is_set
     THEN PollReady(t)
     ELSE task' = [task EXCEPT ![t] = "register"] /\ UNCHANGED result
  /\ UNCHANGED <<cell, fulfiller, waiter, listeners, wakers>>

PollRegister(t) ==
  /\ task[t] = "register"
  /\ wakers' = wakers \cup {t}
  /\ task' = [task EXCEPT ![t] = "recheck"]
  /\ UNCHANGED <<cell, fulfiller, waiter, listeners, result>>

PollRecheck(t) ==
  /\ task[t] = "recheck"
  /\ IF is_set
     THEN PollReady(t)
     ELSE task' = [task EXCEPT ![t] = "pending"] /\ UNCHANGED result
  /\ UNCHANGED <<cell, fulfiller, waiter, listeners, wakers>>

\* An executor may poll a task again for reasons of its own.
PollAgain(t) ==
  /\ task[t] = "pending"
  /\ task' = [task EXCEPT ![t] = "check"]
  /\ UNCHANGED <<cell, fulfiller, waiter, listeners, wakers, result>>

PollProceed(t) == PollCheck(t) \/ PollRegister(t) \/ PollRecheck(t)

-----------------------------------------------------------------------------
HandleSettled ==
  /\ \A f \in Fulfillers : fulfiller[f] = "done"
  /\ \A w \in Waiters : waiter[w] = "returned"
  /\ \A t \in Tasks : task[t] = "ready"
  /\ UNCHANGED handleVars

HandleNext ==
  \/ \E f \in Fulfillers : Fulfill(f)
  \/ \E w \in Waiters : WaitProceed(w) \/ WaitTimeout(w)
  \/ \E t \in Tasks : PollProceed(t) \/ PollAgain(t)
  \/ HandleSettled

HandleSpec == HandleInit /\ [][HandleNext]_handleVars

\* Threads that are not blocked run; nobody relies on a timeout or on a task
\* being polled without having been woken.
HandleFairSpec ==
  /\ HandleSpec
  /\ \A f \in Fulfillers : WF_handleVars(Fulfill(f))
  /\ \A w \in Waiters : WF_handleVars(WaitProceed(w))
  /\ \A t \in Tasks : WF_handleVars(PollProceed(t))

-----------------------------------------------------------------------------
\* No wakeup is lost (the second look at the cell in wait_timeout and poll):
\* once a fulfil call is through, nobody sleeps on a set cell.
NoLostWakeup ==
  (\E f \in Fulfillers : fulfiller[f] = "done") =>
    /\ \A w \in Waiters : waiter[w] = "blocked" => w \notin listeners
    /\ \A t \in Tasks : task[t] # "pending"

\* Every party that gets an outcome gets the same one, the first recorded;
\* a wait that was notified never comes back as a timeout.
OneOutcome ==
  /\ \A u \in Users : result[u] \in {cell, Unset}
  /\ \A w \in Waiters : waiter[w] = "blocked" /\ w \notin listeners => is_set

\* Everybody who waits or polls gets an answer, and who gets an outcome gets the
\* one that stays, whoever else fulfils the handle; only a wait that timed out
\* has none.
EveryoneIsServed ==
  /\ \A w \in Waiters : <>[](waiter[w] = "returned" /\ result[w] \in {cell, Unset})
  /\ \A t \in Tasks : <>[](task[t] = "ready" /\ result[t] = cell)
=============================================================================
