------------------------------- MODULE AsyncLoop -------------------------------
(***************************************************************************)
(* Cold asynchronous computations on an event loop, stdlib/prelude.fpp:    *)
(* 5914-6036: cancellation scopes, the ready queue and the timers, a       *)
(* channel, and the two ways to drive the loop.  Everything happens on one *)
(* thread; what interleaves is the order in which continuations are queued *)
(* and run.                                                                *)
(*                                                                         *)
(* A task is a computation that was started.  What it does between two     *)
(* suspensions is any sequence of the actions guarded by cur = t, and what *)
(* main does outside the loop any sequence of those with cur = Main.  The  *)
(* code's reversed lists are sequences, oldest first.  The loop is not run *)
(* from inside a task, and no task raises.                                 *)
(***************************************************************************)
EXTENDS Integers, Sequences, FiniteSets

CONSTANTS
  Tasks, Main, Loop,
  Scopes, Root,        \* cancellation tokens; Root has no parent
  Parent,              \* the parent of each scope but Root
  Delays,              \* bound: milliseconds that tasks sleep
  MaxClock,            \* bound: the time at which a behaviour ends
  MaxSends,            \* bound: values sent
  MaxReceives          \* bound: calls of Receive

ASSUME ScopesAssumption == Root \in Scopes /\ Parent \in [Scopes \ {Root} -> Scopes]
\* the token runSynchronously makes, which nobody else gets hold of
Own == "own"
NoTask == "none"

ASSUME RunnersAssumption == Main # Loop /\ {Main, Loop, NoTask} \cap Tasks = {}
ASSUME OwnAssumption == Own \notin Scopes
ASSUME BoundsAssumption ==
  Delays \subseteq Nat \ {0} /\ {MaxClock, MaxSends, MaxReceives} \subseteq Nat

VARIABLES
  clock,       \* monoMs
  ready,       \* EventLoop.ready
  timers,      \* EventLoop.timers: [at, job]
  batch,       \* what step has taken off them and not run yet
  cur,         \* who runs: a task, the loop between two of them, or Main
  status,      \* each task: cold, queued, running, waiting (receiving, sleeping or
               \* switching), done or stopped
  scope,       \* the token each was started under
  cancelled,   \* the tokens that Cancel was called on
  chanBuffer,      \* Channel.buffer; the i-th value sent is i
  waiters,     \* Channel.waiters: tasks
  awaited,     \* the task runSynchronously waits for, or NoTask
  sends,       \* history: how many values were sent
  receives,    \* history: how often Receive was called
  turn,        \* history: which call of Receive each task made last
  got          \* history: the value that call was answered with, or 0

asyncVars == <<clock, ready, timers, batch, cur, status, scope, cancelled, chanBuffer,
          waiters, awaited, sends, receives, turn, got>>
queueVars == <<ready, timers, batch>>
channelVars == <<chanBuffer, waiters, sends, receives, turn, got>>

\* a queued continuation: which task it resumes, the value a receiver gets
Job(t, v) == [task |-> t, value |-> v]

\* the tokens in K and those below them: the least set that holds K and, with a
\* token, its children
Below(K) ==
  {s \in Scopes : \A C \in SUBSET Scopes :
     K \subseteq C /\ (\A c \in Scopes \ {Root} : Parent[c] \in C => c \in C) => s \in C}

\* A token asks itself and then its parent.
IsCancelled(s) == s \in Below(cancelled)

\* the entries of a list at the positions in I, in their order
Kept(q, I) ==
  LET Place(k) == CHOOSE i \in I : Cardinality({j \in I : j <= i}) = k
  IN  [k \in 1 .. Cardinality(I) |-> q[Place(k)]]

AsyncInit ==
  /\ clock = 0
  /\ ready = <<>> /\ timers = <<>> /\ batch = <<>>
  /\ cur = Main
  /\ status = [t \in Tasks |-> "cold"]
  /\ scope = [t \in Tasks |-> Root]
  /\ cancelled = {}
  /\ chanBuffer = <<>> /\ waiters = <<>>
  /\ awaited = NoTask
  /\ sends = 0 /\ receives = 0
  /\ turn = [t \in Tasks |-> 0] /\ got = [t \in Tasks |-> 0]

Post(j) == ready' = Append(ready, j)

-------------------------------------------------------------------------------
(* What tasks and main may call *)

\* Async.start
Start(t, s) ==
  /\ cur # Loop
  /\ status[t] = "cold"
  /\ status' = [status EXCEPT ![t] = "queued"]
  /\ scope' = [scope EXCEPT ![t] = s]
  /\ Post(Job(t, 0))
  /\ UNCHANGED <<clock, timers, batch, cur, cancelled, channelVars, awaited>>

Cancel(s) ==
  /\ cur # Loop
  /\ cancelled' = cancelled \cup {s}
  /\ UNCHANGED <<clock, queueVars, cur, status, scope, channelVars, awaited>>

\* mutant: a value goes to the receiver that came last
SendToLast ==
  /\ cur # Loop /\ sends < MaxSends
  /\ sends' = sends + 1
  /\ IF waiters # <<>>
     THEN /\ Post(Job(waiters[Len(waiters)], sends'))
          /\ waiters' = SubSeq(waiters, 1, Len(waiters) - 1)
          /\ chanBuffer' = chanBuffer
     ELSE /\ chanBuffer' = Append(chanBuffer, sends')
          /\ UNCHANGED <<ready, waiters>>
  /\ UNCHANGED <<clock, timers, batch, cur, status, scope, cancelled, receives,
                 turn, got, awaited>>

\* mutant: the receiver stays in the queue
SendKeepsWaiter ==
  /\ cur # Loop /\ sends < MaxSends
  /\ sends' = sends + 1
  /\ IF waiters # <<>>
     THEN /\ Post(Job(Head(waiters), sends'))
          /\ UNCHANGED <<waiters, chanBuffer>>
     ELSE /\ chanBuffer' = Append(chanBuffer, sends')
          /\ UNCHANGED <<ready, waiters>>
  /\ UNCHANGED <<clock, timers, batch, cur, status, scope, cancelled, receives,
                 turn, got, awaited>>

\* Channel.Send
Send ==
  /\ cur # Loop /\ sends < MaxSends
  /\ sends' = sends + 1
  /\ IF waiters # <<>>
     THEN /\ Post(Job(Head(waiters), sends'))
          /\ waiters' = Tail(waiters)
          /\ chanBuffer' = chanBuffer
     ELSE /\ chanBuffer' = Append(chanBuffer, sends')
          /\ UNCHANGED <<ready, waiters>>
  /\ UNCHANGED <<clock, timers, batch, cur, status, scope, cancelled, receives,
                 turn, got, awaited>>

\* The calls below are Async values that a task binds.  RunWith does not begin
\* them under a cancelled token; the task then never goes on.
Goes(t, s) ==
  /\ cur' = Loop
  /\ status' = [status EXCEPT ![t] = IF IsCancelled(scope[t]) THEN "stopped" ELSE s]

\* Channel.Receive, with a value there
ReceiveNow(t) ==
  /\ cur = t /\ ~IsCancelled(scope[t])
  /\ chanBuffer # <<>> /\ receives < MaxReceives
  /\ receives' = receives + 1
  /\ turn' = [turn EXCEPT ![t] = receives']
  /\ got' = [got EXCEPT ![t] = Head(chanBuffer)]
  /\ chanBuffer' = Tail(chanBuffer)
  /\ UNCHANGED <<clock, queueVars, cur, status, scope, cancelled, waiters, sends,
                 awaited>>

\* ... and without
ReceiveWait(t) ==
  /\ cur = t /\ ~IsCancelled(scope[t])
  /\ chanBuffer = <<>> /\ receives < MaxReceives
  /\ receives' = receives + 1
  /\ turn' = [turn EXCEPT ![t] = receives']
  /\ got' = [got EXCEPT ![t] = 0]
  /\ waiters' = Append(waiters, t)
  /\ Goes(t, "receiving")
  /\ UNCHANGED <<clock, queueVars, scope, cancelled, chanBuffer, sends, awaited>>

Sleep(t, ms) ==
  /\ cur = t /\ ~IsCancelled(scope[t])
  /\ clock + ms <= MaxClock
  /\ timers' = Append(timers, [at |-> clock + ms, job |-> Job(t, 0)])
  /\ Goes(t, "sleeping")
  /\ UNCHANGED <<clock, ready, batch, scope, cancelled, channelVars, awaited>>

Switch(t) ==
  /\ cur = t /\ ~IsCancelled(scope[t])
  /\ Post(Job(t, 0))
  /\ Goes(t, "switching")
  /\ UNCHANGED <<clock, timers, batch, scope, cancelled, channelVars, awaited>>

\* return, or whatever a cancelled task would have bound next
FinishTask(t) ==
  /\ cur = t
  /\ Goes(t, "done")
  /\ UNCHANGED <<clock, queueVars, scope, cancelled, channelVars, awaited>>

-------------------------------------------------------------------------------
(* The loop *)

\* runSynchronously: the task runs at once, then the loop until it is done
RunSynchronously(t) ==
  /\ cur = Main /\ status[t] = "cold"
  /\ awaited' = t
  /\ cur' = t
  /\ status' = [status EXCEPT ![t] = "running"]
  /\ scope' = [scope EXCEPT ![t] = Own]
  /\ UNCHANGED <<clock, queueVars, cancelled, channelVars>>

RunUntilIdle ==
  /\ cur = Main
  /\ cur' = Loop
  /\ UNCHANGED <<clock, queueVars, status, scope, cancelled, channelVars, awaited>>

\* the driver asks for another step
Stepping ==
  /\ cur = Loop /\ batch = <<>>
  /\ awaited \in Tasks => status[awaited] # "done"

\* mutant: the queue is emptied for one continuation
TakeReadyFirst ==
  /\ Stepping /\ ready # <<>>
  /\ batch' = <<Head(ready)>> /\ ready' = <<>>
  /\ UNCHANGED <<clock, timers, cur, status, scope, cancelled, channelVars, awaited>>

TakeReady ==
  /\ Stepping /\ ready # <<>>
  /\ batch' = ready /\ ready' = <<>>
  /\ UNCHANGED <<clock, timers, cur, status, scope, cancelled, channelVars, awaited>>

Due == {i \in DOMAIN timers : timers[i].at <= clock}

\* mutant: one timer of those that are due is fired and all of them dropped
TakeDueFirst ==
  /\ Stepping /\ ready = <<>> /\ Due # {}
  /\ batch' = <<Kept(timers, Due)[1].job>>
  /\ timers' = Kept(timers, DOMAIN timers \ Due)
  /\ UNCHANGED <<clock, ready, cur, status, scope, cancelled, channelVars, awaited>>

\* all that are due, in the order in which they were set
TakeDue ==
  /\ Stepping /\ ready = <<>> /\ Due # {}
  /\ batch' = [k \in 1 .. Cardinality(Due) |-> Kept(timers, Due)[k].job]
  /\ timers' = Kept(timers, DOMAIN timers \ Due)
  /\ UNCHANGED <<clock, ready, cur, status, scope, cancelled, channelVars, awaited>>

\* one continuation: it resumes its task, unless the scope was cancelled
RunJob ==
  /\ cur = Loop /\ batch # <<>>
  /\ LET j == Head(batch) IN
     IF IsCancelled(scope[j.task])
     THEN /\ status' = [status EXCEPT ![j.task] = "stopped"]
          /\ UNCHANGED <<cur, got>>
     ELSE /\ cur' = j.task
          /\ status' = [status EXCEPT ![j.task] = "running"]
          /\ got' = IF j.value > 0 THEN [got EXCEPT ![j.task] = j.value] ELSE got
  /\ batch' = Tail(batch)
  /\ UNCHANGED <<clock, ready, timers, scope, cancelled, chanBuffer, waiters, sends,
                 receives, turn, awaited>>

\* the driver returns, runSynchronously with a result or an exception
LoopReturns ==
  /\ cur = Loop /\ batch = <<>>
  /\ \/ ready = <<>> /\ timers = <<>>
     \/ awaited \in Tasks /\ status[awaited] = "done"
  /\ cur' = Main
  /\ awaited' = NoTask
  /\ UNCHANGED <<clock, queueVars, status, scope, cancelled, channelVars>>

Tick ==
  /\ clock < MaxClock
  /\ clock' = clock + 1
  /\ UNCHANGED <<queueVars, cur, status, scope, cancelled, channelVars, awaited>>

TaskStep(t) ==
  \/ ReceiveNow(t) \/ ReceiveWait(t)
  \/ \E ms \in Delays : Sleep(t, ms)
  \/ Switch(t) \/ FinishTask(t)

LoopStep == TakeReady \/ TakeDue \/ RunJob \/ LoopReturns

AsyncNext ==
  \/ \E t \in Tasks, s \in Scopes : Start(t, s)
  \/ \E s \in Scopes : Cancel(s)
  \/ Send
  \/ \E t \in Tasks : TaskStep(t) \/ RunSynchronously(t)
  \/ RunUntilIdle \/ LoopStep \/ Tick

AsyncSpec == AsyncInit /\ [][AsyncNext]_asyncVars

\* Time passes, the loop goes on, and a task that runs binds something.
AsyncFairSpec ==
  /\ AsyncSpec
  /\ WF_asyncVars(Tick) /\ WF_asyncVars(LoopStep)
  /\ \A t \in Tasks : WF_asyncVars(TaskStep(t))

-------------------------------------------------------------------------------
(* Properties *)

\* the places that hold a way to resume t
Resumptions(t) ==
  Cardinality({i \in DOMAIN batch : batch[i].task = t})
    + Cardinality({i \in DOMAIN ready : ready[i].task = t})
    + Cardinality({i \in DOMAIN timers : timers[i].job.task = t})
    + Cardinality({i \in DOMAIN waiters : waiters[i] = t})

\* the continuations that are on their way
Posted == {batch[i] : i \in DOMAIN batch} \cup {ready[i] : i \in DOMAIN ready}

\* A suspended task can be resumed in exactly one way, any other in none: no
\* continuation runs twice, and none is forgotten.
ResumedOnce ==
  \A t \in Tasks :
    Resumptions(t) = IF status[t] \in {"queued", "receiving", "sleeping", "switching"}
                     THEN 1 ELSE 0

\* A first-in first-out channel (prelude.fpp:5996): the i-th call of Receive is
\* the one that is handed the i-th value, however sends and receives mix.
ReceivesInOrder ==
  /\ \A t \in Tasks : got[t] # 0 => got[t] = turn[t]
  /\ \A j \in Posted : j.value # 0 => j.value = turn[j.task]

\* A value is lost only by reaching a receiver whose scope was cancelled: every
\* other one is in the buffer, on its way, or received.
LostOnlyToCancelled ==
  \A t \in Tasks :
    turn[t] \in 1 .. sends /\ got[t] # turn[t] /\ ~IsCancelled(scope[t]) =>
      \E j \in Posted : j.value = turn[t]

\* While the loop is driven until it is idle, whatever is queued on it is run.
QueuedRuns ==
  \A t \in Tasks :
    status[t] \in {"queued", "switching"} /\ cur = Loop /\ awaited = NoTask
      ~> status[t] \notin {"queued", "switching"} \/ cur = Main
===============================================================================
