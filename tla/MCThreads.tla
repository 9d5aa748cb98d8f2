------------------------------ MODULE MCThreads ------------------------------
(* What the threads of a program wait in: the collector's handshake alone,   *)
(* the identity hashes and the monitors over it, and the event loop of one   *)
(* thread.  A behaviour is of one of the four, chosen at the start; the      *)
(* others keep their initial state.                                          *)
(*                                                                           *)
(* bare: three threads are enough for a controller, a thread it waits for    *)
(* and one that comes or goes meanwhile; three collections for a thread to   *)
(* sleep through one, be overtaken by the next and ask for its own.          *)
(* hashes: two threads race for the hash of the same or of different objects *)
(* while two collections move them; two objects on two addresses make the    *)
(* table grow (one bucket, load factor one) and let one object take the      *)
(* address the other left or died at.                                        *)
(* monitors: two threads over two locks, entries nested twice: every race of *)
(* one lock is a race of two threads, and each can wait for what the other   *)
(* holds.                                                                    *)
(* async: main and two tasks under two scopes, one the other's child: a      *)
(* channel with two receivers, one of which is cancelled through its parent  *)
(* or directly before or after a value is on its way to it.                  *)
EXTENDS IdHash, Monitor, AsyncLoop

VARIABLE which

MCParent == [s \in {"child"} |-> "root"]

threadsVars == <<idVars, monVars, asyncVars, which>>

\* bound: the collections in a behaviour of each kind
CollectionsOf == [bare |-> 3, hashes |-> 2, monitors |-> 1, async |-> 0]

Bounded == collections' <= CollectionsOf[which]

\* action A of one kind of behaviour
Bare(A) ==
  which = "bare" /\ A /\ UNCHANGED <<hashVars, monVars, asyncVars, which>> /\ Bounded
Hashing(A) ==
  which = "hashes" /\ A /\ UNCHANGED <<monVars, asyncVars, which>> /\ Bounded
Locking(A) ==
  which = "monitors" /\ A /\ UNCHANGED <<hashVars, asyncVars, which>> /\ Bounded
Looping(A) ==
  which = "async" /\ A /\ UNCHANGED <<idVars, monVars, which>>

Init ==
  /\ which \in {"bare", "hashes", "monitors", "async"}
  /\ HeapStart(CASE which = "hashes" -> Hashers
                 [] which = "monitors" -> Lockers
                 [] OTHER -> {})
  /\ HashTablesInit /\ MonitorsInit /\ AsyncInit

Next ==
  \/ Bare(HeapNext)
  \/ Hashing(IdNext)
  \/ Locking(MonNext)
  \/ Looping(AsyncNext)

\* The fairness of the four specifications.  As a behaviour is of one kind, a
\* condition on each of several kinds' actions is one condition on either.
Fairness ==
  /\ \A t \in Threads :
       /\ WF_threadsVars(\/ Bare(Wake(t))
                         \/ Locking(t \in Lockers /\ Wake(t) /\ UNCHANGED monVars)
                         \/ Hashing(t \in Hashers /\ WaitOver(t) /\ UNCHANGED hashVars)
                         \/ Hashing(t \in Hashers /\ Finish(t)))
       /\ WF_threadsVars(\/ Bare(Safepoint(t))
                         \/ Locking(t \in Lockers /\ Inside(t))
                         \/ Hashing(t \in Hashers /\ HashStep(t)))
       /\ SF_threadsVars(\/ Locking(/\ t \in Lockers /\ OnCpu(t, "user")
                                    /\ Safepoint(t) /\ UNCHANGED monVars)
                         \/ Hashing(/\ t \in Hashers /\ At(t, "user")
                                    /\ Safepoint(t) /\ UNCHANGED hashVars))
  /\ WF_threadsVars(Looping(Tick)) /\ WF_threadsVars(Looping(LoopStep))
  /\ \A t \in Tasks : WF_threadsVars(Looping(TaskStep(t)))

Spec == Init /\ [][Next]_threadsVars /\ Fairness
===============================================================================
