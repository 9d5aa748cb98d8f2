------------------------------ MODULE PhasedWork ------------------------------
(***************************************************************************)
(* What fpp_pool_dispatch_phased promises its caller, with no threads, no  *)
(* cursors and no counters: the index range [0, n) is cut into groups,     *)
(* every index is run once in every phase, an index enters phase p only    *)
(* when its whole group is through phase p-1, and the call returns only    *)
(* when everything has run (runtime/fpprt.c:500-507, runtime/fpprt.h:190). *)
(***************************************************************************)
EXTENDS Integers

CONSTANT Requests  \* the admissible calls: records with n and phases

VARIABLES
  job,             \* the call being served: [n, phases, slices]
  open,            \* TRUE from the call to its return
  begun,           \* <<phase, index>> pairs handed to the kernel
  ended            \* <<phase, index>> pairs the kernel has returned from

vars == <<job, open, begun, ended>>

All == (0 .. job.phases - 1) \X (0 .. job.n - 1)

\* S cuts [0, n) into nonempty slices whose lengths differ by at most one
EvenCut(S, n) ==
  /\ \A i \in 0 .. n - 1 : \E s \in S : s.lo <= i /\ i < s.hi
  /\ \A s \in S : 0 <= s.lo /\ s.lo < s.hi /\ s.hi <= n
  /\ \A s, r \in S : /\ s # r => s.hi <= r.lo \/ r.hi <= s.lo
                     /\ s.hi - s.lo <= r.hi - r.lo + 1

Init == /\ job = [n |-> 0, phases |-> 0, slices |-> {}]
        /\ open = FALSE
        /\ begun = {} /\ ended = {}

Call == /\ ~open
        /\ open' = TRUE
        /\ \E r \in Requests : job'.n = r.n /\ job'.phases = r.phases
        /\ EvenCut(job'.slices, job'.n)
        /\ begun' = {} /\ ended' = {}

\* One kernel call: a nonempty range of one group's slice, none of it run
\* in this phase before, all of the group through the previous phase.
Begin(p, lo, hi) ==
  /\ open
  /\ \E s \in job.slices :
       /\ s.lo <= lo /\ hi <= s.hi
       /\ p > 0 => \A i \in s.lo .. s.hi - 1 : <<p - 1, i>> \in ended
  /\ \A i \in lo .. hi - 1 : <<p, i>> \notin begun
  /\ begun' = begun \cup ({p} \X (lo .. hi - 1))
  /\ UNCHANGED <<job, open, ended>>

End(p, lo, hi) ==
  /\ \A i \in lo .. hi - 1 : <<p, i>> \in begun \ ended
  /\ ended' = ended \cup ({p} \X (lo .. hi - 1))
  /\ UNCHANGED <<job, open, begun>>

Return == /\ open /\ ended = All
          /\ open' = FALSE
          /\ UNCHANGED <<job, begun, ended>>

Next ==
  \/ Call
  \/ \E p \in 0 .. job.phases - 1, lo \in 0 .. job.n - 1, hi \in 1 .. job.n :
       lo < hi /\ (Begin(p, lo, hi) \/ End(p, lo, hi))
  \/ Return

Spec == Init /\ [][Next]_vars
===============================================================================
