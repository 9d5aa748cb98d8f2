----------------------------- MODULE MCCollector -----------------------------
(* The collector's parts that trace, and the two indexes it keeps: the       *)
(* semispace collector with its large objects, ephemerons and finalizers     *)
(* under two tracing workers, the parallel tracer, the index of large        *)
(* objects by address and the map of addresses.  A behaviour is of one of    *)
(* the five, chosen at the start; the others keep one initial state.         *)
EXTENDS MCSemi, MCWeak, MCTracer, SplayTree, AddressMap

VARIABLE which

collectorVars == <<semiVars, weakVars, tracerVars, splayVars, mapVars, which>>

Init ==
  /\ which \in {"semi", "weak", "tracer", "tree", "map"}
  /\ SemiInit /\ SplayInit /\ MapInit
  /\ WeakInit /\ (which # "weak" => shape = Base)
  /\ TracerInit /\ (which # "tracer" => edges = CHOOSE g \in Graphs : TRUE)

Copying(A) ==
  which = "semi" /\ A /\ UNCHANGED <<weakVars, tracerVars, splayVars, mapVars, which>>
Finalizing(A) ==
  which = "weak" /\ A /\ UNCHANGED <<semiVars, tracerVars, splayVars, mapVars, which>>
Sharing(A) ==
  which = "tracer" /\ A /\ UNCHANGED <<semiVars, weakVars, splayVars, mapVars, which>>
Splaying(A) ==
  which = "tree" /\ A /\ UNCHANGED <<semiVars, weakVars, tracerVars, mapVars, which>>
Mapping(A) ==
  which = "map" /\ A /\ UNCHANGED <<semiVars, weakVars, tracerVars, splayVars, which>>

Next ==
  \/ Copying(SemiNext)
  \/ Finalizing(WeakNext)
  \/ Sharing(TracerNext)
  \/ Splaying(SplayNext)
  \/ Mapping(MapNext)

\* The fairness of the three specifications.  As a behaviour is of one kind, a
\* condition on each of several kinds' actions is one condition on either.
Fairness ==
  /\ WF_collectorVars(Copying(CollectStep) \/ Finalizing(CollectorStep) \/ Sharing(MainNext))
  /\ \A w \in Workers : WF_collectorVars(Finalizing(WorkerStep(w)))
  /\ \A h \in Helpers : WF_collectorVars(Sharing(HelperNext(h)))

Spec == Init /\ [][Next]_collectorVars /\ Fairness

\* A collection that has begun ends: the semispace collector's resolution of
\* ephemerons, the rounds of finalizers, and the workers of the tracer, none of
\* whom spins or sleeps for ever.
CollectionsEnd ==
  /\ which = "semi" => CollectionEnds
  /\ which = "weak" => AllHandedOut
  /\ which = "tracer" => RoundsEnd
===============================================================================
