----------------------------- MODULE MCPrograms -----------------------------
(* What one thread of a program, or of the tools, computes: the query engine,*)
(* the language server's documents, the runtime's uniqueness query, its      *)
(* structural equality and order, and its exceptions.  A behaviour is of one *)
(* of the five, chosen at the start; the others keep one initial state.      *)
EXTENDS MCQueryDb, MCLsp, MCUnique, MCStructural, MCExceptions

VARIABLE which

programsVars == <<dbVars, lspVars, vars, structVars, excVars, which>>

ProgramsInit ==
  /\ which \in {"queries", "documents", "unique", "values", "exceptions"}
  /\ DbInit /\ ExcInit
  /\ LspInit /\ (which # "documents" => disk = [f \in Files |-> CHOOSE c \in Contents : TRUE])
  /\ StructInit /\ (which # "values" => type = CHOOSE y \in DOMAIN Types : TRUE)
  /\ IF which = "unique" THEN Init ELSE
       /\ kind = [o \in Objects |-> CHOOSE k \in Kinds : TRUE]
       /\ fields = [o \in Objects |-> [k \in Slots |-> Null]]
       /\ statics = [k \in Slots |-> Null]
       /\ frames = {} /\ pods = {} /\ pc = "seed"
       /\ seen = {} /\ work = {} /\ count = 0

Querying(A) ==
  which = "queries" /\ A /\ UNCHANGED <<lspVars, vars, structVars, excVars, which>>
Documents(A) ==
  which = "documents" /\ A /\ UNCHANGED <<dbVars, vars, structVars, excVars, which>>
Counting(A) ==
  which = "unique" /\ A /\ UNCHANGED <<dbVars, lspVars, structVars, excVars, which>>
Comparing(A) ==
  which = "values" /\ A /\ UNCHANGED <<dbVars, lspVars, vars, excVars, which>>
Throwing(A) ==
  which = "exceptions" /\ A /\ UNCHANGED <<dbVars, lspVars, vars, structVars, which>>

ProgramsNext ==
  \/ Querying(DbNext) \/ Documents(LspNext) \/ Counting(Next)
  \/ Comparing(StructNext) \/ Throwing(ExcNext)

ProgramsSpec == ProgramsInit /\ [][ProgramsNext]_programsVars
===============================================================================
