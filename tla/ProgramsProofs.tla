---------------------------- MODULE ProgramsProofs ----------------------------
(***************************************************************************)
(* What a program and its author rely on from single-threaded parts: the   *)
(* answers of the uniqueness query, the editor's text in the workspace,    *)
(* and where a raise lands.  The parts share nothing; each is proved for   *)
(* itself, as MCPrograms checks them beside each other.                    *)
(***************************************************************************)
EXTENDS Unique, Lsp, Exceptions, FiniteSetTheorems, SequenceTheorems, TLAPS

(***************************************************************************)
(* The uniqueness query, for every heap: as long as no struct with         *)
(* references lies in an array or on the stack, an answer of 0 means that  *)
(* nothing the program can reach refers to the target.                     *)
(***************************************************************************)
\* What is known about an object once it has been scanned.
Clean(o) == Hits(fields[o]) = {} /\ Others(fields[o]) \subseteq seen

NoPods == pods = {} /\ "podArray" \notin Kinds

ScalarsEmpty == \A o \in Objects : ~HasRefs(o) => fields[o] = [k \in Slots |-> Null]

\* While nothing has been found: the roots are marked, and of the marked
\* objects those that are not waiting to be scanned are clean.
Marking ==
  /\ pc = "seed" => seen = {} /\ work = {} /\ count = 0
  /\ pc # "seed" /\ count = 0 =>
       /\ Hits(statics) = {}
       /\ Others(statics) \cup (frames \ {Target}) \subseteq seen
       /\ \A o \in seen \ work : Clean(o)
  /\ pc = "done" /\ count = 0 => work = {}

UniqueInv == UniqueTypeOK /\ NoPods /\ ScalarsEmpty /\ Marking

-------------------------------------------------------------------------------

\* How many slots hold the target is a number, 0 only if none does.
LEMMA HitsCounted ==
  ASSUME NEW f
  PROVE  Cardinality(Hits(f)) \in Nat /\ (Cardinality(Hits(f)) = 0 <=> Hits(f) = {})
<1>1. Hits(f) \subseteq Slots
  BY DEF Hits
<1>2. IsFiniteSet(Hits(f))
  BY <1>1, SlotsAssumption, FS_Subset
<1> QED
  BY <1>2, FS_CardinalityType, FS_EmptySet

\* What a row of fields refers to are objects other than the target.
LEMMA OthersAreObjects ==
  ASSUME NEW f \in [Slots -> Objects \cup {Null}]
  PROVE  Others(f) \subseteq Objects \ {Target}
BY DEF Others

\* A row without references has neither hits nor others.
LEMMA EmptyRow ==
  ASSUME NEW f, f = [k \in Slots |-> Null]
  PROVE  Hits(f) = {} /\ Others(f) = {}
BY ObjectsAssumption DEF Hits, Others

-------------------------------------------------------------------------------

LEMMA TypeInit == Init => UniqueTypeOK
<1> SUFFICES ASSUME Init PROVE UniqueTypeOK
  OBVIOUS
<1> QED
  BY DEF Init, UniqueTypeOK

LEMMA TypeStep == UniqueTypeOK /\ [Next]_vars => UniqueTypeOK'
<1> SUFFICES ASSUME UniqueTypeOK, [Next]_vars PROVE UniqueTypeOK'
  OBVIOUS
<1> USE DEF UniqueTypeOK
<1>1. CASE Seed
  <2>1. Others(statics) \subseteq Objects \ {Target}
    BY OthersAreObjects
  <2>2. Cardinality(Hits(statics)) \in Nat
    BY HitsCounted
  <2> QED
    BY <1>1, <2>1, <2>2 DEF Seed, heap
<1>2. ASSUME NEW o \in Objects, Scan(o) PROVE UniqueTypeOK'
  <2>1. Others(fields[o]) \subseteq Objects \ {Target}
    BY OthersAreObjects
  <2>2. Cardinality(Hits(fields[o])) \in Nat
    BY HitsCounted
  <2> QED
    BY <1>2, <2>1, <2>2 DEF Scan, heap
<1>3. CASE Answer
  BY <1>3 DEF Answer, heap
<1>4. CASE UNCHANGED vars
  BY <1>4 DEF vars, heap
<1> QED
  BY <1>1, <1>2, <1>3, <1>4 DEF Next

\* The marks, the work stack and the count are what they should be: the target
\* is never marked, and only marked objects wait (fpprt.c:665-725).
THEOREM UniqueTypeCorrect == Spec => []UniqueTypeOK
<1> QED
  BY TypeInit, TypeStep, PTL DEF Spec

-------------------------------------------------------------------------------

LEMMA MarkingInit ==
  ASSUME "podArray" \notin Kinds, Init
  PROVE  UniqueInv
<1>1. UniqueTypeOK
  BY TypeInit
<1>2. pods = {}
  BY DEF Init, ArePods
<1> QED
  BY <1>1, <1>2 DEF Init, UniqueInv, NoPods, ScalarsEmpty, Marking

LEMMA MarkingStep ==
  ASSUME UniqueInv, [Next]_vars
  PROVE  UniqueInv'
<1> USE DEF UniqueInv
<1>1. UniqueTypeOK'
  BY TypeStep
<1>2. UNCHANGED heap
  BY DEF Next, Seed, Scan, Answer, vars
<1>3. NoPods' /\ ScalarsEmpty'
  BY <1>2 DEF heap, NoPods, ScalarsEmpty, HasRefs
<1>4. Marking'
  <2>1. CASE Seed
    <3>1. Cardinality(Hits(statics)) = 0 => Hits(statics) = {}
      BY HitsCounted
    <3> QED
      BY <2>1, <3>1 DEF Seed, Marking, Clean, Hits, Others, heap
  <2>2. ASSUME NEW o \in Objects, Scan(o) PROVE Marking'
    <3> SUFFICES ASSUME pc' # "seed", count' = 0
                 PROVE  /\ Hits(statics)' = {}
                        /\ Others(statics)' \cup (frames' \ {Target}) \subseteq seen'
                        /\ \A p \in seen' \ work' : Clean(p)'
      BY <2>2 DEF Scan, Marking
    <3>1. /\ pc = "scan" /\ seen \subseteq seen'
          /\ fields' = fields /\ statics' = statics /\ frames' = frames
      BY <2>2, <1>2 DEF Scan, heap
    <3>2. count = 0 /\ (Scanned(o) => Hits(fields[o]) = {})
      BY <2>2, HitsCounted DEF Scan, UniqueTypeOK
    <3>3. \A p \in seen' \ work' : p # o => p \in seen \ work
      BY <2>2 DEF Scan, UniqueTypeOK
    <3>4. Hits(fields[o]) = {} /\ Others(fields[o]) \subseteq seen'
      <4>1. CASE Scanned(o)
        BY <2>2, <3>2, <4>1 DEF Scan
      <4>2. CASE ~Scanned(o)
        <5>0. kind[o] \in Kinds /\ kind[o] # "podArray"
          BY DEF NoPods, UniqueTypeOK
        <5>1. ~HasRefs(o)
          BY <4>2, <5>0, KindsAssumption DEF Scanned, HasRefs
        <5>2. fields[o] = [k \in Slots |-> Null]
          BY <5>1 DEF ScalarsEmpty
        <5> QED
          BY <5>2, EmptyRow
      <4> QED
        BY <4>1, <4>2
    <3>5. \A p \in seen \ work : Hits(fields[p]) = {} /\ Others(fields[p]) \subseteq seen
      BY <3>1, <3>2 DEF Marking, Clean
    <3>6. \A p \in seen' \ work' : Clean(p)'
      BY <3>1, <3>3, <3>4, <3>5 DEF Clean, Hits, Others
    <3> QED
      BY <3>1, <3>2, <3>6 DEF Marking, Hits, Others
  <2>3. CASE Answer
    BY <2>3 DEF Answer, Marking, Clean, Hits, Others, heap, UniqueTypeOK
  <2>4. CASE UNCHANGED vars
    BY <2>4 DEF vars, heap, Marking, Clean, Hits, Others
  <2> QED
    BY <2>1, <2>2, <2>3, <2>4 DEF Next
<1> QED
  BY <1>1, <1>3, <1>4

LEMMA MarkingIsHonest == UniqueInv => HonestUnique
<1> SUFFICES ASSUME UniqueInv, pc = "done", count = 0
             PROVE  Hits(statics) = {} /\ \A o \in Reachable : Hits(fields[o]) = {}
  BY DEF HonestUnique
<1>1. /\ Hits(statics) = {}
      /\ Others(statics) \cup (frames \ {Target}) \subseteq seen
      /\ \A o \in seen : Hits(fields[o]) = {} /\ Others(fields[o]) \subseteq seen
  BY DEF UniqueInv, Marking, Clean
<1>2. seen \in SUBSET (Objects \ {Target})
  BY DEF UniqueInv, UniqueTypeOK
<1>3. Closed(seen)
  <2>1. Target \notin Others(statics)
    BY DEF Others
  <2> QED
    BY <1>1, <2>1 DEF Closed, Roots, UniqueInv, NoPods
<1>4. Reachable \subseteq seen
  BY <1>2, <1>3 DEF Reachable
<1> QED
  BY <1>1, <1>4

\* An answer of 0 is honest (fpprt.c:628-725 for prelude.fpp:6199-6208), in any
\* heap without structs of references in arrays or on the stack.
THEOREM UniqueIsHonest ==
  ASSUME "podArray" \notin Kinds
  PROVE  Spec => []HonestUnique
<1>1. Init => UniqueInv
  BY MarkingInit
<1>2. UniqueInv /\ [Next]_vars => UniqueInv'
  BY MarkingStep
<1>3. UniqueInv => HonestUnique
  BY MarkingIsHonest
<1> QED
  BY <1>1, <1>2, <1>3, PTL DEF Spec

(***************************************************************************)
(* The editor's text in module Lsp, for any files, projects and contents.  *)
(*                                                                         *)
(* Loading a project reads the sources that are not in the list of files.  *)
(* It must not read one that is open.  That is so if a file's sources are  *)
(* those of the nearest manifest, or if there is only one project: with    *)
(* several, a file that another project's manifest lists may have been     *)
(* pushed off the list while it is open.                                   *)
(***************************************************************************)
SourcesAreOwn ==
  \A p \in Projects : \A f \in ToSet(SourcesOf[p]) :
    ProjectOf[f] = p \/ Projects = {p}

Texts == [Files -> Contents \cup {None}]
Workspaces == [files : Seq(Files), text : Texts]

\* The project of an open file is loaded; and until some project is, the open
\* files are in the list.
OpenInv ==
  /\ ws \in Workspaces /\ loaded \subseteq Projects
  /\ buffer \in Texts /\ disk \in [Files -> Contents]
  /\ \A f \in Files : buffer[f] # None =>
       /\ ws.text[f] = buffer[f]
       /\ ProjectOf[f] \in Projects => ProjectOf[f] \in loaded
       /\ loaded = {} => f \in ToSet(ws.files)

-------------------------------------------------------------------------------
LEMMA ToSetOfAppend ==
  ASSUME NEW s \in Seq(Files), NEW f \in Files
  PROVE  /\ Append(s, f) \in Seq(Files)
         /\ ToSet(s) \cup {f} \subseteq ToSet(Append(s, f))
<1>1. /\ Append(s, f) \in Seq(Files) /\ Len(Append(s, f)) = Len(s) + 1
      /\ \A i \in 1 .. Len(s) : Append(s, f)[i] = s[i]
      /\ Append(s, f)[Len(s) + 1] = f
  BY AppendProperties
<1>2. Len(s) \in Nat /\ DOMAIN s = 1 .. Len(s)
      /\ DOMAIN Append(s, f) = 1 .. Len(Append(s, f))
  BY <1>1, LenProperties
<1>3. ASSUME NEW x \in ToSet(s)
      PROVE  x \in ToSet(Append(s, f))
  <2>1. PICK i \in 1 .. Len(s) : s[i] = x
    BY <1>2, <1>3 DEF ToSet
  <2>2. i \in 1 .. Len(s) + 1 /\ Append(s, f)[i] = x
    BY <1>1, <1>2, <2>1
  <2>3. QED
    BY <1>1, <1>2, <2>2, Zenon DEF ToSet
<1>4. f \in ToSet(Append(s, f))
  <2>1. Len(s) + 1 \in 1 .. Len(s) + 1
    BY <1>2
  <2>2. QED
    BY <1>1, <1>2, <2>1, Zenon DEF ToSet
<1>5. QED
  BY <1>1, <1>3, <1>4

\* The text of one file is set, and the file is in the list.
LEMMA TextIsSet ==
  ASSUME NEW w \in Workspaces, NEW f \in Files, NEW c \in Contents
  PROVE  /\ SetFileText(w, f, c) \in Workspaces
         /\ SetFileText(w, f, c).text = [w.text EXCEPT ![f] = c]
         /\ ToSet(w.files) \cup {f} \subseteq ToSet(SetFileText(w, f, c).files)
<1>1. w.files \in Seq(Files) /\ w.text \in Texts
  BY DEF Workspaces
<1>2. SetFileText(w, f, c) =
        [files |-> IF f \in ToSet(w.files) THEN w.files ELSE Append(w.files, f),
         text |-> [w.text EXCEPT ![f] = c]]
  BY DEF SetFileText
<1>3. [w.text EXCEPT ![f] = c] \in Texts
  BY <1>1 DEF Texts
<1>4. QED
  BY <1>1, <1>2, <1>3, ToSetOfAppend DEF Workspaces

\* A file that is open keeps its text when a project is loaded.
LEMMA OpenIsNotRead ==
  ASSUME OpenInv, SourcesAreOwn, NEW g \in Files
  PROVE  /\ EnsureProject(g) \in Workspaces
         /\ \A f \in Files : buffer[f] # None => EnsureProject(g).text[f] = buffer[f]
         /\ ProjectOf[g] \notin Projects => EnsureProject(g) = ws
<1>1. CASE ProjectOf[g] \in Projects \ loaded
  <2>1. PICK p \in Projects : p = ProjectOf[g] /\ p \notin loaded
    BY <1>1
  <2>2. EnsureProject(g) = LoadProject(ws, p)
    BY <1>1, <2>1 DEF EnsureProject
  <2>3. LoadProject(ws, p) \in Workspaces
    BY <2>1, ManifestsAssumption DEF LoadProject, OpenInv, Workspaces, Texts
  <2>4. ASSUME NEW f \in Files, buffer[f] # None
        PROVE  LoadProject(ws, p).text[f] = buffer[f]
    <3>1. f \notin ToSet(SourcesOf[p]) \ ToSet(ws.files)
      <4>1. SUFFICES ASSUME f \in ToSet(SourcesOf[p]), f \notin ToSet(ws.files)
                     PROVE  FALSE
        OBVIOUS
      <4>2. ProjectOf[f] # p
        BY <2>1, <2>4 DEF OpenInv
      <4>3. Projects = {p}
        BY <4>1, <4>2 DEF SourcesAreOwn
      <4>4. loaded = {}
        BY <2>1, <4>3 DEF OpenInv
      <4>5. QED
        BY <2>4, <4>1, <4>4 DEF OpenInv
    <3>2. LoadProject(ws, p).text[f] = ws.text[f]
      BY <3>1 DEF LoadProject
    <3>3. QED
      BY <2>4, <3>2 DEF OpenInv
  <2>5. QED
    BY <1>1, <2>2, <2>3, <2>4
<1>2. CASE ProjectOf[g] \notin Projects \ loaded
  <2>1. EnsureProject(g) = ws
    BY <1>2 DEF EnsureProject
  <2>2. QED
    BY <1>2, <2>1 DEF OpenInv
<1>3. QED
  BY <1>1, <1>2

LEMMA OpenKeeps ==
  ASSUME OpenInv, SourcesAreOwn, NEW g \in Files, DidOpen(g)
  PROVE  OpenInv'
<1>1. PICK w \in Workspaces, c \in Contents : w = EnsureProject(g) /\ c = disk[g]
  BY OpenIsNotRead DEF OpenInv
<1>2. /\ ws' = SetFileText(w, g, c) /\ buffer' = [buffer EXCEPT ![g] = c]
      /\ loaded' = loaded \cup ({ProjectOf[g]} \cap Projects) /\ disk' = disk
  BY <1>1 DEF DidOpen
<1>3. /\ ws' \in Workspaces /\ ws'.text = [w.text EXCEPT ![g] = c]
      /\ ToSet(w.files) \cup {g} \subseteq ToSet(ws'.files)
  BY <1>2, TextIsSet
<1>4. buffer' \in Texts /\ loaded' \subseteq Projects /\ disk' \in [Files -> Contents]
  BY <1>2 DEF OpenInv, Texts
<1>5. ASSUME NEW f \in Files, buffer'[f] # None
      PROVE  /\ ws'.text[f] = buffer'[f]
             /\ ProjectOf[f] \in Projects => ProjectOf[f] \in loaded'
             /\ loaded' = {} => f \in ToSet(ws'.files)
  <2>1. w.text \in Texts /\ buffer \in Texts
    BY DEF OpenInv, Workspaces
  <2>2. CASE f = g
    BY <1>2, <1>3, <2>1, <2>2 DEF Texts
  <2>3. CASE f # g
    <3>1. buffer'[f] = buffer[f] /\ ws'.text[f] = w.text[f]
      BY <1>2, <1>3, <2>1, <2>3 DEF Texts
    <3>2. w.text[f] = buffer[f]
      BY <1>1, <1>5, <3>1, OpenIsNotRead
    <3>3. ProjectOf[f] \in Projects => ProjectOf[f] \in loaded'
      BY <1>2, <1>5, <3>1 DEF OpenInv
    <3>4. loaded' = {} => f \in ToSet(ws'.files)
      <4>1. loaded' = {} => loaded = {} /\ w = ws
        BY <1>1, <1>2, OpenIsNotRead
      <4>2. QED
        BY <1>3, <1>5, <3>1, <4>1 DEF OpenInv
    <3>5. QED
      BY <3>1, <3>2, <3>3, <3>4
  <2>4. QED
    BY <2>2, <2>3
<1>6. QED
  BY <1>3, <1>4, <1>5 DEF OpenInv

LEMMA ChangeKeeps ==
  ASSUME OpenInv, NEW g \in Files, NEW c \in Contents, DidChange(g, c)
  PROVE  OpenInv'
<1>1. /\ ws' = SetFileText(ws, g, c) /\ buffer' = [buffer EXCEPT ![g] = c]
      /\ UNCHANGED <<loaded, disk>> /\ buffer[g] # None
  BY DEF DidChange
<1>2. /\ ws' \in Workspaces /\ ws'.text = [ws.text EXCEPT ![g] = c]
      /\ ToSet(ws.files) \cup {g} \subseteq ToSet(ws'.files)
  <2>1. ws \in Workspaces
    BY DEF OpenInv
  <2>2. QED
    BY <1>1, <2>1, TextIsSet, Zenon
<1>3. buffer' \in Texts
  BY <1>1 DEF OpenInv, Texts
<1>4. ws.text \in Texts /\ buffer \in Texts
  BY DEF OpenInv, Workspaces
<1>5. ASSUME NEW f \in Files, buffer'[f] # None
      PROVE  /\ ws'.text[f] = buffer'[f] /\ buffer[f] # None
  BY <1>1, <1>2, <1>4, <1>5 DEF Texts, OpenInv
<1>6. QED
  BY <1>1, <1>2, <1>3, <1>5 DEF OpenInv

LEMMA OthersKeep ==
  ASSUME OpenInv, NEW g \in Files, Save(g) \/ DidClose(g)
  PROVE  OpenInv'
<1>1. UNCHANGED <<ws, loaded>>
  BY DEF Save, DidClose
<1>2. buffer' \in Texts /\ \A f \in Files : buffer'[f] \in {buffer[f], None}
  BY DEF Save, DidClose, OpenInv, Texts
<1>3. disk' \in [Files -> Contents]
  BY DEF Save, DidClose, OpenInv, Texts
<1>4. QED
  BY <1>1, <1>2, <1>3 DEF OpenInv

-------------------------------------------------------------------------------
\* What the workspace checks of an open file is what the editor has of it,
\* however many projects are opened after it, if each lists files of its own or
\* there is only one.
THEOREM BuffersAreTruth ==
  ASSUME SourcesAreOwn
  PROVE  LspSpec => []BufferIsTruth
<1>1. LspInit => OpenInv
  <2> SUFFICES ASSUME LspInit PROVE OpenInv
    OBVIOUS
  <2>1. <<>> \in Seq(Files)
    BY EmptySeq
  <2>2. [f \in Files |-> None] \in Texts
    BY DEF Texts
  <2>3. ws \in Workspaces /\ buffer \in Texts
    BY <2>1, <2>2 DEF LspInit, Workspaces
  <2>4. \A f \in Files : buffer[f] = None
    BY DEF LspInit
  <2>5. loaded \subseteq Projects /\ disk \in [Files -> Contents]
    BY DEF LspInit
  <2>6. QED
    BY <2>3, <2>4, <2>5 DEF OpenInv
<1>2. OpenInv /\ [LspNext]_lspVars => OpenInv'
  <2> SUFFICES ASSUME OpenInv, [LspNext]_lspVars PROVE OpenInv'
    OBVIOUS
  <2>1. CASE UNCHANGED lspVars
    BY <2>1 DEF lspVars, OpenInv
  <2>2. QED
    BY <2>1, OpenKeeps, ChangeKeeps, OthersKeep DEF LspNext
<1>3. OpenInv => BufferIsTruth
  BY DEF OpenInv, BufferIsTruth
<1>4. QED
  BY <1>1, <1>2, <1>3, PTL DEF LspSpec

(***************************************************************************)
(* Where a raise lands: module Exceptions, for any nesting of calls and    *)
(* tries and any number of moves.                                          *)
(*                                                                         *)
(* The pointers are shown to be the innermost activations without counting *)
(* along the stack: what is pushed is the innermost of its kind, and what  *)
(* is popped has the next one in its prev.                                 *)
(***************************************************************************)
Values == Payloads \cup {Nothing, Garbage}
ActivationKinds == {"call", "body", "guards", "handling"}
Activations == [kind : ActivationKinds, prev : Nat, frames : Nat, ex : Values, sent : Values]

\* a handler, if there is one: the body of a try below i
IsHandler(h, i) == h \in 1 .. i - 1 /\ stack[h].kind = "body"

StackInv ==
  /\ stack \in Seq(Activations)
  /\ Depth >= 1 /\ stack[1].kind = "call"
  /\ exn \in [obj : Values, at : Nat] /\ address \in Nat
  /\ top \in Nat /\ handlerTop \in Nat

Linked ==
  /\ handlerTop # 0 => IsHandler(handlerTop, Depth + 1)
  /\ \A i \in 1 .. Depth :
       stack[i].kind = "body" /\ stack[i].prev # 0 => IsHandler(stack[i].prev, i)

\* the last conjunct but one of UnwoundToLive, and the two before it
Chains ==
  \A i \in 1 .. Depth :
    /\ stack[i].kind = "call" => stack[i].prev = Innermost(Below("call", i))
    /\ stack[i].kind = "body" => /\ stack[i].prev = Innermost(Below("body", i))
                                 /\ stack[i].frames = Innermost(Below("call", i))

Tops ==
  /\ top = Innermost(Below("call", Depth + 1))
  /\ handlerTop = Innermost(Below("body", Depth + 1))

ExcInv == StackInv /\ Linked /\ Chains /\ Tops /\ ended # "abort"

-------------------------------------------------------------------------------
(* The stack *)

\* The stack cut to n activations, and one on top.
LEMMA Pushed ==
  ASSUME StackInv, NEW n \in 0 .. Depth, NEW a \in Activations,
         stack' = Append(SubSeq(stack, 1, n), a)
  PROVE  /\ stack' \in Seq(Activations) /\ Len(stack') = n + 1 /\ stack'[n + 1] = a
         /\ \A i \in 1 .. n : stack'[i] = stack[i]
<1> DEFINE s == SubSeq(stack, 1, n)
<1>1. Len(stack) \in Nat /\ \A i \in 1 .. n : stack[i] \in Activations
  BY LenProperties, ElementOfSeq DEF StackInv, Depth
<1>2. /\ s \in Seq(Activations)
      /\ Len(s) = IF 1 <= n THEN n - 1 + 1 ELSE 0
      /\ \A i \in 1 .. n - 1 + 1 : s[i] = stack[1 + i - 1]
  <2>1. n \in Int
    BY <1>1 DEF Depth
  <2>2. QED
    BY <1>1, <2>1, SubSeqProperties
<1>3. Len(s) = n /\ \A i \in 1 .. n : s[i] = stack[i]
  BY <1>1, <1>2 DEF Depth
<1> HIDE DEF s
<1>4. stack' = Append(s, a)
  BY DEF s
<1>5. QED
  BY <1>2, <1>3, <1>4, AppendProperties

LEMMA Popped ==
  ASSUME StackInv, NEW n \in 0 .. Depth, stack' = SubSeq(stack, 1, n)
  PROVE  /\ stack' \in Seq(Activations) /\ Len(stack') = n
         /\ \A i \in 1 .. n : stack'[i] = stack[i]
<1>1. Len(stack) \in Nat /\ \A i \in 1 .. n : stack[i] \in Activations
  BY LenProperties, ElementOfSeq DEF StackInv, Depth
<1>2. /\ stack' \in Seq(Activations)
      /\ Len(stack') = IF 1 <= n THEN n - 1 + 1 ELSE 0
      /\ \A i \in 1 .. n - 1 + 1 : stack'[i] = stack[1 + i - 1]
  <2>1. n \in Int
    BY <1>1 DEF Depth
  <2>2. QED
    BY <1>1, <2>1, SubSeqProperties
<1>3. QED
  BY <1>1, <1>2 DEF Depth

\* What is below a place does not change with what is above it.
LEMMA BelowStands ==
  ASSUME NEW n \in Nat, \A i \in 1 .. n : stack'[i].kind = stack[i].kind,
         NEW i \in 0 .. n + 1, NEW k
  PROVE  Below(k, i)' = Below(k, i)
  BY DEF Below

LEMMA InnermostIs ==
  ASSUME NEW S, NEW n \in S, \A l \in S : l \in Int /\ l <= n
  PROVE  Innermost(S) = n
<1>1. S # {} /\ \A j \in S : (\A l \in S : l <= j) => j = n
  OBVIOUS
<1>2. QED
  BY <1>1 DEF Innermost

\* The top of the stack, if it is of the kind, is its innermost; if not, the
\* innermost is further below.
LEMMA TopIsInnermost ==
  ASSUME StackInv, NEW k
  PROVE  Innermost(Below(k, Depth + 1)) =
           IF Here.kind = k THEN Depth ELSE Innermost(Below(k, Depth))
<1>1. Depth \in Nat /\ Depth >= 1
  BY LenProperties DEF StackInv, Depth
<1>2. CASE Here.kind = k
  <2>1. Depth \in Below(k, Depth + 1)
    BY <1>1, <1>2 DEF Below, Here
  <2>2. \A l \in Below(k, Depth + 1) : l \in Int /\ l <= Depth
    BY <1>1 DEF Below
  <2>3. QED
    BY <1>2, <2>1, <2>2, InnermostIs
<1>3. CASE Here.kind # k
  <2>1. Below(k, Depth + 1) = Below(k, Depth)
    BY <1>1, <1>3 DEF Below, Here
  <2>2. QED
    BY <1>3, <2>1
<1>4. QED
  BY <1>2, <1>3

-------------------------------------------------------------------------------
(* Steps *)

\* One activation on top of n: the pointers are right if they were right for n.
LEMMA PushKeeps ==
  ASSUME ExcInv, NEW n \in 1 .. Depth, NEW a \in Activations,
         NEW call \in Nat, NEW body \in Nat,
         call = Innermost(Below("call", n + 1)),
         body = Innermost(Below("body", n + 1)),
         body # 0 => IsHandler(body, n + 1),
         a.kind = "call" => a.prev = call,
         a.kind = "body" => a.prev = body /\ a.frames = call,
         stack' = Append(SubSeq(stack, 1, n), a),
         top' = (IF a.kind = "call" THEN n + 1 ELSE call),
         handlerTop' = (IF a.kind = "body" THEN n + 1 ELSE body),
         exn' \in [obj : Values, at : Nat], address' \in Nat, ended' # "abort"
  PROVE  ExcInv'
<1>1. /\ stack' \in Seq(Activations) /\ Len(stack') = n + 1 /\ stack'[n + 1] = a
      /\ \A i \in 1 .. n : stack'[i] = stack[i]
  <2>1. StackInv
    BY DEF ExcInv
  <2>2. n \in 0 .. Depth
    BY LenProperties DEF ExcInv, StackInv, Depth
  <2>3. QED
    BY <2>1, <2>2, Pushed, Zenon
<1>2. Len(stack) \in Nat /\ n \in Nat /\ n <= Depth /\ Depth' = n + 1
  BY <1>1, LenProperties DEF ExcInv, StackInv, Depth
<1>3. ASSUME NEW k, NEW i \in 0 .. n + 1
      PROVE  Below(k, i)' = Below(k, i)
  BY <1>1, <1>2, BelowStands
<1>4. StackInv'
  BY <1>1, <1>2 DEF ExcInv, StackInv
<1>5. Here' = a
  BY <1>1, <1>2 DEF Here
<1>6. Tops'
  <2>1. ASSUME NEW k
        PROVE  Innermost(Below(k, n + 2)') = IF a.kind = k THEN n + 1
                                                           ELSE Innermost(Below(k, n + 1))
    <3>1. CASE a.kind = k
      <4>1. n + 1 \in Below(k, n + 2)'
        BY <1>1, <1>2, <3>1 DEF Below
      <4>2. \A l \in Below(k, n + 2)' : l \in Int /\ l <= n + 1
        BY <1>2 DEF Below
      <4>3. QED
        BY <3>1, <4>1, <4>2, InnermostIs
    <3>2. CASE a.kind # k
      <4>1. Below(k, n + 2)' = Below(k, n + 1)'
        BY <1>1, <1>2, <3>2 DEF Below
      <4>2. QED
        BY <1>2, <1>3, <3>2, <4>1
    <3>3. QED
      BY <3>1, <3>2
  <2>2. /\ Innermost(Below("call", n + 2)') = top'
        /\ Innermost(Below("body", n + 2)') = handlerTop'
    BY <2>1
  <2>3. /\ Innermost(Below("call", n + 2))' = top'
        /\ Innermost(Below("body", n + 2))' = handlerTop'
    BY <2>2 DEF Innermost
  <2>4. QED
    BY <1>2, <2>3 DEF Tops
<1>7. Chains'
  <2>1. ASSUME NEW i \in 1 .. n + 1
        PROVE  /\ stack'[i].kind = "call" =>
                    stack'[i].prev = Innermost(Below("call", i))
               /\ stack'[i].kind = "body" =>
                    /\ stack'[i].prev = Innermost(Below("body", i))
                    /\ stack'[i].frames = Innermost(Below("call", i))
    <3>1. CASE i = n + 1
      BY <1>1, <3>1
    <3>2. CASE i \in 1 .. n
      <4>1. stack'[i] = stack[i] /\ i \in 1 .. Depth
        BY <1>1, <1>2, <3>2 DEF Depth
      <4>2. QED
        BY <4>1 DEF ExcInv, Chains
    <3>3. QED
      BY <1>2, <3>1, <3>2
  <2>2. ASSUME NEW i \in 1 .. n + 1
        PROVE  /\ Innermost(Below("call", i))' = Innermost(Below("call", i))
               /\ Innermost(Below("body", i))' = Innermost(Below("body", i))
    <3>1. i \in 0 .. n + 1
      BY <1>2
    <3>2. /\ Innermost(Below("call", i)') = Innermost(Below("call", i))
          /\ Innermost(Below("body", i)') = Innermost(Below("body", i))
      BY <1>3, <3>1
    <3>3. QED
      BY <3>2 DEF Innermost
  <2>3. QED
    BY <1>2, <2>1, <2>2 DEF Chains
<1>8. Linked'
  <2>1. ASSUME NEW h, NEW i \in 1 .. n + 1, IsHandler(h, i)
        PROVE  h \in 1 .. i - 1 /\ stack'[h].kind = "body"
    BY <1>1, <1>2, <2>1 DEF IsHandler
  <2>2. handlerTop' # 0 =>
          handlerTop' \in 1 .. n + 1 /\ stack'[handlerTop'].kind = "body"
    <3>1. CASE a.kind = "body"
      <4>1. handlerTop' = n + 1
        BY <3>1
      <4>2. n + 1 \in 1 .. n + 1
        BY <1>2
      <4>3. stack'[handlerTop'].kind = "body"
        BY <1>1, <3>1, <4>1
      <4>4. QED
        BY <4>1, <4>2, <4>3
    <3>2. CASE a.kind # "body" /\ body # 0
      <4>1. body \in 1 .. n + 1 - 1 /\ stack'[body].kind = "body"
        BY <1>2, <2>1, <3>2
      <4>2. QED
        BY <1>2, <3>2, <4>1
    <3>3. QED
      BY <3>1, <3>2
  <2>3. ASSUME NEW i \in 1 .. n + 1, stack'[i].kind = "body", stack'[i].prev # 0
        PROVE  stack'[i].prev \in 1 .. i - 1 /\ stack'[stack'[i].prev].kind = "body"
    <3>1. CASE i = n + 1
      <4>1. stack'[i].prev = body
        BY <1>1, <2>3, <3>1
      <4>2. QED
        BY <2>1, <2>3, <3>1, <4>1
    <3>2. CASE i \in 1 .. n
      <4>1. stack'[i] = stack[i] /\ i \in 1 .. Depth
        BY <1>1, <1>2, <3>2 DEF Depth
      <4>2. IsHandler(stack[i].prev, i)
        BY <2>3, <4>1 DEF ExcInv, Linked
      <4>3. stack[i].prev \in 1 .. i - 1 /\ stack'[stack[i].prev].kind = "body"
        BY <2>1, <2>3, <4>2
      <4>4. QED
        BY <4>1, <4>3
    <3>3. i \in 1 .. n \/ i = n + 1
      BY <1>2
    <3>4. QED
      BY <3>1, <3>2, <3>3
  <2>4. QED
    BY <1>2, <2>2, <2>3 DEF Linked, IsHandler
<1>9. QED
  BY <1>4, <1>6, <1>7, <1>8 DEF ExcInv

\* The top activation goes: the pointers were right without it, or are now.
LEMMA PopKeeps ==
  ASSUME ExcInv, Depth > 1, stack' = SubSeq(stack, 1, Depth - 1),
         top' = Innermost(Below("call", Depth)), top' \in Nat,
         handlerTop' = Innermost(Below("body", Depth)), handlerTop' \in Nat,
         handlerTop' # 0 => handlerTop' \in 1 .. Depth - 1
                            /\ stack[handlerTop'].kind = "body",
         UNCHANGED <<exn, address, ended>>
  PROVE  ExcInv'
<1>1. PICK n \in Nat : n = Depth - 1 /\ n \in 1 .. Depth /\ n \in 0 .. Depth /\ Depth = n + 1
  BY LenProperties DEF ExcInv, StackInv, Depth
<1>2. /\ stack' \in Seq(Activations) /\ Len(stack') = n
      /\ \A i \in 1 .. n : stack'[i] = stack[i]
  BY <1>1, Popped DEF ExcInv
<1>3. Depth' = n
  BY <1>2 DEF Depth
<1>4. ASSUME NEW k, NEW i \in 0 .. n + 1
      PROVE  Below(k, i)' = Below(k, i)
  BY <1>1, <1>2, BelowStands
<1>5. StackInv'
  <2>1. 1 \in 1 .. n /\ stack'[1] = stack[1]
    BY <1>1, <1>2
  <2>2. stack'[1].kind = "call"
    BY <2>1 DEF ExcInv, StackInv
  <2>3. exn' \in [obj : Values, at : Nat] /\ address' \in Nat
    BY DEF ExcInv, StackInv
  <2>4. QED
    BY <1>1, <1>2, <1>3, <2>2, <2>3 DEF StackInv
<1>6. Tops'
  <2>1. n + 1 \in 0 .. n + 1
    BY <1>1
  <2>2. /\ Innermost(Below("call", n + 1)') = top'
        /\ Innermost(Below("body", n + 1)') = handlerTop'
    BY <1>1, <1>4, <2>1
  <2>3. /\ Innermost(Below("call", n + 1))' = top'
        /\ Innermost(Below("body", n + 1))' = handlerTop'
    BY <2>2 DEF Innermost
  <2>4. QED
    BY <1>3, <2>3 DEF Tops
<1>7. Chains'
  <2>1. ASSUME NEW i \in 1 .. n
        PROVE  /\ stack'[i] = stack[i] /\ i \in 1 .. Depth
               /\ Innermost(Below("call", i))' = Innermost(Below("call", i))
               /\ Innermost(Below("body", i))' = Innermost(Below("body", i))
    <3>1. stack'[i] = stack[i] /\ i \in 1 .. Depth /\ i \in 0 .. n + 1
      BY <1>1, <1>2
    <3>2. /\ Innermost(Below("call", i)') = Innermost(Below("call", i))
          /\ Innermost(Below("body", i)') = Innermost(Below("body", i))
      BY <1>4, <3>1
    <3>3. /\ Innermost(Below("call", i))' = Innermost(Below("call", i))
          /\ Innermost(Below("body", i))' = Innermost(Below("body", i))
      BY <3>2 DEF Innermost
    <3>4. QED
      BY <3>1, <3>3
  <2>2. QED
    BY <1>3, <2>1 DEF ExcInv, Chains
<1>8. Linked'
  <2>1. ASSUME NEW i \in 1 .. n, stack'[i].kind = "body", stack'[i].prev # 0
        PROVE  stack'[i].prev \in 1 .. i - 1 /\ stack'[stack'[i].prev].kind = "body"
    <3>1. stack'[i] = stack[i] /\ i \in 1 .. Depth
      BY <1>1, <1>2
    <3>2. IsHandler(stack[i].prev, i)
      BY <2>1, <3>1 DEF ExcInv, Linked
    <3>3. QED
      BY <1>1, <1>2, <3>1, <3>2 DEF IsHandler
  <2>2. handlerTop' # 0 =>
          handlerTop' \in 1 .. n /\ stack'[handlerTop'].kind = "body"
    BY <1>1, <1>2
  <2>3. QED
    BY <1>1, <1>3, <2>1, <2>2 DEF Linked, IsHandler
<1>9. QED
  BY <1>5, <1>6, <1>7, <1>8 DEF ExcInv

-------------------------------------------------------------------------------
(* Actions *)

LEMMA StackFacts ==
  ASSUME ExcInv
  PROVE  /\ Depth \in Nat /\ Depth >= 1 /\ Here \in Activations
         /\ \A i \in 1 .. Depth : stack[i] \in Activations
         /\ Here.kind # "call" => Depth > 1
         /\ SubSeq(stack, 1, Depth) = stack
  BY LenProperties, ElementOfSeq, SubSeqFull DEF ExcInv, StackInv, Depth, Here

\* A call and a try push what the two pointers are the next of.
LEMMA EnterKeeps ==
  ASSUME ExcInv, Call \/ Try
  PROVE  ExcInv'
<1>1. PICK n \in Nat, call \in Nat, body \in Nat :
         n = Depth /\ call = top /\ body = handlerTop
  BY StackFacts DEF ExcInv, StackInv
<1>2. PICK a : a = IF Call THEN Activation("call", call, 0, Nothing, Nothing)
                           ELSE Activation("body", body, call, Nothing, Nothing)
  OBVIOUS
<1>3. a \in Activations
  BY <1>1, <1>2 DEF Activation, Activations, ActivationKinds, Values
<1>4. /\ n \in 1 .. Depth
      /\ call = Innermost(Below("call", n + 1)) /\ body = Innermost(Below("body", n + 1))
      /\ body # 0 => IsHandler(body, n + 1)
  BY <1>1, StackFacts DEF ExcInv, Tops, Linked
<1>5. CASE Call
  <2>1. a.kind = "call" /\ a.prev = call
    BY <1>2, <1>5 DEF Activation
  <2>2. /\ stack' = Append(SubSeq(stack, 1, n), a)
        /\ top' = n + 1 /\ handlerTop' = body /\ UNCHANGED <<exn, address, ended>>
    BY <1>1, <1>2, <1>5, StackFacts DEF Call
  <2>3. QED
    BY <1>3, <1>4, <2>1, <2>2, PushKeeps DEF ExcInv, StackInv
<1>6. CASE ~Call
  <2>1. a.kind = "body" /\ a.prev = body /\ a.frames = call
    BY <1>2, <1>6 DEF Activation
  <2>2. /\ stack' = Append(SubSeq(stack, 1, n), a)
        /\ top' = call /\ handlerTop' = n + 1 /\ UNCHANGED <<exn, address, ended>>
    BY <1>1, <1>2, <1>6, StackFacts DEF Try
  <2>3. QED
    BY <1>3, <1>4, <2>1, <2>2, PushKeeps DEF ExcInv, StackInv
<1>7. QED
  BY <1>5, <1>6

\* A return, and the end of a clause.
LEMMA LeaveKeeps ==
  ASSUME ExcInv, Leave \/ EndClause
  PROVE  ExcInv'
<1>1. /\ Depth > 1 /\ stack' = SubSeq(stack, 1, Depth - 1)
      /\ UNCHANGED <<handlerTop, exn, address, ended>>
      /\ Here.kind \in {"call", "handling"}
      /\ top' = IF Here.kind = "call" THEN Here.prev ELSE top
  BY StackFacts DEF Leave, EndClause
<1>2. /\ Here.kind = "call" => Here.prev = Innermost(Below("call", Depth))
      /\ Here.prev \in Nat
  BY StackFacts DEF ExcInv, Chains, Here, Activations
<1>3. top' = Innermost(Below("call", Depth)) /\ top' \in Nat
  BY <1>1, <1>2, TopIsInnermost DEF ExcInv, StackInv, Tops
<1>4. handlerTop' = Innermost(Below("body", Depth)) /\ handlerTop' \in Nat
  BY <1>1, TopIsInnermost DEF ExcInv, StackInv, Tops
<1>5. handlerTop' # 0 => handlerTop' \in 1 .. Depth - 1
                         /\ stack[handlerTop'].kind = "body"
  BY <1>1, StackFacts DEF ExcInv, Linked, IsHandler, Here
<1>6. QED
  BY <1>1, <1>3, <1>4, <1>5, PopKeeps

\* A body ends on its own handler, so never by an abort.
LEMMA EndBodyKeeps ==
  ASSUME ExcInv, EndBody
  PROVE  ExcInv'
<1>1. handlerTop = Depth /\ Here.kind = "body"
  BY TopIsInnermost DEF EndBody, ExcInv, Tops
<1>2. /\ Depth > 1 /\ stack' = SubSeq(stack, 1, Depth - 1)
      /\ handlerTop' = Here.prev /\ UNCHANGED <<top, exn, address, ended>>
  BY <1>1, StackFacts DEF EndBody
<1>3. top' = Innermost(Below("call", Depth)) /\ top' \in Nat
  BY <1>1, <1>2, TopIsInnermost DEF ExcInv, StackInv, Tops
<1>4. /\ handlerTop' = Innermost(Below("body", Depth)) /\ handlerTop' \in Nat
      /\ handlerTop' # 0 => handlerTop' \in 1 .. Depth - 1
                            /\ stack[handlerTop'].kind = "body"
  BY <1>1, <1>2, StackFacts
  DEF ExcInv, Chains, Linked, IsHandler, Here, Activations
<1>5. QED
  BY <1>2, <1>3, <1>4, PopKeeps

\* A raise cuts the stack at the innermost handler, whose prev and frame_top are
\* the innermost handler and frame below it.
LEMMA RaiseKeeps ==
  ASSUME ExcInv, NEW p \in [obj : Values, at : Nat], NEW meant \in Values,
         Running, RaiseTo(p, meant)
  PROVE  ExcInv'
<1>1. CASE handlerTop = 0
  <2>1. UNCHANGED <<stack, top, handlerTop, exn, address>> /\ ended' = "exit"
    BY <1>1 DEF RaiseTo
  <2>2. StackInv'
    BY <2>1 DEF ExcInv, StackInv, Depth
  <2>3. Linked'
    BY <2>1 DEF ExcInv, Linked, IsHandler, Depth
  <2>4. Chains' /\ Tops'
    BY <2>1 DEF ExcInv, Chains, Tops, Below, Depth
  <2>5. QED
    BY <2>1, <2>2, <2>3, <2>4 DEF ExcInv
<1>2. CASE handlerTop # 0
  <2>1. PICK h \in 1 .. Depth : h = handlerTop /\ stack[h].kind = "body"
    BY <1>2, StackFacts DEF ExcInv, Linked, IsHandler
  <2>2. PICK n \in 1 .. Depth, call \in Nat, body \in Nat :
          n = h - 1 /\ call = stack[h].frames /\ body = stack[h].prev
    <3>1. h # 1 /\ Depth \in Nat
      BY <2>1, StackFacts DEF ExcInv, StackInv
    <3>2. h - 1 \in 1 .. Depth
      BY <3>1
    <3>3. stack[h].frames \in Nat /\ stack[h].prev \in Nat
      BY StackFacts DEF Activations
    <3>4. QED
      BY <3>2, <3>3
  <2>3. PICK a : a = Activation("guards", 0, 0, At(p), meant)
    OBVIOUS
  <2>4. a \in Activations /\ a.kind = "guards"
    BY <2>3 DEF Activation, Activations, ActivationKinds, Values, At
  <2>5. n + 1 = h
    BY <2>2, StackFacts
  <2>6. /\ call = Innermost(Below("call", n + 1)) /\ body = Innermost(Below("body", n + 1))
        /\ body # 0 => IsHandler(body, n + 1)
    BY <2>1, <2>2, <2>5 DEF ExcInv, Chains, Linked
  <2>7. /\ exn' = p /\ address' = address /\ ended' = ended
        /\ handlerTop' = body /\ top' = call
        /\ stack' = Append(SubSeq(stack, 1, n), a)
    BY <1>2, <2>1, <2>2, <2>3 DEF RaiseTo, Land
  <2>8. QED
    BY <2>4, <2>6, <2>7, PushKeeps DEF ExcInv, StackInv
<1>3. QED
  BY <1>1, <1>2

\* Choosing a clause and moving objects touch no pointer into the stack.
LEMMA MatchKeeps ==
  ASSUME ExcInv, Match
  PROVE  ExcInv'
<1>1. PICK n \in 1 .. Depth : n = Depth
  BY StackFacts
<1>2. PICK a : a = [stack[n] EXCEPT !.kind = "handling"]
  OBVIOUS
<1>3. /\ stack' = [stack EXCEPT ![n] = a] /\ stack[n].kind = "guards"
      /\ UNCHANGED <<top, handlerTop, exn, address, ended>>
  BY <1>1, <1>2 DEF Match, Here
<1>4. a \in Activations /\ a.kind = "handling"
  BY <1>1, <1>2, StackFacts DEF Activations, ActivationKinds
<1>5. /\ stack' \in Seq(Activations) /\ Len(stack') = Len(stack)
      /\ \A i \in 1 .. Depth : stack'[i] = IF i = n THEN a ELSE stack[i]
  BY <1>1, <1>3, <1>4, ExceptSeq DEF ExcInv, StackInv, Depth
<1>6. Depth' = Depth /\ StackInv'
  BY <1>1, <1>3, <1>4, <1>5, StackFacts DEF ExcInv, StackInv, Depth
<1>7. ASSUME NEW k \in {"call", "body"}, NEW i \in 0 .. Depth + 1
      PROVE  Below(k, i)' = Below(k, i)
  BY <1>3, <1>4, <1>5, StackFacts DEF Below
<1>8. ASSUME NEW k \in {"call", "body"}, NEW i \in 0 .. Depth + 1
      PROVE  Innermost(Below(k, i))' = Innermost(Below(k, i))
  <2>1. Innermost(Below(k, i)') = Innermost(Below(k, i))
    BY <1>7
  <2>2. QED
    BY <2>1 DEF Innermost
<1>9. Tops'
  BY <1>3, <1>6, <1>8, StackFacts DEF ExcInv, Tops
<1>10. Chains'
  BY <1>3, <1>4, <1>5, <1>6, <1>8, StackFacts DEF ExcInv, Chains
<1>11. Linked'
  BY <1>3, <1>4, <1>5, <1>6, StackFacts DEF ExcInv, Linked, IsHandler
<1>12. QED
  BY <1>3, <1>6, <1>9, <1>10, <1>11 DEF ExcInv

LEMMA CollectKeeps ==
  ASSUME ExcInv, Collect \/ UNCHANGED excVars
  PROVE  ExcInv'
<1>1. UNCHANGED <<stack, top, handlerTop, exn, ended>> /\ address' \in Nat
  BY DEF Collect, excVars, ExcInv, StackInv
<1>2. StackInv'
  BY <1>1 DEF ExcInv, StackInv, Depth
<1>3. Linked'
  BY <1>1 DEF ExcInv, Linked, IsHandler, Depth
<1>4. Chains' /\ Tops'
  BY <1>1 DEF ExcInv, Chains, Tops, Below, Depth
<1>5. QED
  BY <1>1, <1>2, <1>3, <1>4 DEF ExcInv

-------------------------------------------------------------------------------
(* The theorem *)

LEMMA ExcStarts ==
  ASSUME ExcInit
  PROVE  ExcInv
<1>1. /\ stack = <<Activation("call", 0, 0, Nothing, Nothing)>>
      /\ top = 1 /\ handlerTop = 0 /\ address = 1 /\ ended = "no"
      /\ exn = [obj |-> Nothing, at |-> NoAddress]
  BY DEF ExcInit
<1>2. /\ Depth = 1 /\ stack[1] = Activation("call", 0, 0, Nothing, Nothing)
      /\ stack[1] \in Activations
  BY <1>1 DEF Depth, Activation, Activations, ActivationKinds, Values
<1>3. stack[1].kind = "call" /\ stack[1].prev = 0
  BY <1>2 DEF Activation
<1>4. StackInv
  BY <1>1, <1>2, <1>3 DEF StackInv, Depth, Values, NoAddress
<1>5. /\ Below("call", 1) = {} /\ Below("body", 2) = {} /\ Below("call", 2) = {1}
  BY <1>3 DEF Below
<1>6. /\ Innermost(Below("call", 1)) = 0 /\ Innermost(Below("body", 2)) = 0
      /\ Innermost(Below("call", 2)) = 1
  <2>1. Innermost({}) = 0
    BY DEF Innermost
  <2>2. Innermost({1}) = 1
    BY InnermostIs
  <2>3. QED
    BY <1>5, <2>1, <2>2
<1>7. Linked /\ Chains /\ Tops
  BY <1>1, <1>2, <1>3, <1>6 DEF Linked, Chains, Tops
<1>8. QED
  BY <1>1, <1>4, <1>7 DEF ExcInv

LEMMA ExcInvInductive ==
  ASSUME ExcInv, [ExcNext]_excVars
  PROVE  ExcInv'
<1>1. ASSUME NEW x \in Payloads, Raise(x)
      PROVE  ExcInv'
  <2>1. [obj |-> x, at |-> address] \in [obj : Values, at : Nat] /\ x \in Values
    BY DEF ExcInv, StackInv, Values
  <2>2. QED
    BY <1>1, <2>1, RaiseKeeps DEF Raise
<1>2. ASSUME NoMatch
      PROVE  ExcInv'
  <2>1. exn \in [obj : Values, at : Nat] /\ Here.ex \in Values
    BY StackFacts DEF ExcInv, StackInv, Activations
  <2>2. QED
    BY <1>2, <2>1, RaiseKeeps DEF NoMatch
<1>3. QED
  BY <1>1, <1>2, EnterKeeps, LeaveKeeps, EndBodyKeeps, MatchKeeps, CollectKeeps
  DEF ExcNext

\* However deep a raise comes from and whatever it leaves on its way: the shadow
\* stack and the handler chain hold just what is still active.
THEOREM RaisesUnwind == ExcSpec => []UnwoundToLive
<1>1. ExcInit => ExcInv
  BY ExcStarts
<1>2. ExcInv /\ [ExcNext]_excVars => ExcInv'
  BY ExcInvInductive
<1>3. ExcInv => UnwoundToLive
  <2> SUFFICES ASSUME ExcInv PROVE UnwoundToLive
    OBVIOUS
  <2>1. DOMAIN stack = 1 .. Depth
    BY LenProperties DEF ExcInv, StackInv, Depth
  <2>2. QED
    BY <2>1 DEF ExcInv, Tops, Chains, UnwoundToLive
<1>4. QED
  BY <1>1, <1>2, <1>3, PTL DEF ExcSpec
===============================================================================
