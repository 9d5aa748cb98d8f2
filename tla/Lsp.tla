---------------------------------- MODULE Lsp ----------------------------------
(***************************************************************************)
(* The language server and its workspace: Fpp.Lsp/Server.fs, the messages  *)
(* about documents, and Fpp.Compiler/Workspace.fs, the list of files in    *)
(* compile order and their texts.  An editor opens files; the server finds *)
(* the project a file belongs to and loads it the first time.              *)
(*                                                                         *)
(* A message is handled from beginning to end before the next is read, so  *)
(* it is one action.  A text is what is left of a version after the #if    *)
(* regions were blanked, which symbols of the manifests decide: left out.  *)
(* Manifests are there from the beginning and are not edited.  Closing a   *)
(* document does nothing to the server, and a completion in an open one    *)
(* nothing more: its project was loaded when it was opened.                *)
(***************************************************************************)
EXTENDS Integers, Sequences, SequencesExt

CONSTANTS
  Files,
  Projects, None,
  ProjectOf,           \* the nearest manifest at or above each file, or None
  SourcesOf,           \* each manifest's sources, in compile order
  Contents             \* what a file may contain

ASSUME ManifestsAssumption ==
  /\ ProjectOf \in [Files -> Projects \cup {None}]
  /\ \A p \in Projects : SourcesOf[p] \in Seq(Files) /\ IsInjective(SourcesOf[p])

VARIABLES
  ws,          \* the Workspace: [files, text]
  loaded,      \* Server.loadedProjects
  disk,        \* what each file contains on disk
  buffer,      \* what the editor has of it, or None: it is not open
  shown        \* history: the last diagnostics, [file, files]: for which file,
               \* and the compile order it was checked in

lspVars == <<ws, loaded, disk, buffer, shown>>

LspInit ==
  /\ ws = [files |-> <<>>, text |-> [f \in Files |-> None]]
  /\ loaded = {}
  /\ disk \in [Files -> Contents]
  /\ buffer = [f \in Files |-> None]
  /\ shown = [file |-> None, files |-> <<>>]

-------------------------------------------------------------------------------
(* Workspace.fs *)

\* an unknown file joins the project at the end
SetFileText(w, f, c) ==
  [files |-> IF f \in ToSet(w.files) THEN w.files ELSE Append(w.files, f),
   text |-> [w.text EXCEPT ![f] = c]]

\* mutant: every source is read from disk
LoadProjectRereads(w, p) ==
  [files |-> SourcesOf[p],
   text |-> [f \in Files |-> IF f \in ToSet(SourcesOf[p]) THEN disk[f] ELSE w.text[f]]]

\* The project's sources become the list; those that were not in it are read.
LoadProject(w, p) ==
  LET new == ToSet(SourcesOf[p]) \ ToSet(w.files) IN
  [files |-> SourcesOf[p],
   text |-> [f \in Files |-> IF f \in new THEN disk[f] ELSE w.text[f]]]

-------------------------------------------------------------------------------
(* Server.fs *)

\* the workspace after EnsureProject; a project is loaded once
EnsureProject(f) ==
  IF ProjectOf[f] \in Projects \ loaded THEN LoadProject(ws, ProjectOf[f]) ELSE ws

PublishDiagnostics(f) == shown' = [file |-> f, files |-> ws'.files]

\* the editor opens f as it is on disk
DidOpen(f) ==
  /\ buffer[f] = None
  /\ buffer' = [buffer EXCEPT ![f] = disk[f]]
  /\ ws' = SetFileText(EnsureProject(f), f, disk[f])
  /\ loaded' = loaded \cup ({ProjectOf[f]} \cap Projects)
  /\ PublishDiagnostics(f)
  /\ disk' = disk

DidChange(f, c) ==
  /\ buffer[f] \notin {None, c}
  /\ buffer' = [buffer EXCEPT ![f] = c]
  /\ ws' = SetFileText(ws, f, c)
  /\ PublishDiagnostics(f)
  /\ UNCHANGED <<loaded, disk>>

\* a save is not a message of its own, nor does a close change anything here
Save(f) ==
  /\ buffer[f] # None
  /\ disk' = [disk EXCEPT ![f] = buffer[f]]
  /\ UNCHANGED <<ws, loaded, buffer, shown>>

DidClose(f) ==
  /\ buffer[f] # None
  /\ buffer' = [buffer EXCEPT ![f] = None]
  /\ UNCHANGED <<ws, loaded, disk, shown>>

LspNext == \E f \in Files :
  \/ DidOpen(f) \/ Save(f) \/ DidClose(f)
  \/ \E c \in Contents : DidChange(f, c)

LspSpec == LspInit /\ [][LspNext]_lspVars

-------------------------------------------------------------------------------
(* Properties *)

\* "An unsaved buffer is the truth, not the file on disk" (Workspace.fs:329):
\* what the workspace has of an open file is what the editor has, whichever
\* projects were loaded since.
BufferIsTruth ==
  \A f \in Files : buffer[f] # None => ws.text[f] = buffer[f]

\* A file is checked in its project's compile order (Server.fs:68-71): after
\* all the sources before it, whatever the order of the clicks.
CheckedInOrder ==
  shown.file # None =>
    LET p == ProjectOf[shown.file] IN
    p # None /\ shown.file \in ToSet(SourcesOf[p]) =>
      SelectSeq(shown.files, LAMBDA f : f \in ToSet(SourcesOf[p])) = SourcesOf[p]
===============================================================================
