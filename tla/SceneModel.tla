------------------------------ MODULE SceneModel ------------------------------
(***************************************************************************)
(* es-editor-scene/src/model.rs: a project's scene document and task       *)
(* specification under edit.  The session holds the documents, the saved   *)
(* ones and the undo and redo stacks; the project's directory holds        *)
(* scene.esscene, task.estask, .preview.esscene and generated/.            *)
(*                                                                         *)
(* A document is a model value.  Whether a scene expands depends on files  *)
(* it names, which may change at any time; whether a specification         *)
(* compiles depends on the scene file it is compiled against.  A revision  *)
(* only grows, so of `preview` one bit is left: is it this revision?       *)
(* The selection, and what is drawn, are not kept.                         *)
(***************************************************************************)
EXTENDS SequencesExt

CONSTANTS
  None, Torn,          \* no file; a generated/ that no save made
  Scenes, Specs,
  Fitting,             \* the <<specification, scene>> pairs that compile
  MaxUndo              \* bound on the undo stack

ASSUME SceneAssumption ==
    /\ Fitting \subseteq Specs \X Scenes
    /\ MaxUndo \in Nat

Docs == [scene : Scenes, spec : Specs \cup {None}]

VARIABLES
  open,                \* is there a session?
  docs, saved, undo, redo,
  current,             \* was the preview written for this revision?
  generated,           \* what the last regeneration or look at generated/ said
  disk,                \* the files; generated/ by the documents it was made from
  expanding,           \* the scenes whose named files are there and in order
  half                 \* history: did the last save fail between its two files?

session == <<docs, saved, undo, redo, current, generated, half>>
vars == <<open, session, disk, expanding>>

\* generate reads the specification it is given and the scene file.
Compiles(spec, scene) == scene \in expanding /\ <<spec, scene>> \in Fitting
Made(spec, files) == [scene |-> files.scene, spec |-> spec]

Init ==
    /\ open = FALSE
    /\ docs \in Docs /\ saved = docs /\ undo = << >> /\ redo = << >>
    /\ current = FALSE /\ generated = "NotYet" /\ half = FALSE
    /\ disk = [scene |-> docs.scene, spec |-> docs.spec, preview |-> None, generated |-> None]
    /\ expanding = Scenes

-----------------------------------------------------------------------------
WrongOnDisk ==
    IF disk.spec = None THEN "NoSpec"
    ELSE IF ~Compiles(disk.spec, disk.scene) THEN "Failed"
    ELSE IF disk.generated # None THEN "Written" ELSE "Stale"

\* on_disk: what generated/ holds against what the files generate.
OnDisk ==
    IF disk.spec = None THEN "NoSpec"
    ELSE IF ~Compiles(disk.spec, disk.scene) THEN "Failed"
    ELSE IF disk.generated = Made(disk.spec, disk) THEN "Written" ELSE "Stale"

\* Author::open opens the model and refreshes it.
Open ==
    /\ ~open /\ disk.scene \in expanding
    /\ open' = TRUE
    /\ docs' = [scene |-> disk.scene, spec |-> disk.spec] /\ saved' = docs'
    /\ undo' = << >> /\ redo' = << >>
    /\ current' = FALSE /\ generated' = OnDisk /\ half' = FALSE
    /\ UNCHANGED <<disk, expanding>>

\* The editor is closed, or dies, and its stacks are gone.
Leave ==
    /\ open /\ open' = FALSE
    /\ undo' = << >> /\ redo' = << >>
    /\ UNCHANGED <<docs, saved, current, generated, half, expanding>>

Close == Leave /\ UNCHANGED disk

\* Between two sessions the files are anybody's.
EditedByHand ==
    /\ ~open
    /\ \E files \in [scene : Scenes, spec : Specs \cup {None}, preview : {disk.preview},
                     generated : {None, Torn, disk.generated}] : disk' = files
    /\ UNCHANGED <<open, session, expanding>>

\* The meshes and includes a scene names come and go.
FilesChange ==
    /\ expanding' \in SUBSET Scenes
    /\ UNCHANGED <<open, session, disk>>

-----------------------------------------------------------------------------
(***************************************************************************)
(* Commands, undo and redo.                                                *)
(***************************************************************************)
Preview == [file |-> disk.preview, current |-> current]

WrongCompiled(scene, preview) ==
    IF scene = saved.scene THEN preview ELSE [preview EXCEPT !.file = scene]

\* compiles: the preview once `scene` has been compiled against.  The saved scene
\* is read from its own file.
Compiled(scene, preview) ==
    IF scene = saved.scene THEN preview
    ELSE [file |-> scene, current |-> scene = docs.scene]

\* What compile_task reads for `scene`.
FileOf(scene) == IF scene = saved.scene THEN disk.scene ELSE scene

\* `apply` of a command that leaves the documents `next`: refused if they do not
\* expand, or if they do not compile though those before did.
Apply(next) ==
    LET saysTask == next.scene = docs.scene
        fits == next.spec = None \/ Compiles(next.spec, FileOf(next.scene))
        wasFine == docs.spec # None /\ Compiles(docs.spec, FileOf(docs.scene))
        tried == IF next.spec = None THEN Preview ELSE Compiled(next.scene, Preview)
        retried == IF fits \/ docs.spec = None THEN tried ELSE Compiled(docs.scene, tried)
        refused == ~fits /\ (saysTask \/ wasFine)
    IN  /\ next # docs /\ (saysTask \/ next.scene \in expanding)
        /\ disk' = [disk EXCEPT !.preview = retried.file]
        /\ IF refused
             THEN /\ current' = retried.current
                  /\ UNCHANGED <<docs, undo, redo>>
             ELSE /\ Len(undo) < MaxUndo
                  /\ docs' = next
                  /\ undo' = Append(undo, [before |-> docs, after |-> next]) /\ redo' = << >>
                  /\ current' = FALSE
    /\ UNCHANGED <<open, saved, generated, half, expanding>>

\* A sentence says another task, or none; any other command edits the scene, and a
\* rename the specification with it.
Command ==
    /\ open
    /\ \/ \E spec \in Specs \cup {None} : Apply([docs EXCEPT !.spec = spec])
       \/ \E scene \in Scenes \ {docs.scene} :
            \E spec \in IF docs.spec = None THEN {None} ELSE Specs :
              Apply([scene |-> scene, spec |-> spec])

\* Whether the documents still expand or not, the revision moves on.
Reexpand == current' = FALSE

Undo ==
    /\ open /\ undo # << >>
    /\ docs' = Last(undo).before
    /\ undo' = Front(undo) /\ redo' = Append(redo, Last(undo))
    /\ Reexpand
    /\ UNCHANGED <<open, saved, generated, disk, half, expanding>>

Redo ==
    /\ open /\ redo # << >>
    /\ docs' = Last(redo).after
    /\ redo' = Front(redo) /\ undo' = Append(undo, Last(redo))
    /\ Reexpand
    /\ UNCHANGED <<open, saved, generated, disk, half, expanding>>

\* toggle_hidden draws anew and changes no document.
ToggleHidden ==
    /\ open /\ current' = FALSE
    /\ UNCHANGED <<open, docs, saved, undo, redo, generated, half, disk, expanding>>

\* scene_file, for whoever reads the scene from a file: the physics preview, the
\* camera check, the policy's cameras.
SceneFile ==
    /\ open /\ docs # saved /\ ~current
    /\ disk' = [disk EXCEPT !.preview = docs.scene] /\ current' = TRUE
    /\ UNCHANGED <<open, docs, saved, undo, redo, generated, half, expanding>>

-----------------------------------------------------------------------------
(***************************************************************************)
(* Saving.                                                                 *)
(***************************************************************************)
SavedScene == [disk EXCEPT !.scene = docs.scene]

\* A session without a specification leaves the specification's file alone.
SavedBoth ==
    [SavedScene EXCEPT !.spec = IF docs.spec = None THEN @ ELSE docs.spec, !.preview = None]

\* regenerate: generated/ is emptied, filled, and emptied again if that fails.
Regenerate(files) ==
    \/ /\ docs.spec = None
       /\ generated' = "NoSpec" /\ disk' = [files EXCEPT !.generated = None]
    \/ /\ docs.spec # None /\ Compiles(docs.spec, files.scene)
       /\ generated' = "Written" /\ disk' = [files EXCEPT !.generated = Made(docs.spec, files)]
    \/ /\ docs.spec # None   \* it does not compile, or a write fails
       /\ generated' = "Failed" /\ disk' = [files EXCEPT !.generated = None]

Save ==
    /\ open
    /\ saved' = docs /\ current' = FALSE /\ half' = FALSE
    /\ Regenerate(SavedBoth)
    /\ UNCHANGED <<open, docs, undo, redo, expanding>>

\* The second write fails after the first: `saved` keeps the documents before.
SaveFails ==
    /\ open /\ docs.spec # None
    /\ disk' = SavedScene /\ half' = TRUE
    /\ UNCHANGED <<open, docs, saved, undo, redo, current, generated, expanding>>

\* The editor is killed after the first write, the second, the removal of the preview,
\* or while it empties or fills generated/.
DiesSaving ==
    /\ Leave
    /\ disk' \in {SavedScene, [SavedBoth EXCEPT !.preview = disk.preview], SavedBoth}
                 \cup {[SavedBoth EXCEPT !.generated = left] : left \in {None, Torn}}

Next ==
    \/ Open \/ Close \/ EditedByHand \/ FilesChange
    \/ Command \/ Undo \/ Redo \/ ToggleHidden \/ SceneFile
    \/ Save \/ SaveFails \/ DiesSaving

Spec == Init /\ [][Next]_vars

-----------------------------------------------------------------------------
(***************************************************************************)
(* Properties.                                                             *)
(***************************************************************************)
\* scene_file never hands out another scene than the one under edit, though commands
\* that were refused, undone or only compiled have written the preview meanwhile; a
\* save that failed half-way is the exception.
ReadsTheEdited ==
    open /\ ~half =>
      IF docs = saved THEN disk.scene = docs.scene
      ELSE current => disk.preview = docs.scene

\* generated/ is reported as written only when it holds what the saved documents
\* make, whatever earlier sessions died doing, whoever edited the files between and
\* though a save of this session failed half-way.
WrittenIsGenerated ==
    open /\ generated = "Written" =>
      disk.generated = [scene |-> saved.scene, spec |-> saved.spec]
=============================================================================
