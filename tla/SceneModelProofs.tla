--------------------------- MODULE SceneModelProofs ---------------------------
(***************************************************************************)
(* What the files of a project may be read as, for any scenes and tasks,   *)
(* any of them fitting any other, and any number of undo steps.            *)
(*                                                                         *)
(* Neither property of the scene model is inductive: that the preview may  *)
(* be read rests on the revision it was written for, and that both files   *)
(* may be on their agreeing with the saved documents.                      *)
(***************************************************************************)
EXTENDS SceneModel, TLAPS

\* The scene file holds the saved scene.
SavedSceneOnDisk == open /\ ~half => disk.scene = saved.scene

\* A preview of this revision that somebody may read holds this scene.
PreviewIsCurrent == open /\ current /\ docs # saved => disk.preview = docs.scene

\* What each file of the project may hold.
SpecFiles == Specs \cup {None}
Previews == Scenes \cup {None}
Directories == [scene : Scenes, spec : Specs] \cup {None, Torn}
Files == [scene : Scenes, spec : SpecFiles, preview : Previews, generated : Directories]
Changes == [before : Docs, after : Docs]

Shape ==
    /\ docs \in Docs /\ saved \in Docs /\ disk \in Files
    /\ undo \in Seq(Changes)
    /\ redo \in Seq(Changes)
    /\ current \in BOOLEAN

ReadInv == Shape /\ SavedSceneOnDisk /\ PreviewIsCurrent /\ WrittenIsGenerated

\* What undo and redo take off a stack.
LEMMA StepsPopped ==
    ASSUME NEW S, NEW s \in Seq(S), s # << >>
    PROVE  Last(s) \in S /\ Front(s) \in Seq(S)
BY DEF Last, Front

\* One file of the project replaced by another of its kind.
LEMMA FilesReplaced ==
    ASSUME NEW files \in Files
    PROVE  /\ \A scene \in Scenes : [files EXCEPT !.scene = scene] \in Files
           /\ \A spec \in SpecFiles : [files EXCEPT !.spec = spec] \in Files
           /\ \A preview \in Previews : [files EXCEPT !.preview = preview] \in Files
           /\ \A made \in Directories : [files EXCEPT !.generated = made] \in Files
BY DEF Files

\* Nothing is open to begin with.
LEMMA InitRead == Init => ReadInv
<1> SUFFICES ASSUME Init PROVE ReadInv
  OBVIOUS
<1>1. docs.scene \in Scenes /\ docs.spec \in SpecFiles
  BY DEF Init, Docs, SpecFiles
<1>2. None \in Previews /\ None \in Directories
  BY DEF Previews, Directories
<1>3. disk \in Files
  BY <1>1, <1>2 DEF Init, Files
<1>4. << >> \in Seq(Changes)
  OBVIOUS
<1>5. Shape
  BY <1>3, <1>4 DEF Init, Shape
<1>6. ~open
  BY DEF Init
<1> QED BY <1>5, <1>6 DEF ReadInv, SavedSceneOnDisk, PreviewIsCurrent, WrittenIsGenerated

\* What a trial compilation leaves behind: the preview of another scene is no
\* longer this revision's, and the saved scene needs no preview.
LEMMA CompiledKeeps ==
    ASSUME ReadInv, NEW scene \in Scenes, NEW preview,
           preview \in [file : Previews, current : BOOLEAN],
           preview.current /\ docs # saved => preview.file = docs.scene
    PROVE  LET after == Compiled(scene, preview)
           IN  /\ after \in [file : Previews, current : BOOLEAN]
               /\ after.current /\ docs # saved => after.file = docs.scene
BY DEF Compiled, Previews

\* A command, refused or not: the preview it was tried on, and tried again, is sound.
LEMMA ApplyRead ==
    ASSUME ReadInv, open, NEW next \in Docs, Apply(next)
    PROVE  ReadInv'
<1> DEFINE
      tried   == IF next.spec = None THEN Preview ELSE Compiled(next.scene, Preview)
      fits    == next.spec = None \/ Compiles(next.spec, FileOf(next.scene))
      retried == IF fits \/ docs.spec = None THEN tried ELSE Compiled(docs.scene, tried)
      Sound(preview) ==
        /\ preview \in [file : Previews, current : BOOLEAN]
        /\ preview.current /\ docs # saved => preview.file = docs.scene
<1>1. Sound(Preview)
  <2>1. disk.preview \in Previews /\ current \in BOOLEAN
    BY DEF ReadInv, Shape, Files
  <2> QED BY <2>1 DEF ReadInv, PreviewIsCurrent, Preview
<1>2. next.scene \in Scenes /\ docs.scene \in Scenes
  BY DEF ReadInv, Shape, Docs
<1>3. Sound(tried)
  BY <1>1, <1>2, CompiledKeeps
<1>4. Sound(retried)
  <2> HIDE DEF tried, fits
  <2> QED BY <1>2, <1>3, CompiledKeeps
<1>5. /\ disk' = [disk EXCEPT !.preview = retried.file]
      /\ \/ current' = retried.current /\ UNCHANGED <<docs, undo, redo>>
         \/ /\ docs' = next /\ current' = FALSE
            /\ undo' = Append(undo, [before |-> docs, after |-> next]) /\ redo' = << >>
      /\ UNCHANGED <<open, saved, generated, half, expanding>>
  BY DEF Apply
<1> HIDE DEF retried
<1>6. Shape'
  <2>1. disk' \in Files
    BY <1>4, <1>5, FilesReplaced DEF ReadInv, Shape, Files
  <2>2. [before |-> docs, after |-> next] \in Changes
    BY DEF Changes, ReadInv, Shape
  <2>3. Append(undo, [before |-> docs, after |-> next]) \in Seq(Changes) /\ << >> \in Seq(Changes)
    BY <2>2 DEF ReadInv, Shape
  <2> QED BY <1>4, <1>5, <2>1, <2>3 DEF ReadInv, Shape
<1>7. disk'.preview = retried.file /\ disk'.scene = disk.scene /\ disk'.generated = disk.generated
  BY <1>5 DEF ReadInv, Shape, Files
<1>8. SavedSceneOnDisk' /\ PreviewIsCurrent' /\ WrittenIsGenerated'
  BY <1>4, <1>5, <1>7 DEF ReadInv, SavedSceneOnDisk, PreviewIsCurrent, WrittenIsGenerated
<1> QED BY <1>6, <1>8 DEF ReadInv

\* A sentence or an edit.
LEMMA CommandRead == ReadInv /\ Command => ReadInv'
<1> SUFFICES ASSUME ReadInv, Command PROVE ReadInv'
  OBVIOUS
<1>1. open /\ \E next \in Docs : Apply(next)
  BY DEF Command, ReadInv, Shape, Docs
<1> QED BY <1>1, ApplyRead

\* Undo and redo move on to another revision, whatever is still there to expand.
LEMMA UndoRedoRead == ReadInv /\ (Undo \/ Redo) => ReadInv'
<1> SUFFICES ASSUME ReadInv, Undo \/ Redo PROVE ReadInv'
  OBVIOUS
<1>1. Shape'
  <2>1. CASE Undo
    <3>1. Last(undo) \in Changes /\ Front(undo) \in Seq(Changes)
      BY <2>1, StepsPopped DEF Undo, ReadInv, Shape
    <3>2. Last(undo).before \in Docs
      BY <3>1 DEF Changes
    <3>3. Append(redo, Last(undo)) \in Seq(Changes)
      BY <3>1 DEF ReadInv, Shape
    <3> QED BY <2>1, <3>1, <3>2, <3>3 DEF Undo, Reexpand, ReadInv, Shape
  <2>2. CASE Redo
    <3>1. Last(redo) \in Changes /\ Front(redo) \in Seq(Changes)
      BY <2>2, StepsPopped DEF Redo, ReadInv, Shape
    <3>2. Last(redo).after \in Docs
      BY <3>1 DEF Changes
    <3>3. Append(undo, Last(redo)) \in Seq(Changes)
      BY <3>1 DEF ReadInv, Shape
    <3> QED BY <2>2, <3>1, <3>2, <3>3 DEF Redo, Reexpand, ReadInv, Shape
  <2> QED BY <2>1, <2>2
<1>2. SavedSceneOnDisk' /\ PreviewIsCurrent' /\ WrittenIsGenerated'
  BY DEF Undo, Redo, Reexpand, ReadInv, SavedSceneOnDisk, PreviewIsCurrent, WrittenIsGenerated
<1> QED BY <1>1, <1>2 DEF ReadInv

\* A save that ends, fails between its two files or is cut off by the editor's death.
LEMMA SaveRead == ReadInv /\ (Save \/ SaveFails \/ DiesSaving) => ReadInv'
<1> SUFFICES ASSUME ReadInv, Save \/ SaveFails \/ DiesSaving PROVE ReadInv'
  OBVIOUS
<1>1. docs.scene \in Scenes /\ docs.spec \in SpecFiles /\ disk \in Files
  BY DEF ReadInv, Shape, Docs, SpecFiles
<1>2. SavedScene \in Files /\ SavedScene.scene = docs.scene
      /\ SavedScene.preview = disk.preview /\ SavedScene.generated = disk.generated
  BY <1>1, FilesReplaced DEF SavedScene, Files
<1>3. SavedBoth \in Files /\ SavedBoth.scene = docs.scene
  <2> DEFINE spec == IF docs.spec = None THEN SavedScene.spec ELSE docs.spec
             withSpec == [SavedScene EXCEPT !.spec = spec]
  <2>1. spec \in SpecFiles
    BY <1>1, <1>2 DEF Files
  <2>2. withSpec \in Files
    <3> HIDE DEF spec
    <3> QED BY <1>2, <2>1, FilesReplaced
  <2>3. SavedBoth = [withSpec EXCEPT !.preview = None]
    BY <1>2 DEF SavedBoth, Files
  <2>4. None \in Previews
    BY DEF Previews
  <2> HIDE DEF withSpec
  <2>5. SavedBoth \in Files
    BY <2>2, <2>3, <2>4, FilesReplaced
  <2> QED BY <1>2, <2>5 DEF SavedBoth, Files
<1>4. \A made \in Directories :
        [SavedBoth EXCEPT !.generated = made] \in Files
  BY <1>3, FilesReplaced
<1>5. CASE Save
  <2>1. docs.spec # None => Made(docs.spec, SavedBoth) \in [scene : Scenes, spec : Specs]
    BY <1>1, <1>3 DEF Made, SpecFiles
  <2>2. disk' \in Files /\ disk'.scene = docs.scene
    BY <1>3, <1>4, <1>5, <2>1 DEF Save, Regenerate, Files, Directories
  <2>3. generated' = "Written" => disk'.generated = [scene |-> docs.scene, spec |-> docs.spec]
    BY <1>3, <1>5 DEF Save, Regenerate, Made, Files
  <2> QED BY <1>5, <2>2, <2>3
      DEF Save, ReadInv, Shape, SavedSceneOnDisk, PreviewIsCurrent, WrittenIsGenerated
<1>6. CASE SaveFails
  BY <1>2, <1>6 DEF SaveFails, ReadInv, Shape, SavedSceneOnDisk, PreviewIsCurrent,
                    WrittenIsGenerated
<1>7. CASE DiesSaving
  <2>1. disk' \in Files
    <3>1. disk.preview \in Previews
      BY <1>1 DEF Files
    <3>2. [SavedBoth EXCEPT !.preview = disk.preview] \in Files
      BY <1>3, <3>1, FilesReplaced
    <3>3. \A left \in {None, Torn} : [SavedBoth EXCEPT !.generated = left] \in Files
      BY <1>4 DEF Directories
    <3> QED BY <1>2, <1>3, <1>7, <3>2, <3>3 DEF DiesSaving
  <2>2. << >> \in Seq(Changes)
    OBVIOUS
  <2> QED BY <1>7, <2>1, <2>2 DEF DiesSaving, Leave, ReadInv, Shape, SavedSceneOnDisk,
                                  PreviewIsCurrent, WrittenIsGenerated
<1> QED BY <1>5, <1>6, <1>7

\* Sessions begin and end, and files are edited between them.
LEMMA SessionRead == ReadInv /\ (Open \/ Close \/ EditedByHand) => ReadInv'
<1> SUFFICES ASSUME ReadInv, Open \/ Close \/ EditedByHand PROVE ReadInv'
  OBVIOUS
<1>1. CASE Open
  <2>1. generated' = "Written" => disk.generated = [scene |-> disk.scene, spec |-> disk.spec]
    BY <1>1 DEF Open, OnDisk, Made
  <2>2. [scene |-> disk.scene, spec |-> disk.spec] \in Docs
    BY DEF ReadInv, Shape, Files, Docs, SpecFiles
  <2>3. << >> \in Seq(Changes)
    OBVIOUS
  <2>4. Shape'
    BY <1>1, <2>2, <2>3 DEF Open, ReadInv, Shape
  <2> QED BY <1>1, <2>1, <2>4 DEF Open, ReadInv, SavedSceneOnDisk, PreviewIsCurrent,
                                  WrittenIsGenerated
<1>2. CASE Close
  BY <1>2 DEF Close, Leave, ReadInv, Shape, SavedSceneOnDisk, PreviewIsCurrent,
              WrittenIsGenerated
<1>3. CASE EditedByHand
  <2>1. {None, Torn, disk.generated} \subseteq Directories /\ disk.preview \in Previews
    BY DEF ReadInv, Shape, Files, Directories
  <2>2. disk' \in Files
    BY <1>3, <2>1 DEF EditedByHand, Files, SpecFiles
  <2>3. Shape'
    BY <1>3, <2>2 DEF EditedByHand, session, ReadInv, Shape
  <2> QED BY <1>3, <2>3 DEF EditedByHand, ReadInv, SavedSceneOnDisk, PreviewIsCurrent,
                            WrittenIsGenerated
<1> QED BY <1>1, <1>2, <1>3

\* ReadInv is inductive.
LEMMA NextRead == ReadInv /\ [Next]_vars => ReadInv'
<1> SUFFICES ASSUME ReadInv, [Next]_vars PROVE ReadInv'
  OBVIOUS
<1>1. CASE FilesChange
  BY <1>1 DEF FilesChange, session, ReadInv, Shape, SavedSceneOnDisk, PreviewIsCurrent,
              WrittenIsGenerated
<1>2. CASE ToggleHidden
  BY <1>2 DEF ToggleHidden, ReadInv, Shape, SavedSceneOnDisk, PreviewIsCurrent,
              WrittenIsGenerated
<1>3. CASE SceneFile
  <2>1. docs.scene \in Previews
    BY DEF ReadInv, Shape, Docs, Previews
  <2>2. disk' \in Files
    BY <1>3, <2>1, FilesReplaced DEF SceneFile, ReadInv, Shape
  <2>3. disk'.preview = docs.scene /\ disk'.scene = disk.scene /\ disk'.generated = disk.generated
    BY <1>3 DEF SceneFile, ReadInv, Shape, Files
  <2>4. Shape'
    BY <1>3, <2>2 DEF SceneFile, ReadInv, Shape
  <2> QED BY <1>3, <2>3, <2>4 DEF SceneFile, ReadInv, SavedSceneOnDisk, PreviewIsCurrent,
                                  WrittenIsGenerated
<1>4. CASE UNCHANGED vars
  BY <1>4 DEF vars, session, ReadInv, Shape, SavedSceneOnDisk, PreviewIsCurrent,
              WrittenIsGenerated
<1> QED BY <1>1, <1>2, <1>3, <1>4, SessionRead, CommandRead, UndoRedoRead, SaveRead DEF Next

\* Whoever asks for a file of the scene under edit is handed that scene: after any
\* sequence of commands, refused ones included, undos, redos, saves, writes that
\* failed and files that changed.
THEOREM AlwaysReadsTheEdited == Spec => []ReadsTheEdited
<1>1. ReadInv => ReadsTheEdited
  BY DEF ReadInv, SavedSceneOnDisk, PreviewIsCurrent, ReadsTheEdited
<1> QED BY <1>1, InitRead, NextRead, PTL DEF Spec

\* generated/ passes for written only when the saved documents made it.
THEOREM AlwaysWrittenIsGenerated == Spec => []WrittenIsGenerated
<1>1. ReadInv => WrittenIsGenerated
  BY DEF ReadInv
<1> QED BY <1>1, InitRead, NextRead, PTL DEF Spec
=============================================================================
