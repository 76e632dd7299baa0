\* Two scenes, two tasks, three undo steps; writes that fail, an editor that dies while
\* it saves, files edited between sessions and assets that come and go.
SPECIFICATION Spec
CONSTANTS
  None = None
  Torn = Torn
  s1 = s1
  s2 = s2
  t1 = t1
  t2 = t2
  Scenes = {s1, s2}
  Specs = {t1, t2}
  Fitting <- MCFitting
  MaxUndo = 3
INVARIANTS ReadsTheEdited WrittenIsGenerated
