SPECIFICATION Spec
CONSTANTS
  MaxContent = 4
  MaxAsked = 1
INVARIANTS
  TypeOK
  OneSaveAtATime
  SaveIsNotForgotten
  SavesDoNotConflict
PROPERTIES
  OverwriteIsChecked
  EverySaveSettles
