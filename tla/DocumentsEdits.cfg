\* Two requests at a time, seven in all, on an agenda of two sections and an item.
CONSTANTS
  Orders = {1, 2}
  Items = {i1}
  SectionOf <- MCSectionOf
  Editors = {c1, c2}
  MaxEdits = 7
SPECIFICATION DocumentsSpec
INVARIANTS DocumentsTypeOK SectionsSound ItemsSound
PROPERTY NothingUndone
SYMMETRY Symmetry
CHECK_DEADLOCK FALSE
