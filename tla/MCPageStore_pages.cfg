SPECIFICATION Spec
CONSTANTS
  h1 = h1
  Editors = {h1}
  h2 = h2
  NoPage = NoPage
  Handles = {h1, h2}
  PageWords = 9
  Word = 12
  Tuples <- FewTuples
  MaxSlots = 3
  MaxPages = 2
  MaxWrites = 3
INVARIANTS TypeOK FreshTuplesIntact TuplesOnDisk DirectoryOnDisk
PROPERTIES PagesStayApart
