SPECIFICATION Spec
CONSTANTS
 e1 = e1
 e2 = e2
 Components = {"stem", "bow"}
 Features = {"long"}
 Glyphs = {11, 12}
 Editors = {e1, e2}
 LetterTypes = {"text"}
 Descriptions <- MCDescriptions
 MaxSaves = 3
 Lists <- Registry
 Value <- MCValue
 IndexOf <- MCIndexOf
 Exact <- MCExact
 Spelling <- MCSpelling
 Height <- MCHeight
 Requests <- MCRequests
 Contents <- MCContents
 ExportPage = 2
 MaxRows = 4
 MaxLimit = 4
 MaxSuggestions = 4
 Inputs <- MCInputs
 MaxSwaps = 1
 Indexes <- MCIndexes
 Tasks = {1, 2}
 Workers = 2
 Batch = 2
 InitialRows <- MCInitialRows
 MaxRowChanges = 1
 MaxFails = 1
INVARIANTS
 DescriptionKept
 LettersStand
 DefaultsKept
 FilterSelects
 PagesWhole
 Answered
 OthersRebuilt
PROPERTIES
 StructureSaved
 ProgressHonest
SYMMETRY Symmetry
CHECK_DEADLOCK FALSE
