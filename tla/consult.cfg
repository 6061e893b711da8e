SPECIFICATION SessionSpec
CONSTANTS
  a = a b = b
  Recordings <- SomeRecordings
  Queries <- SomeQueries
  Tokens = {a, b}
  FrameStep = 1
  DriftCeiling = 3
  MaxPage = 2
  None = None
  PartNames <- SomeParts
  Pictures = {"chart", "news"}
  Bodies <- SomeBodies
  Base = 2
  PartDigits = 2
  FrameDigits = 2
  MaxUploads = 3
  MaxCommits = 2
  Nothing = Nothing
INVARIANT SessionTypeOK PagesCover FoundRowsScore ContextIsNearest MergedInOrder FramesTellTheVideo
PROPERTY PagingEnds
CHECK_DEADLOCK FALSE
