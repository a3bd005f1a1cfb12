SPECIFICATION FairSpec
CONSTANTS
  Kinds = {"get", "close", "post", "bad", "badhead", "barelf"}
  Pipelined = TRUE
  MaxAsked = 2
  Outcomes = {"file", "index", "missing", "forbidden", "unmapped"}
  Bytes = {"d1", "d2"}
  Files <- SmallFiles
  StaleLens = {0}
CHECK_DEADLOCK FALSE
INVARIANTS TypeOK CutsDoNotMatter AnsweredOnce WrittenInOrder
PROPERTIES  RequestIsAnswered
