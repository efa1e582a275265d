CONSTANTS
  Tag = {"p", "q"}
  Value = {"", "v"}
  Absent = Absent
  Text <- Texts
  Stripped <- WithoutSpaces
  NoKey = NoKey
  HtmlKey = HtmlKey
  HeadKey = HeadKey
  BodyKey = BodyKey
  MetaKey = MetaKey
  ShellId <- Ids
  Id = {MetaKey}
  TheBody = TheBody
  Start <- StartPages
  MaxEdits = 3
SPECIFICATION Spec
INVARIANT NothingSkipped
PROPERTIES ToldChangesArrive SameElements
CHECK_DEADLOCK FALSE
