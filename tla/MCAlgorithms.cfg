SPECIFICATION Spec
CONSTANTS
  Sparse = Sparse
  Failed = Failed
  Invalid = Invalid
  Root = Root
  None = None
  Pending = Pending
  RunlistInputs <- MCRunlistInputs
  AttributeInputs <- MCAttributeInputs
  ListInputs <- MCListInputs
  IndexInputs <- MCIndexInputs
  FixupInputs <- MCFixupInputs
  SiInputs <- MCSiInputs
  RegionInputs <- MCRegionInputs
  UsnInputs <- MCUsnInputs
  PageInputs <- MCPageInputs
  UnitInputs <- MCUnitInputs
  NodeInputs <- MCNodeInputs
  MftInputs <- MCMftInputs
  RefsInputs <- MCRefsInputs
  GlobInputs <- MCGlobInputs
  RuleInputs <- MCRuleInputs
  QueryInputs <- MCQueryInputs
  QuestionInputs <- MCQuestionInputs
  RenameInputs <- MCRenameInputs
  BootInputs <- MCBootInputs
  RefInputs <- MCRefInputs
  TimeInputs <- MCTimeInputs
  OpInputs <- MCOpInputs
INVARIANTS StructuresRead  LinksTold  FlagsExact 
CHECK_DEADLOCK FALSE
