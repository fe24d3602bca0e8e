SPECIFICATION FairChatSpec
CONSTANTS
  search1 = search1 search2 = search2 search3 = search3 invented = invented
  None = None
  Calls <- MCCalls
  ToolOf <- MCToolOf
  Checked <- MCChecked
  Offered = {"search_transactions"}
  WellFormed = {search1}
  MaxSteps = 3
  MaxCost = 1
  WallSeconds = 1
  MaxPrice = 1
  TryTicks = 2
  Width = 2
INVARIANT WithinLimits StopIsTrue ScreenIsWhole RecordMatchesAnswer
PROPERTY InputReopens
CHECK_DEADLOCK FALSE
