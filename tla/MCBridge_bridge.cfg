SPECIFICATION Spec
CONSTANTS
  Requests <- MCRequests
  Kind <- MCKind
  Key <- MCKey
  Prompt <- MCPrompt
  Column <- MCColumn
  Choice <- MCChoice
  MaxFaults = 1
  MaxExpiries = 1
INVARIANTS PromptServed ReportedIsRecorded PairedTogether
PROPERTY RequestsEnd
CHECK_DEADLOCK FALSE
