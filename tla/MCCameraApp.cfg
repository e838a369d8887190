\* One app, the timer, four calls between them; camerad answers in time.
CONSTANTS
  App = {a1}
  Ui = {}
  Timer = {timer}
  Worker = {}
  Notifier = notifier
  NoThread = none
  AppCmd <- AppCmds
  UiCmd <- None
  MayBreak <- Breaks
  MayTimeOut = FALSE
  MaxCalls = 4
  MaxNotices = 2
SPECIFICATION Spec
INVARIANTS
  TypeOK
  StateAgrees
  ResultsNotLost
PROPERTIES
  AnswersMatch
