\* A camerad that answers late: whose answer is it?
CONSTANTS
  App = {a1}
  Ui = {u1}
  Timer = {}
  Worker = {w1}
  Notifier = notifier
  NoThread = none
  AppCmd <- Starts
  UiCmd <- Starts
  MayBreak <- Breaks
  MayTimeOut = TRUE
  MaxCalls = 3
  MaxNotices = 1
SPECIFICATION Spec
PROPERTIES
  AnswersMatch
