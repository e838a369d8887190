\* An app thread and the UI with a thread of its own; requests may go unanswered.
CONSTANTS
  App = {a1}
  Ui = {u1}
  Timer = {}
  Worker = {w1}
  Notifier = notifier
  NoThread = none
  AppCmd <- Plain
  UiCmd <- StartsAndSyncs
  MayBreak <- Breaks
  MayTimeOut = TRUE
  MaxCalls = 3
  MaxNotices = 1
SPECIFICATION Spec
PROPERTIES
  EveryCallReturns
