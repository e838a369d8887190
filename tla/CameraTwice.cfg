\* The app and the UI start the preview at the same time.
CONSTANTS
  App = {a1}
  Ui = {u1}
  Timer = {}
  Worker = {w1}
  Notifier = notifier
  NoThread = none
  AppCmd <- Starts
  UiCmd <- Starts
  MayBreak <- Breaks
  MayTimeOut = FALSE
  MaxCalls = 3
  MaxNotices = 1
SPECIFICATION Spec
INVARIANTS
  OneStartPreview
