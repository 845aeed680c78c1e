CONSTANTS
  Listener = L
  Channels = {L, a}
  Fds = {3, 4}
  Keys = {k1, k2, k3, k4}
  Workers = {w1, w2}
  Admin = adm
  NoChannel = NoChannel
  NoKey = NoKey
  NoThread = NoThread
  Dead = Dead
  MaxEvents = 2
  Interrupts = FALSE
  Shared = {a}
  Quit = FALSE
SPECIFICATION Spec
INVARIANT AdminSurvives
