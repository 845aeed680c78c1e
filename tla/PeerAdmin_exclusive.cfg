CONSTANTS
  Listener = L
  Channels = {L, a, b}
  Fds = {3, 4, 5}
  Keys = {k1, k2, k3, k4, k5, k6}
  Workers = {w1}
  Admin = adm
  NoChannel = NoChannel
  NoKey = NoKey
  NoThread = NoThread
  Dead = Dead
  MaxEvents = 2
  Interrupts = FALSE
  Shared = {}
  Quit = FALSE
SPECIFICATION Spec
INVARIANTS TypeOK RegistrationsAgree DescriptorsOwned AdminSurvives NoStrandedClient
PROPERTY SelectorClosesAtEof
