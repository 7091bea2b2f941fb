CONSTANTS
  a = a
  b = b
  c = c
  f = f
  g = g
  In = In
  Hup = Hup
  None = None
  Channels <- ThreeChannels
  Fds <- TwoFds
  Events <- OneEvent
  HangUp = Hup
  InitialSize = 1
  SizeLimit = 2
  MaxBuf = 3
SYMMETRY AnyOfTwo
SPECIFICATION EitherSelector
INVARIANTS
  PolledAsAsked
PROPERTIES
  Implements
  PollerImplements
