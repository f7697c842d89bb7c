SPECIFICATION Spec
CONSTANTS
  Texts = {t1, t2, t3}
  NoText = nothing
  Refused = {t3}
  Echoes = FALSE
  MaxPackets = 4
  MaxCopies = 1
  RingSize = 4
  WriteQueue = 2
  MaxDraws = 4
  Backends = {"win32", "x11", "darwin"}
  Positions = {p1, p2}
  WindowSizes = {z1, z2}
  FullScreen = full
  NoRect = norect
  MaxInputs = 5
  Windows = {w1, w2}
  NoWindow = nowindow
  MaxSize = 2
  Failures = TRUE
  MaxConfigures = 2
  MaxMoves = 1
  MaxWire = 2
  NoImage = noimage
  Theme = theme
  MaxImages = 3
  MaxEnters = 2
  LocalCopies = {c1, c2, c3}
  Refusing = {c2}
  Large = {c3}
  Us = us
  Nobody = nobody
  MaxOwn = 1
  LongTexts = {1, 2}
  Requestors = {r1, r2}
  MaxTexts = 3
  MaxAsks = 3
  NoSelection = none
  Ours = ours
  Absent = absent
  MaxChanges = 5
  Client = client
  Others = {poll}
  Capacity = 2
  MaxJobs = 2
  MaxEvents = 5
  Pin <- TwoParts
  MaxStatus = 2
  MaxInterrupts = 3
  MaxHandles = 4
  MaxRestarts = 2
  MaxDepth = 4
  Passwords = {"p1", "p2"}
  NoPassword = ""
  MaxChallenges = 2
  NoReport = noreport
  Notch = 2
  MaxTurn = 22
  MaxSide = 2
  MaxDimension = 3
  MaxDecoded = 8
  MaxImageBytes = 8
  Samples = {0, 16, 128, 235, 255}
  MaxPayloadSize = 3
  MaxRawChunks = 2
  MaxPacketIndex = 3
  MaxFrames = 3
  Bools = {"v", "version"}
  Strings = {"ssl-ca-cert"}
  Unknown = "nope"
  MaxArgs = 3
  MaxNamed = 3
SYMMETRY Symmetry
\* The server, the desktop and the user stop at the bounds.
CHECK_DEADLOCK FALSE
INVARIANTS
  TypeOK
  OneOpenRequest
  NothingWithheld
  PaintsWhatWasDrawn
  DrawsAreSettled
  GeometryAgreesWhenSettled
  WindowShowsItsBuffer
  InputGoesWhereTheSeatIs
  LocalCopiesArrive
  PastesAreWhole
  NobodyIsStranded
  NothingIsLeftBehind
  StreamsAreUnderstood
  PaintsWhereDrawn
  PointerReportsAreTrue
  FrontEndsAgree
  CredentialsStayInPlace
  AskedForIsHandled
PROPERTY NoStepOutOfTurn
