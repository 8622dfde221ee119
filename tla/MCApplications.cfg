SPECIFICATION Spec
CONSTANTS
  MaxChannels = 4
  MaxDrops = 2
  InHaste = FALSE
  SlipsIn = FALSE
  Unreadable = FALSE
  Files = {f, g}
  NoFile = none
  MaxTexts = 3
  MaxText = 3
  MaxMatches = 2
  Rows = 3
  Dirs = {d, e}
  EntryNames = {"x", "y"}
  MaxLists = 2
  Pages = {"p", "q"}
  ToSend = 2
  Names = 3
  RemovesEarly = FALSE
  Streams = 3
  MaxRows = 2
  Pauses = TRUE
  Units = {u, v}
  NoUnit = none
  MaxControls = 1
  WhileLogs = FALSE
  Pids = {p, q}
  NoPid = none
  Own = {p}
  Requests = {r1, r2}
  Senders = {s1, s2}
  MaxAttaches = 3
  Folders = {"d", "e"}
  FileNames = {"x", "y"}
  MaxAsks = 2
  Calls = 3
  Signals = 3
  Owners = 3
  Coalesced = FALSE
  Serials = 3
  Late = FALSE
  Bytes = {1}
  MaxLength = 2
  Entries = 4
  BacklogLines = 3
  BatchSize = 2
  EarlyExit = FALSE
  Dials = 4
  Limits = {0, 2, 3}
  Latest = 6
INVARIANTS
  EveryShellHasItsWindow
  FilesAreSafe
  PanelsAreTrue
  FileDialogsAreHonest
  BusIsFaithful
  NothingMisread
  ComesAndGoesOnTime
CHECK_DEADLOCK FALSE
SYMMETRY Symmetry
