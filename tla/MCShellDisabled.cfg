SPECIFICATION Spec
CONSTANTS
  SessionApps = {a, b}
  NoApp = none
  Impatient = FALSE
  ClosesEarly = FALSE
  MaxReloads = 2
  AreaWidths = {3, 5}
  MinWidth = 2
  Keep = 1
  Careless = FALSE
  MaxDialogs = 2
  Pages = {p}
  Apps = {"editor", "archiver", "settings"}
  SettingsApp = "settings"
  MaxWindows = 2
  Files = {"a.tar.gz", "Makefile"}
  Desktops = {l, m, r}
  Remotes = {r}
  MaxTokens = 3
  MaxDrops = 2
  InHaste = FALSE
  Least = 2
  Area = 4
  Default = 3
  Sizes = {2, 3, 4}
  Zooms = {1, 2}
  Early = FALSE
  Crossing = FALSE
  MaxActs = 0
  MaxChoices = 0
  Canvases = {c1, c2}
  Nowhere = nowhere
  Chords = FALSE
  Quick = FALSE
  MaxEvents = 0
  Texts = {x, y, z}
  NoText = none
  Unseen = FALSE
  Overlapping = FALSE
  MaxCopies = 0
  Limits <- MCLimits
  ChoiceKey <- MCKeys
  Claims <- MCClaims
PROPERTIES
  DisabledIsSkipped
CHECK_DEADLOCK FALSE
