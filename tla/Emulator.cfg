CONSTANTS
  ImgRows = 2
  ImgCols = 2
  ImgIds = {1, 2}
  KittyStackMax = 2
  PointerStackMax = 2
  TitleStackMax = 2
  EscapeMax = 4
  StringMax = 2
  ShellRows = 2
  HistoryMax = 1
  Scenes = {"place", "animate", "modes", "bytes", "shell", "keys", "mouse", "paste", "write", "embed"}
  EmbeddedMax = 2
  Grabbing <- McGrabbing
  Texts <- McTexts
  Params <- McParams
  KeyMaps <- McKeyMaps
  Buttons = {"left", "middle"}
  UserMouse <- McUserMouse
  MaxSteps <- McSteps
SPECIFICATION Spec
CHECK_DEADLOCK FALSE
INVARIANTS ParsedAsSent CommandsTrue KeysOnce MouseTrue PasteOnce WritesArrive EmbeddedSafe
PROPERTIES ImagesShown ModesTrue WorkEnds
