SPECIFICATION Spec
CONSTANTS
  h0 = h0
  h1 = h1
  None = None
  Paths = {h0, h1}
  Chips = {"cpu", "odd", "bad", "bare"}
  Sensors <- SensorsDef
  FilesOf <- FilesOfDef
  InputOf <- InputOfDef
  Unreadable <- UnreadableDef
  LabelOf <- LabelOfDef
  Odd = {"odd"}
  Default <- DefaultDef
  KeyOf <- KeyOfDef
  MaxBinds = 2
INVARIANT DetectionComplete
INVARIANT ReportComplete
