\* Two objects over two names; reads, copies and a response that is sent.
SPECIFICATION Spec
CONSTANTS
  h1 = h1
  h2 = h2
  Objs = {h1, h2}
  Tokens = {"x", "blank", "comma", "equals", "semicolon"}
  Names <- MCNames
  Values <- MCValues
  ContentType = "content-type"
  SetCookie = "set-cookie"
  BodyType <- MCBodyType
  Received <- MCReceived
  MaxLen = 2
SYMMETRY MCSymmetry
INVARIANTS
  TypeOK
  PendingValuesCanBeFetched
PROPERTIES
  ResponseStartsWithItsList
  ShowsAHeaderList
CHECK_DEADLOCK FALSE
