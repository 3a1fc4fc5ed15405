\* A response that is sent: does the host get what content was shown?
SPECIFICATION Spec
CONSTANTS
  h1 = h1
  h2 = h2
  Objs = {h1, h2}
  Tokens = {"x", "blank", "comma", "equals", "semicolon"}
  Names <- MCNames
  Values <- MCValues
  ContentType = "content-type"
  SetCookie = "set-cookie"
  BodyType <- MCBodyType
  Received <- MCReceived
  MaxLen = 2
SYMMETRY MCSymmetry
PROPERTIES
  SentIsShown
CHECK_DEADLOCK FALSE
