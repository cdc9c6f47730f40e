SPECIFICATION FairNode
CONSTANTS
  a = a
  b = b
  chat = chat
  stream = stream
  text = text
  s1 = s1
  s2 = s2
  Models = {a, b}
  NoModel = NoModel
  MaxModels = 1
  Requests = {text, stream}
  NoRequest = NoRequest
  Chat = {stream}
  Streaming = {stream}
  Target <- MCTarget
  Selects = {s1}
  ToLoad <- MCSameModel
  NoWrapper = NoWrapper
  MaxLoads = 2
PROPERTIES
  ReloadEnds
CHECK_DEADLOCK FALSE
