SPECIFICATION NodeSpec
CONSTANTS
  a = a
  b = b
  chat = chat
  stream = stream
  text = text
  s1 = s1
  s2 = s2
  Models = {a, b}
  NoModel = NoModel
  MaxModels = 1
  Requests = {chat, stream}
  NoRequest = NoRequest
  Chat = {chat, stream}
  Streaming = {stream}
  Target <- MCTarget
  Selects = {s1, s2}
  ToLoad <- MCSameModel
  NoWrapper = NoWrapper
  MaxLoads = 2
INVARIANTS
  GlobalsFollowPool
  ChatLabelIsTruthful
  OneTaskPerWrapper
CHECK_DEADLOCK FALSE
