SPECIFICATION MCSpec
CONSTANTS
  a = a  b = b  ask = ask  answer = answer  other = other
  Chats = {a, b}
  Messages = {ask, answer, other}
  ChatOf <- MCChatOf
  Writings <- MCWritings
  Requests = {1, 2}
  None = None
  Admin = Admin
  MaxIngress = 1
  MaxAnswers = 1
  MaxArrivals = 2
  MaxDepth = 2
  MaxTotal = 2
  MaxTurns = 1
  EditsDocs = FALSE
  MaxMishaps = 1
  MaxRestarts = 1
INVARIANTS TypeOK Admission
PROPERTIES WritesAreMeant TurnsEnd
CHECK_DEADLOCK FALSE
