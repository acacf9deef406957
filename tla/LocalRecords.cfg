CONSTANTS
  ann = ann
  chat = chat
  m1 = m1
  m2 = m2
  Cards = {ann}
  Chats = {chat}
  Messages = {m1, m2}
  Old = {m1}
  Of <- OneConversation
  Spaces = {home, other}
  Home = home
  Texts = {first, second}
  First = first
  Clients = {p, q}
  MaxCalls = 3
  MaxJobs = 2
  RepeatCalls = 1
  MaxBreaks = 1
SPECIFICATION MCSpec
INVARIANTS
  NothingUnrecoverable
  PortableExact
CHECK_DEADLOCK FALSE
