CONSTANTS
  CHANNEL_CHUNK_LENGTH = 2
  BYTE_BASE = 2
  Channels = {1, 2, 4}
  Ids = {1}
  Outputs = {0, 1}
  Payloads <- MCPayloads
  MaxPainted = 2
  MaxUnread = 1
SPECIFICATION Spec
INVARIANTS MessagesWhole SentArrives CleanServerNeverFails 
CHECK_DEADLOCK FALSE
