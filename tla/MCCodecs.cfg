CONSTANTS
  Bitmaps <- MCBitmaps
  Masks = {129}
  Streams <- MCStreams
  Levels = {7, 250}
  Deltas <- MCDeltas
  Literals = {0, 1, 2, 3}
  Repeats = {0, 3, 16, 33, 35}
  ScreenWidth = 3
  ScreenHeight = 3
  Lefts = {0, 2, 4}
  Tops = {0, 2}
  Sizes <- MCSizes
  Forms <- MCForms
  MaxRects = 2
  Pointers <- MCPointers
  Names = {0, 12}
  PairSizes = {0, 8, 65470}
  MaxPairs = 3
  Cuts = {10, 20, 30, 44, 48, 60, 66000}
  Initiators = {0, 6, 64534, 64535, 65535}
  DataSizes = {0, 1, 127, 128, 255, 256, 16383, 16384, 65519, 65520}
  BlockSizes = {0, 127, 128, 16369, 16370, 16384}
  CookieSizes = {0, 8, 222, 223, 228, 229, 300}
  TsRequests <- MCTsRequests
  UpdateLists <- MCUpdateLists
  KeyCodes = {30}
  Characters = {233, 55357}
  PointerFlags = {2048, 36864}
  Positions = {0, 65535}
  Bursts = {1, 15, 16, 41, 239, 4680}
  MaxBursts = 2
  SeqMod = 2
  m0 = m0
  m1 = m1
  Msg = {m0, m1}
  MsgLen <- MCMsgLen
  MaxSent = 3
  MaxUnseal = 3
  TlsKey = tlsKey
  PeerKeys = {tlsKey, otherKey}
  CREDS_LEN = 50
  MaxCalls = 6
  MaxPeerSeals = 3
SPECIFICATION CodecsSpec
INVARIANTS PictureDecoded PlanesDecoded ScreenAsSent CursorAsSent AuthenticateArrives MessageArrives EventsArrive NextIsAccepted SealIInv CredsOnlyForBoundPeer KeystreamNotReused IInv
PROPERTIES DeliversInOrder MismatchIsFinal
CHECK_DEADLOCK FALSE
