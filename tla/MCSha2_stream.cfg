SPECIFICATION Spec
CONSTANTS
  BlockSize = 4
  WordMod = 16
  Put <- MCPut
  Xor <- MCXor
  DigestSize <- MCDigestSize
  Digest <- MCDigest
  Message <- MCMessage
  Marker <- MCMarker
  Zero <- MCZero
  IPad <- MCIPad
  OPad <- MCOPad
  Garbage <- MCGarbage
  NoOutput <- MCNoOutput
  Keys <- MCKeys
  ChunkSizes = {0, 1, 3, 15}
  ReadSize = 6
  MaxLen = 34
PROPERTIES ImplementsContract FileComplete
