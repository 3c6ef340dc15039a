CONSTANTS
  NNodes = 3
  Ns = "test"
  SetName = ""
  NsReplies <- MCNsRepliesMiss
  SetReplies <- MCSetReplies
SPECIFICATION OCSpec
PROPERTY UnknownNamespaceFails
