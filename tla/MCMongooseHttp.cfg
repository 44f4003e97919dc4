CONSTANTS
    Conns = {c1, c2}
    Null = Null
    a = a
    b = b
    slash = slash
    Slash = slash
    NotApi = NotApi
    Names <- MCNames
    Uris <- MCUris
    TOKENS_LEN = 16
    MaxTokens = 2
SPECIFICATION Spec
PROPERTY NoWriteToFreedListener
