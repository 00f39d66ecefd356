SPECIFICATION Spec
CONSTANTS
    Alphabet = {"a"}
    Pad = "="
    Others <- MCOthers
    Pieces <- MCPieces
    MaxPieces = 5
    ALLOWED_ALGORITHMS <- MCAlgorithms
    Whitespace <- MCWhitespace
    Control <- MCControl
INVARIANTS
    AcceptsExactlyBase64
    AcceptsExactlyKeyLines
    RenderRoundTrips
    RejectionIsFinal
CHECK_DEADLOCK FALSE
