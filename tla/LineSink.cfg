CONSTANTS
    Chars = {"c", "d"}
    NL = "nl"
    MaxPiece = 3
    MaxText = 6
SPECIFICATION SinkSpec
INVARIANTS
    SinkTypeOK
    LinesAreTheText
