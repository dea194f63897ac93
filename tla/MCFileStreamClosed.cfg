CONSTANTS
    Width = 3
    MaxFileSize = 10
    Offset <- MCOffset
    Length <- MCLength
SPECIFICATION FSSpec
INVARIANT NoUseAfterRelease
