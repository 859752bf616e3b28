SPECIFICATION Spec
CONSTANTS
    Token <- MCToken
    OwnValues <- MCOwnValues
    MaxTokens = 6
    KeyRoom = 2
    FixedSize = 1
    SizeLimit = 3
    Width = 3
INVARIANTS LeaksAreEarned RepacksAlike OwnIsTaken
CHECK_DEADLOCK FALSE
