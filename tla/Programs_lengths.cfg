SPECIFICATION Spec
CONSTANTS
    Values <- Lengths
    Texts <- NoTexts
    Printed <- MCPrinted
    Files <- MCFiles
    ErrorLimit = 3
    Span <- MCSpan
    Doubles <- MCDoubles
    FloatOp <- MCFloatOp
    Rounded <- MCRounded
    AsDouble <- MCAsDouble
    Spellings <- MCSpellings
    Dates = {"date"}
    FalseTexts = {"", "0", "false"}
    Concat <- MCConcat
    Spelled <- MCSpelled
    ReadsInt <- MCReadsInt
    ReadsDouble <- MCReadsDouble
    SuffixOf <- MCSuffixOf
    Unwritable = {"locked.json"}
    CommandLines <- TestOnly
    Libraries <- MCLibraries
    BundleFiles <- MCBundleFiles
    MaxCalls = 4
    ConfigFiles <- MCConfigFiles
    Answers <- MCAnswers
    Addresses <- MCAddresses
    Keystores <- MCKeystores
    Kinds = {"socket", "ssl", "watched", "pipe"}
    Message <- MCMessage
    BufSize = 2
    Listeners = {"socket", "ssl"}
    Secure = {"ssl"}
    Tuned = {"ssl"}
    Conns = {"c1", "c2", "c3"}
    ListenerOf <- MCListenerOf
    Slots = 4
    OptionsFail = TRUE
    Loggers = {"admin", "task"}
    Parts <- MCParts
    MaxParts = 1
    MaxEntries = 1
INVARIANT LengthsReadBack
