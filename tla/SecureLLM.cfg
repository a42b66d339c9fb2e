SPECIFICATION SecureSpec
CONSTANTS
    phone = "phone"
    email = "email"
    name = "name"
    issuer = "issuer"
    pin = "pin"
    Types = {"phone", "email", "name", "issuer", "pin"}
    Priority <- MCPriority
    Confidences = {8, 10}
    TextLen = 4
    MaxEntities = 3
    Found <- MCFound
    Given <- MCGiven
    EnabledTypes = {"phone", "email", "name", "issuer"}
    RuleLists <- MCRuleLists
    Unknown = Unknown
    None = None
    Letters <- MCLetters
    InitialsTypes = {"name"}
    NumericEdgeTypes = {"phone"}
    DigitsOnlyTypes = {}
    EmailTypes = {"email"}
    NumericVisibleEdge = 1
    NumericMinDigits = 2
    Random <- MCRandom
    Alphabet <- MCAlphabet
    GroupedTypes = {"name", "issuer"}
    IssuerTypes = {"issuer"}
    ComponentTypes = {"phone"}
    MarkerTypes = {"pin"}
    Dismissed <- MCDismissed
    MarkerWord = "m"
    BankWord = "k"
    PersonalWord = "p"
    MarkerWindow = 1
    BankBefore = 2
    BankAfter = 2
    Texts <- MCTexts
    Strategies = {"PARTIAL_MASK", "TOKENIZE"}
INVARIANTS
    PipelineTypeOK
    KeptDisjoint
    LostOnlyToBetter
    MaskedExactly
    MatchesSurvive
    DigitsHidden
    TokensRestored
