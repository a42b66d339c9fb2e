SPECIFICATION Spec
CONSTANTS
    i1 = i1
    Partner = Partner
    Stranger = Stranger
    Spaces = Spaces
    partner = partner
    stranger = stranger
    default = default
    r1 = r1
    r2 = r2
    r3 = r3
    Requests = {r1, r2, r3}
    Ids = {i1}
    BadId = BadId
    Headers = {Partner, Stranger, Spaces}
    Blank = Blank
    Normalized <- MCNormalized
    DefaultConsumer = default
    EnabledConsumers = {partner, default}
    Inbound <- MCInbound
    Global = Global
    None = None
    Keys = {Global}
    MaxHits = 2
    Window = 2
    MaxTime = 3
SYMMETRY MCSymmetry
INVARIANTS
    AnswersIdentified
