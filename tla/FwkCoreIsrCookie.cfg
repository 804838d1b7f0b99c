CONSTANTS
    NoId = NoId
    NoEvent = NoEvent
    Slots = {s1, s2, s3, s4}
    Entities = {e1, e2}
    CookieMod = 16
    CookieBound = 4
    IsrRequests <- MCAnyRequest
    LightRequests <- MCNone
SPECIFICATION Spec
SYMMETRY MCSymmetry
VIEW MCView
INVARIANT CookieIdentifies
