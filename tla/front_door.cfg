\* Two messages of devices and one REST request; three keys, one rotation.
CONSTANTS
    d1 = d1  d2 = d2  h1 = h1  k1 = k1  k2 = k2  k3 = k3  nokey = nokey
    s1 = s1  s2 = s2  stranger = stranger  x1 = x1  x2 = x2  x3 = x3
    notopic = notopic  notoken = notoken  a1 = a1  a2 = a2
    Users <- ThreeUsers
    Deliveries <- TwoDeliveries
    RestRequests <- OneRequest
    Keys <- MCKeys
    KeySets <- MCKeySets
    BadKeys <- MCBad
    OtherKeys <- MCOther
    NoKey = nokey
    MaxRotations = 1
    Services <- MCServices
    Stranger = stranger
    Topics <- MCTopics
    NoTopic = notopic
    NoToken = notoken
    Routes <- MCRoutes
    Owner <- MCOwner
    MessagesSent <- MCMessages
    RequestsSent <- MCRequests
SYMMETRY SwappedDeliveries
SPECIFICATION Spec
INVARIANTS
    TypeOK
    RefusalHasACause
    
    ConfigEventIsDoubled
    ChangeNeedsAppToken
    

