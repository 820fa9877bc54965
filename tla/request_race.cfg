\* One queued request, two watchers, one request over REST, each of any form.
CONSTANTS
    q1 = q1  p1 = p1  w1 = w1  w2 = w2  h1 = h1  d1 = d1  d2 = d2  all = all
    NoRequest = none
    Broadcast = all
    Devices <- MCDevices
    FormsSent <- MCForms
    QueueRequests <- OneQueued
    RestRequests <- OnePosted
    Watchers <- TwoWatchers
    RestHandlers <- OneHandler
    MaxReceives = 2
SPECIFICATION FairSpec
INVARIANTS
    DeletedIsDone
    CopiesPerDelivery
    BroadcastStandsAlone
    AnswerAddsUp
PROPERTIES
    KeepsPromise
    RequestsAreHandled
CHECK_DEADLOCK FALSE
