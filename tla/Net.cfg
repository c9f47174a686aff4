SPECIFICATION ApartSpec
CONSTANTS
    Senders = {p1, p2}
    Main = Main
    Messages <- ServerMessages
    MaxSockets = 3
    MaxFrames = 2
INVARIANT InOrder
INVARIANT HeadersGenuine
INVARIANT AnswersAreRead
PROPERTY AllHandled
CHECK_DEADLOCK FALSE
