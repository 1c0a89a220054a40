CONSTANTS
    Msgs <- AllMsgs
    Size <- Sizes
    PumpMsgs = {"ping", "packet", "longer", "rules"}
    PongMsgs = {"ping"}
    Writers = {"pump", "pong"}
    MaxLength = 4
    MaxFrames = 4
    CanFail = TRUE
    PacketMsgs <- PacketNames
    Captured <- WhatCame
    RuleNumbers <- SomeRules
    Ports <- SomePorts
    Addresses <- SomeAddresses
    PayloadSizes <- SomeSizes
SPECIFICATION Spec
INVARIANTS TypeOK NothingLost RelayedIntact HeaderVerifies
PROPERTY ChannelUntilMixed
