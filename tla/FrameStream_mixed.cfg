CONSTANTS
    Msgs <- AllMsgs
    Size <- Sizes
    PumpMsgs = {"packet"}
    PongMsgs = {"ping"}
    Writers = {"pump", "pong"}
    MaxLength = 4
    MaxFrames = 2
    CanFail = FALSE
    PacketMsgs <- PacketNames
    Captured <- WhatCame
    RuleNumbers <- SomeRules
    Ports <- SomePorts
    Addresses <- SomeAddresses
    PayloadSizes <- SomeSizes
SPECIFICATION Spec
INVARIANT FramesIntact
