SPECIFICATION Spec
CONSTANTS
    Listeners = {l1, l2}
    InboundCapacity = 1
    ControlCapacity = 2
    MediaCapacity = 1
    WriteFails = {TRUE, FALSE}
INVARIANTS DisableIsPrompt MediaIsAccounted
PROPERTIES ControlIsWritten GoroutinesEnd
CHECK_DEADLOCK FALSE
