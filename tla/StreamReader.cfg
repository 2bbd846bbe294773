CONSTANTS
    Tools <- MCTools
    ToolDeltas <- MCToolDeltas
    FinishReasons = {"stop"}
    MaxLines = 3
SPECIFICATION Spec
INVARIANTS ContentArrives NeverFakesFinish
PROPERTIES UsageAwaitedIfAsked StreamContract
