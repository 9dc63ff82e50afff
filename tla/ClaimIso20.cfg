SPECIFICATION Spec
CONSTANT MaxFrames = 10
PROPERTY LoopRuns
