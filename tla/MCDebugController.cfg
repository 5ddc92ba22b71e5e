\* Two lines, three frames, programs of up to four instructions.
SPECIFICATION FairSpec
CONSTANTS
    Line = {1, 2}
    MaxDepth = 3
    MaxInstructions = 4
INVARIANTS
    AnnouncedStopHolds
PROPERTIES
    NoStopTwice
    StepsLandOutside
    ResumeIsHeard
\* A session whose client does nothing more, its program stopped or ended,
\* does stop.
CHECK_DEADLOCK FALSE
