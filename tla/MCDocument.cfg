SPECIFICATION MCSpec
CONSTANTS
    Timers = {"infinite"}
    Swapped = {"storage"}
    MaxChanges = 3
    s1 = s1
    s2 = s2
    s3 = s3
    f1 = f1
    f2 = f2
    Null = Null
    Styles = {s1, s2, s3}
    Fonts = {f1, f2}
    FontOf <- MCFontOf
    PartLen = 2
    AtBoundary = FALSE
    MaxElems = 3
    MaxTexts = 1
    MaxRefs = 3
INVARIANTS FileIsSnapshot NotStaleIsSaved
    NodesTypeOK ReferencesHeld FontsFollowStyles HashCurrent LoadedAsSaved
SYMMETRY Symmetry
CHECK_DEADLOCK FALSE
