\* A TWGO file and a text file, two segments each, one replaced once,
\* uplink payloads of at most two APDUs.
SPECIFICATION Spec
CONSTANTS
    p_twgo = p_twgo  p_text = p_text
    f1 = f1
    t1 = t1
    Short = Short
    None = None
    MaxTotal = 2
    MaxVersion = 2
    MaxApdus = 2
    Products <- MCProducts
    TwgoProducts <- MCTwgoProducts
    FileIds <- MCFileIds
    Stamps <- MCStamps
    Published <- MCPublished
    Length <- MCLength
    Schedules <- MCSchedules
PROPERTIES
    FeedsAll
