\* One TWGO file of three segments, two text files of at most two.
SPECIFICATION Spec
CONSTANTS
    p_twgo = p_twgo  p_text = p_text  p_bad = p_bad
    f1 = f1  f2 = f2
    t1 = t1  t_bad = t_bad
    h1 = h1  h2 = h2
    d1 = d1  d2 = d2
    Short = Short
    None = None
    MaxTotal = 3
    Products <- MCProducts
    TwgoProducts <- MCTwgoProducts
    FileIds <- MCFileIds
    Stamps <- MCStamps
    Heads <- MCHeads
    Tails <- MCTails
    Inputs <- MCInputs
INVARIANTS
    TypeOK
    FiledUnderOwnNumber
    OnlyUnassemblableFilesAreFull
PROPERTIES
    AcceptedSegmentsStay
    WedgedFilesOnlyFail
    KeepsThePromise
