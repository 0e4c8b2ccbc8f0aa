\* Two keys have the same metric, so that classes have something to sort and
\* the least element may have the metric of the greatest.
CONSTANTS
    Inputs <- SomeInputs
    Coarse = 2
SPECIFICATION FairSpec
INVARIANTS ResultSorted FlashInside
PROPERTIES Ends
CHECK_DEADLOCK FALSE
