SPECIFICATION Spec
CONSTANTS
    MaxFrameLen = 14
    SampleFields <- MCFields
    SampleLens <- MCLens
    SampleBytes <- MCBytes
INVARIANTS WholeFrameIsRestored CutFrameIsDropped AcceptedIsPacked
