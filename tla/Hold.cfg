SPECIFICATION Spec
CONSTANTS
    Freqs <- MCFreqs
    Bandwidths <- MCBandwidths
    Spectra <- MCSpectra
    RequiredBw = 4
    MaxEntries = 2
    DupTol = 1
    MaxId = 2
INVARIANT TypeOK
INVARIANT ListMatchesVfos
INVARIANT DecodersWanted
PROPERTY BindingsExactAfterFrame
PROPERTY CustodySpec
PROPERTY RemovedIsReleased
PROPERTY WantedIsServed
