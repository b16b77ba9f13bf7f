CONSTANTS
    Fingerprints <- MCFingerprints
    BucketSizes <- MCBucketSizes
    NoAnswer = NoAnswer
SPECIFICATION FairSpec
INVARIANTS TypeOK RobinHood
PROPERTIES ImplementsSet CallsReturn
