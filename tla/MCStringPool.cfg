CONSTANTS
    s1 = s1
    s2 = s2
    s3 = s3
    s4 = s4
    s5 = s5
    Strings <- MCStrings
    NoString = NoString
    NoAnswer = NoAnswer
    Hash <- MCHash
    BucketSizes <- MCBucketSizes
SPECIFICATION FairSpec
INVARIANTS TypeOK EveryIdFound
PROPERTIES ImplementsDictionary LookupsReturn
