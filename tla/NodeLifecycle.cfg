SPECIFICATION FairSpec
CONSTANTS
    MaxHeight = 3
    MaxKills = 2
    MaxExports = 2
INVARIANTS ValidHomeStarts SectionSurvives VersionsComplete ExportsAskedHeight
PROPERTIES ParamsNeedAuthority CommitsInTheEnd
CHECK_DEADLOCK FALSE
