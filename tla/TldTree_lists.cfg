SPECIFICATION TldSpec
CONSTANTS
  Files <- SmallFiles
  Hosts <- SmallHosts
  Befores <- UrlBefore
  Afters <- Path
  Beyond = 0
  Asked <- SmallNames
  Null = Null
INVARIANTS LookupMatchesList ExtractContract SuffixAgreement
PROPERTY MatchingEnds
