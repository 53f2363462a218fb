\* Opening, failover, redirects and closing, twice with one configuration.
CONSTANTS
  a1 = a1
  a2 = a2
  a3 = a3
  Address <- MCAddress
  ProtocolOf <- MCProtocolOf
  Urls <- MCUrls
  Redirects <- MCRedirects
  Configured <- MCConfigured
  Redirections <- MCRedirections
  MaxRestarts = 4
  MaxResends = 2
  MaxOpens = 2
SPECIFICATION ConfiguredFairSpec
INVARIANTS TypeOK OneSocket DescribesPeer ExhaustedMeansTried ClosedMeansReleased AsksForDatabase
PROPERTIES OpenEnds
