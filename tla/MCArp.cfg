CONSTANTS
  Hosts = {h1, h2}
  NumArp = 2
  ArpPeriod = 5
  ArpTimeout = 2
  MaxMac = 3
  NoHost = NoHost
SPECIFICATION ArpSpec
INVARIANTS
  ArpTypeOK
  ResolvesToNewest
PROPERTY
  OnlySweepsGoBack
  EarlyEntriesExpire
