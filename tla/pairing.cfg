SPECIFICATION FairSpec
CONSTANTS
  Clients = {c1, c2}
  PinHolders = {c1}
  Conns = {k1, k2}
  NoClient = NoClient
  SafeMode = FALSE
  MaxJobs = 1
  MaxPersist = 1
INVARIANT TypeOK UnpairedEndsAdministration
PROPERTY AgreementIsKept ChangedByAdminOrSetup RemovalKeepsAnAdmin RegistrySpec AdvertisementCatchesUp
