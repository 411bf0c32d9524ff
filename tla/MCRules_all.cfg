CONSTANTS
  Cent = 3
  Allowance = 3
  Kept = 4
  Reserve = 6
  Preferred = 12
  Huge = 1000
  Tasks <- MCTasks
  Wallets <- MCWallets
  Desks = {"tui", "cli"}
  Methods = {"GET", "POST"}
  Beginnings <- MCBeginnings
  MaxStores = 3
  UnitsPerCent = 4
  Amounts = {0, 3, 5}
  MaxCost = 2
  MaxDeals = 2
  MaxChanges = 1
  MaxClients = 1
  MaxSaleCrashes = 1
  CatalogWait = 3
  ProbeWait = 3
  AbortWait = 2
  SweepWait = 5
  BatchSize = 2
  Wanted = 2
  OriginLimit = 3
  Listings <- MCListings
  MaxListed = 4
  Lanes = {c1, c2, c3}
  Prices = {1, 2}
  Credit = 7
  TopUp = 3
  Providers = {"p", "q"}
  FirstOne = "p"
  Catalogs <- MCCatalogs
  Submodels = {"auto", "off", "x"}
  MayBeOld = FALSE
  MaxActs = 3
  Endpoints = {e1}
  Buyers = {b1}
  MaxRatings = 2
  MaxPreferences = 2
SPECIFICATION Spec
INVARIANTS LatestDecisionStands PlanPays PriceOverLimitIsAsked PaidIsCovered NoSilentGap DifferencesCountOnce BadIsRefused
PROPERTY ResumesAsTold
CHECK_DEADLOCK FALSE
