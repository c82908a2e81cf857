SPECIFICATION Spec
CONSTANTS
  reguler = reguler
  healthy = healthy
  Plans = {reguler, healthy}
  PaxTable <- GroupTable
  ProductMin = 3
  KantorDays = {5, 20}
  Addons <- SoldAddons
  RuleRequests <- AskedRules
  RateRequests <- AskedRates
  ProductRequests <- AskedProducts
  KantorRequests <- AskedKantor
  Orders <- AskedOrders
  Chosen <- AskedChoices
  Starts <- AskedStarts
  Paxes = {2, 8}
  Quantities = {0, 3, 5, 7, 120}
INVARIANTS
  TypeOK
  TierIsThePublishedOne
  PackingNeverCostsMore
  AddonsFollowDeliveries
  KantorServesEveryDay
  LadderHasNoGap
