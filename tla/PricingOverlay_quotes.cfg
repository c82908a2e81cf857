SPECIFICATION CardFairSpec
CONSTANTS
  CardOrders = {"agreed", "disputed"}
  Blank = "blank"
  NoTotal = NoTotal
  PagePrice <- MCPagePrice
  ServerPrice <- MCServerPrice
  Debounce = 1
  Timeout = 3
  Slots = 3
INVARIANTS
  CardTypeOK
  VerifyChargesPage
  RightWhileCalm
  SettledIsServers
PROPERTY
  Released
