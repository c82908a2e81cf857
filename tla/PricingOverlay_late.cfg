SPECIFICATION CardSpec
CONSTANTS
  CardOrders = {"agreed", "disputed"}
  Blank = "blank"
  NoTotal = NoTotal
  PagePrice <- MCPagePrice
  ServerPrice <- MCServerPrice
  Debounce = 1
  Timeout = 3
  Slots = 3
INVARIANT
  BanksTheOrdersPrice
