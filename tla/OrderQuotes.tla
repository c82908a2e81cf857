---------------------------- MODULE OrderQuotes ----------------------------
(***************************************************************************)
(* POST /v1/quote and the catalogue it prices from: admins change the      *)
(* classifier's thresholds, a plan's rates and the price ladders; clients  *)
(* ask for the price of an order card.                                     *)
(*                                                                         *)
(* A quote is computed from one document, so it is one action; how fresh   *)
(* that document is, is SiteConfigCache's subject.  The answer lies here   *)
(* until its client has read it, and no edit is made meanwhile: an answer  *)
(* that was given does not change.  A request a handler refuses for its    *)
(* form (an unknown plan, no dates, pax below 1) changes nothing and is    *)
(* not a step.  Names, labels, formatting and the audit trail are left     *)
(* out, and amounts are unbounded.                                         *)
(***************************************************************************)
EXTENDS TierClassifier, PriceLadder

CONSTANTS
  Plans,           \* the subscription plans
  PaxTable,        \* plan -> period -> pax -> the group's day total; no pax, no table
  ProductMin,      \* tier_products.min_qty
  KantorDays,      \* the day counts of the Kantor periods
  Addons,          \* the add-ons: [price, restrict, portion]
  RuleRequests, RateRequests, ProductRequests, KantorRequests,  \* what admins send
  Orders, Chosen, Starts, Paxes, Quantities                    \* what clients send

ASSUME QuoteAssumption ==
  /\ \A p \in Plans, t \in {"weekly", "monthly"} :
       /\ DOMAIN PaxTable[p][t] \subseteq 1..5
       /\ \A k \in DOMAIN PaxTable[p][t] : PaxTable[p][t][k] \in Nat
  /\ ProductMin \in Nat \ {0}
  /\ KantorDays \subseteq Nat \ {0}
  /\ Addons \subseteq [price : Nat, restrict : SUBSET (0..6), portion : Nat]
  /\ RuleRequests \subseteq Rules
  /\ RateRequests \subseteq Rates
  /\ ProductRequests \subseteq [minQty : Int, tiers : SUBSET Band]
  /\ \A q \in ProductRequests : IsFiniteSet(q.tiers)
  /\ KantorRequests \subseteq SUBSET Band
  /\ \A bands \in KantorRequests : IsFiniteSet(bands)
  /\ \A dates \in Orders : dates \subseteq Int /\ IsFiniteSet(dates) /\ dates # {}
  /\ Chosen \subseteq SUBSET Int
  /\ Starts \subseteq Int
  /\ Paxes \subseteq Nat \ {0}
  /\ Quantities \subseteq Int

VARIABLES
  rules,     \* the row of pricing_rules
  rates,     \* plan_rates: plan -> its five rates
  ladder,    \* tier_prices of a product's package
  kantor,    \* kantor_rates of a grade and period
  answer     \* the quote a client has not read yet, or [kind |-> "none"]

catalogue == <<rules, rates, ladder, kantor>>
vars == <<rules, rates, ladder, kantor, answer>>

NoAnswer == [kind |-> "none"]
KantorMin == 5

-----------------------------------------------------------------------------
(* The price of a card *)

\* Half a rupiah is rounded up, as the page's Math.round does.
RoundHalfUp(a, b) == (2 * a + b) \div (2 * b)

HasTable(plan) == \E t \in {"weekly", "monthly"} : DOMAIN PaxTable[plan][t] # {}
UsesTable(plan, tier) == tier \in {"weekly", "monthly"} /\ HasTable(plan)

\* The group's day total; beyond the table's last row, the price per head of
\* that row, rounded, for everybody.
RowFor(pax) == IF pax <= rules.paxTableMax THEN pax ELSE rules.paxTableMax
DayTotal(table, pax) ==
  IF pax <= rules.paxTableMax THEN table[pax]
  ELSE RoundHalfUp(table[RowFor(pax)], rules.paxTableMax) * pax

FlexiTiers == {"flexi", "flexi-weekly", "flexi-monthly"}

\* The dates an add-on is charged for: its weekdays, and the customer's choice
\* among the dates when there is one.
Matching_Chosen(addon, dates, chosen) ==
  {d \in (IF chosen = {} THEN dates ELSE chosen) :
     addon.restrict = {} \/ Weekday(d) \in addon.restrict}
Matching(addon, dates, chosen) ==
  {d \in dates : /\ addon.restrict = {} \/ Weekday(d) \in addon.restrict
                 /\ chosen = {} \/ d \in chosen}

\* The meat cap: on a Flexi tier one portion for so many people.
Portions(addon, pax, tier) ==
  IF addon.portion > 0 /\ tier \in FlexiTiers THEN pax \div addon.portion ELSE pax

\* The working days from start on; the walk gives up after so many days.
WalkLimit_Days(days) == days + 2
WalkLimit(days) == 3 * days + 14
WorkingDays(start, days) ==
  {d \in start..(start + WalkLimit(days) - 1) : Weekday(d) \in 1..5}
KantorDates(start, days) ==
  {d \in WorkingDays(start, days) :
     Cardinality({e \in WorkingDays(start, days) : e < d}) < days}

-----------------------------------------------------------------------------
(* Admins *)

Init ==
  /\ rules \in {r \in RuleRequests : ValidRules(r)}
  /\ rates \in [Plans -> {x \in RateRequests : ValidRates(x)}]
  /\ ladder \in {q.tiers : q \in {r \in ProductRequests :
                 r.minQty = ProductMin /\ ValidBands(r.tiers, ProductMin)}}
  /\ kantor \in {b \in KantorRequests : ValidBands(b, KantorMin)}
  /\ answer = NoAnswer

SetPricingRules(r) ==
  /\ ValidRules(r)
  /\ rules' = r
  /\ UNCHANGED <<rates, ladder, kantor, answer>>

SetPlanRates(p, x) ==
  /\ ValidRates(x)
  /\ rates' = [rates EXCEPT ![p] = x]
  /\ UNCHANGED <<rules, ladder, kantor, answer>>

\* The minimum the ladder is held against is the request's own.
SetTierPrices(q) ==
  /\ ValidBands(q.tiers, q.minQty)
  /\ ladder' = q.tiers
  /\ UNCHANGED <<rules, rates, kantor, answer>>

SetKantorRates(bands) ==
  /\ ValidBands(bands, KantorMin)
  /\ kantor' = bands
  /\ UNCHANGED <<rules, rates, ladder, answer>>

-----------------------------------------------------------------------------
(* Clients *)

Answer(a) == answer' = a /\ UNCHANGED catalogue

Subscription(plan, dates, pax, addon, chosen, rate, menu) ==
  LET tier == Tier(dates, rules)
      matched == Matching(addon, dates, chosen)
      portions == IF matched = {} THEN 0 ELSE Portions(addon, pax, tier)
  IN [kind |-> "subscription", plan |-> plan, dates |-> dates, pax |-> pax,
      tier |-> tier, rate |-> rate, charged |-> matched, portions |-> portions,
      total |-> menu + addon.price * portions * Cardinality(matched)]

\* The group price table applies on the strict Mingguan and Bulanan tiers only.
QuoteByRate(plan, dates, pax, addon, chosen) ==
  LET tier == Tier(dates, rules)
      rate == RateOf(tier, rates[plan])
  IN /\ ~UsesTable(plan, tier)
     /\ Answer(Subscription(plan, dates, pax, addon, chosen,
                            rate, rate * Cardinality(dates) * pax))

QuoteByTable(plan, dates, pax, addon, chosen) ==
  LET tier == Tier(dates, rules)
      table == PaxTable[plan][tier]
      dayTotal == DayTotal(table, pax)
  IN /\ UsesTable(plan, tier)
     /\ RowFor(pax) \in DOMAIN table
     /\ Answer(Subscription(plan, dates, pax, addon, chosen,
                            RoundHalfUp(dayTotal, pax), dayTotal * Cardinality(dates)))

RefuseForTable(plan, dates, pax) ==
  LET tier == Tier(dates, rules) IN
  /\ UsesTable(plan, tier)
  /\ RowFor(pax) \notin DOMAIN PaxTable[plan][tier]
  /\ Answer([kind |-> "refused", plan |-> plan, pax |-> pax, tier |-> tier])

\* The quantity is raised to the product's minimum, as on the page.
Clamped(qty) == IF qty < ProductMin THEN ProductMin ELSE qty

QuoteTierProduct(dates, qty, addon, chosen) ==
  LET band == BandFor(ladder, Clamped(qty))
      days == Cardinality(dates)
      charged == Cardinality(Matching(addon, dates, chosen))
  IN Answer([kind |-> "tier_product", qty |-> Clamped(qty), days |-> days, band |-> band,
             charged |-> charged,
             total |-> Clamped(qty) * (band.price * days + addon.price * charged)])

\* An unrestricted add-on is charged for every day of the package.
QuoteKantor(start, days, pax, addon, chosen) ==
  LET band == BandFor(kantor, pax)
      served == KantorDates(start, days)
      charged == IF addon.restrict = {} THEN days
                 ELSE Cardinality(Matching(addon, served, chosen))
  IN Answer([kind |-> "kantor", start |-> start, days |-> days, pax |-> pax, band |-> band,
             served |-> served, charged |-> charged,
             total |-> pax * (band.price * days + addon.price * charged)])

Read == answer # NoAnswer /\ answer' = NoAnswer /\ UNCHANGED catalogue

Edit ==
  \/ \E r \in RuleRequests : SetPricingRules(r)
  \/ \E p \in Plans, x \in RateRequests : SetPlanRates(p, x)
  \/ \E q \in ProductRequests : SetTierPrices(q)
  \/ \E b \in KantorRequests : SetKantorRates(b)

Ask ==
  \/ \E p \in Plans, dates \in Orders, pax \in Paxes : RefuseForTable(p, dates, pax)
  \/ \E a \in Addons, c \in Chosen :
       \/ \E p \in Plans, dates \in Orders, pax \in Paxes : QuoteByRate(p, dates, pax, a, c)
       \/ \E p \in Plans, dates \in Orders, pax \in Paxes : QuoteByTable(p, dates, pax, a, c)
       \/ \E dates \in Orders, qty \in Quantities : QuoteTierProduct(dates, qty, a, c)
       \/ \E start \in Starts, days \in KantorDays, pax \in Paxes :
            QuoteKantor(start, days, pax, a, c)

Next ==
  \/ answer = NoAnswer /\ (Edit \/ Ask)
  \/ Read

Spec == Init /\ [][Next]_vars

-----------------------------------------------------------------------------
(* Properties *)

TypeOK ==
  /\ rules \in Rules
  /\ rates \in [Plans -> Rates]
  /\ ladder \in SUBSET Band /\ kantor \in SUBSET Band
  /\ answer.kind \in {"none", "subscription", "refused", "tier_product", "kantor"}
  /\ answer.kind \in {"subscription", "tier_product", "kantor"} => answer.total >= 0

\* The tier of a quote is the one and only tier whose published rule (BR-3.1 to
\* BR-3.12, each read on its own) the dates satisfy, for all thresholds that
\* the validation lets in: the order of the ladder's branches is right.
TierIsThePublishedOne ==
  answer.kind = "subscription" =>
    {t \in Tiers : Qualifies(t, answer.dates, rules)} = {answer.tier}

\* Scattering does not pay: as many dates back to back from a Monday never cost
\* more per day, for orders of up to a week, or of a month and more.
Packed(n) == 1..n
PackingNeverCostsMore ==
  answer.kind = "subscription" =>
    LET n == Cardinality(answer.dates)
        own == RateOf(answer.tier, rates[answer.plan])
        packed == RateOf(Tier(Packed(n), rules), rates[answer.plan])
    IN (n <= 7 /\ n <= rules.flexiWeeklyMax) \/ n >= rules.monthlyMin => packed <= own

\* Nothing is charged per head and day above the list price, the Flexi Bulanan
\* rate excepted: nothing holds that one under the list price.
OnlyFlexiMonthlyOverList ==
  answer.kind = "subscription" =>
    \/ RateOf(answer.tier, rates[answer.plan]) <= rates[answer.plan].daily
    \/ answer.tier = "flexi-monthly"

\* Add-ons are charged for deliveries of the order only, never for more people
\* than it feeds, and on a Flexi tier within the meat cap.
AddonsFollowDeliveries ==
  /\ answer.kind = "subscription" =>
       /\ answer.charged \subseteq answer.dates
       /\ answer.portions <= answer.pax
  /\ answer.kind = "tier_product" => answer.charged <= answer.days
  /\ answer.kind = "kantor" => answer.charged <= Cardinality(answer.served)

\* A Kantor package is exactly so many working days, none skipped: the bound
\* on the walk never cuts it short.
KantorServesEveryDay ==
  answer.kind = "kantor" =>
    /\ Cardinality(answer.served) = answer.days
    /\ \A d \in answer.start..Max(answer.served) : (d \in answer.served) <=> (Weekday(d) \in 1..5)

\* A quantity on the ladder, from its first rung up, is charged at a band that
\* holds it, or is past the last one: there is no gap to fall through to the
\* cheapest price.
OnLadder(bands, band, qty) ==
  (\E b \in bands : b.min <= qty) =>
    \/ InBand(band, qty)
    \/ \A b \in bands : b.max < qty
LadderHasNoGap ==
  /\ answer.kind = "tier_product" => OnLadder(ladder, answer.band, answer.qty)
  /\ answer.kind = "kantor" => OnLadder(kantor, answer.band, answer.pax)

\* A group is refused a price only when the thresholds promise more rows than
\* the group price table has.
RefusedOnlyPastTheTable ==
  answer.kind = "refused" =>
    \E k \in 1..rules.paxTableMax : k \notin DOMAIN PaxTable[answer.plan][answer.tier]
=============================================================================
