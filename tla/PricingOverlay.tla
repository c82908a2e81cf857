--------------------------- MODULE PricingOverlay ---------------------------
(***************************************************************************)
(* Server-side pricing beside the captured page, for one order card.       *)
(*                                                                         *)
(* The page (site/index.html) computes the card's total itself and keeps   *)
(* it in card._current.  The overlay (site/overlays/pricing.html) listens  *)
(* to the card, waits DEBOUNCE_MS for it to settle, asks the server for a  *)
(* quote of whatever the card holds then, and in "authoritative" mode      *)
(* writes the answer over the page's total; a click on "add" that finds a  *)
(* quote pending is swallowed and clicked again later.                     *)
(*                                                                         *)
(* Cards share nothing but the cart, so one card is enough: a subscription *)
(* card, the one kind whose total may be missing, as long as it has no     *)
(* dates; a tier or a Kantor card always has a _current.  An order is an   *)
(* opaque value with a page price and a server price.  Time is in ticks of *)
(* DEBOUNCE_MS / Debounce; what is due happens before time passes.         *)
(***************************************************************************)
EXTENDS Integers, Sequences, SequencesExt

CONSTANTS CardOrders,   \* what a card can be filled in to: plan, dates, pax
          Blank,        \* the card without dates, as _reset leaves it
          PagePrice,    \* order -> the total the page's calculator shows
          ServerPrice,  \* order -> the total POST /quote answers
          NoTotal,      \* card._current is null
          Debounce,     \* DEBOUNCE_MS
          Timeout,      \* QUOTE_TIMEOUT_MS
          Slots         \* bound: quotes in flight, due, or owed to a held click

ASSUME PriceAssumption == /\ PagePrice \in [CardOrders -> Nat]
                          /\ ServerPrice \in [CardOrders -> Nat]
                          /\ Blank \notin CardOrders
                          /\ NoTotal \notin Nat
ASSUME TimeAssumption == Debounce \in Nat /\ Timeout \in Nat /\ Slots \in Nat

Off == -1                \* a timer that is not running

VARIABLES
  mode,        \* order.pricing_mode, read once when the page boots
  card,        \* the order the card holds
  total,       \* card._current.total, also the figure on display
  timer,       \* the debounce timer: ticks left
  quotes,      \* requests in flight, oldest first
  quoteAge,    \* ticks since card._serverQuoteAt, up to Timeout + 1
  held,        \* the swallowed click on "add": ticks to its second try
  banked,      \* history: the item the last step put in the cart
  newest,      \* history: what became of the last quote sent
  calm,        \* history: the order never changed under a quote in flight
  misreported  \* history: a disagreement was logged of prices that agree

cardVars == <<mode, card, total, timer, quotes, quoteAge, held, banked, newest,
              calm, misreported>>

\* A quote is "sent" until its headers arrive, then its "body" is read; only
\* the first has an abort timer running, with left ticks to go.
Quote == [order: CardOrders, phase: {"sent", "body"}, left: 0 .. Timeout]
Totals == Nat \cup {NoTotal}

CardTypeOK ==
  /\ mode \in {"verify", "authoritative"}
  /\ card \in CardOrders \cup {Blank}
  /\ total \in Totals
  /\ timer \in Off .. Debounce
  /\ quotes \in Seq(Quote)
  /\ quoteAge \in 0 .. Timeout + 1
  /\ held \in Off .. Debounce
  /\ banked \in {<<>>} \cup (CardOrders \X Nat)
  /\ newest \in {"none", "out", "answered", "overtaken", "lost"}
  /\ calm \in BOOLEAN
  /\ misreported \in BOOLEAN

\* What a subscription card's render() leaves in card._current.total.
Rendered(o) == IF o = Blank THEN NoTotal ELSE PagePrice[o]

\* The card is blank when the page boots; attach() arms the timer at once.
CardInit ==
  /\ mode \in {"verify", "authoritative"}
  /\ card = Blank
  /\ total = NoTotal
  /\ timer = Debounce
  /\ quotes = <<>>
  /\ quoteAge = Timeout + 1
  /\ held = Off
  /\ banked = <<>>
  /\ newest = "none"
  /\ calm = TRUE
  /\ misreported = FALSE

-----------------------------------------------------------------------------
\* The customer.

Count(t) == IF t = Off THEN 0 ELSE 1

\* The bound: one more armed timer must leave every held click its slot.
Room == Len(quotes) + Count(held) < Slots

Schedule_WhileIdle == timer' = IF quotes = <<>> THEN Debounce ELSE timer
Schedule == timer' = Debounce

ShowOrder_KeepsTotal(o) ==
  /\ card' = o
  /\ total' = IF o = Blank THEN total ELSE PagePrice[o]
  /\ calm' = (calm /\ quotes = <<>>)

\* The page renders the order the card now holds.
ShowOrder(o) ==
  /\ card' = o
  /\ total' = Rendered(o)
  /\ calm' = (calm /\ quotes = <<>>)

\* A date, the pax or the plan: render() runs in the page's own listener, the
\* debounce starts again in the overlay's.
EditCard(o) ==
  /\ Room
  /\ o # card
  /\ ShowOrder(o)
  /\ Schedule
  /\ banked' = <<>>
  /\ UNCHANGED <<mode, quotes, quoteAge, held, newest, misreported>>

\* An input or click in the card that changes no price: a recipient field, or
\* "add" with the recipient missing.
Touch ==
  /\ Room
  /\ Schedule
  /\ banked' = <<>>
  /\ UNCHANGED <<mode, card, total, quotes, quoteAge, held, newest, calm,
                 misreported>>

\* "Reset Order" in the cart's dialog: card._reset() from outside the card, so
\* that no listener of the overlay hears it.
ResetOrder ==
  /\ card # Blank
  /\ ShowOrder(Blank)
  /\ banked' = <<>>
  /\ UNCHANGED <<mode, timer, quotes, quoteAge, held, newest, misreported>>

\* The capture-phase listener: does a click on "add" have to wait?
MustWait_Unaged == mode = "authoritative" /\ total # NoTotal /\ quotes # <<>>
MustWait ==
  /\ mode = "authoritative"
  /\ total # NoTotal
  /\ quotes # <<>>
  /\ quoteAge <= Timeout

\* stopPropagation: neither the page nor the card's listeners see the click.
Hold ==
  /\ MustWait
  /\ held' = Debounce
  /\ banked' = <<>>
  /\ UNCHANGED <<mode, card, total, timer, quotes, quoteAge, newest, calm,
                 misreported>>

\* The page's listener, with the recipient filled in: the item goes into the
\* cart, the card is reset, and the click bubbles to schedule().
AddToCart ==
  /\ ~MustWait
  /\ total # NoTotal
  /\ banked' = <<card, total>>
  /\ ShowOrder(Blank)
  /\ Schedule
  /\ UNCHANGED <<mode, quotes, quoteAge, newest, misreported>>

\* One swallowed click at a time is a bound of the model: a second would find
\* the card blank once the first got through.
ClickAdd ==
  /\ Room
  /\ held = Off
  /\ \/ /\ Len(quotes) + Count(timer) + 1 <= Slots
        /\ Hold
     \/ AddToCart /\ held' = Off

\* Whatever the customer does.
Customer == (\E o \in CardOrders \cup {Blank} : EditCard(o))
            \/ Touch \/ ResetOrder \/ ClickAdd

-----------------------------------------------------------------------------
\* The overlay's timers and replies.

\* refresh(): the request is built from the card as it is now.
Refresh ==
  /\ timer = 0
  /\ timer' = Off
  /\ IF card = Blank
       THEN UNCHANGED <<quotes, newest>>
       ELSE /\ quotes' = Append(quotes, [order |-> card, phase |-> "sent",
                                         left |-> Timeout])
            /\ newest' = "out"
  /\ banked' = <<>>
  /\ UNCHANGED <<mode, card, total, quoteAge, held, calm, misreported>>

\* btn.click() after DEBOUNCE_MS: the whole decision again.  The button of a
\* blank card is disabled, so that its click() does nothing at all; with the
\* recipient missing the page adds nothing, but schedule() hears the click.
Reclick ==
  /\ held = 0
  /\ \/ Hold
     \/ AddToCart /\ held' = Off
     \/ /\ ~MustWait
        /\ held' = Off
        /\ timer' = IF total = NoTotal THEN timer ELSE Debounce
        /\ banked' = <<>>
        /\ UNCHANGED <<mode, card, total, quotes, quoteAge, newest, calm,
                       misreported>>

\* The headers of quotes[i] arrive: its abort timer is cleared.
Respond(i) ==
  /\ quotes[i].phase = "sent"
  /\ quotes' = [quotes EXCEPT ![i].phase = "body", ![i].left = 0]
  /\ banked' = <<>>
  /\ UNCHANGED <<mode, card, total, timer, quoteAge, held, newest, calm,
                 misreported>>

\* applyQuote: compared with the figure on display (a blank card shows 0), and
\* in authoritative mode written over it.
ApplyQuote_AnyMode(o) ==
  /\ misreported' = (misreported \/ (/\ total # ServerPrice[o]
                                     /\ PagePrice[o] = ServerPrice[o]))
  /\ IF total # NoTotal
       THEN total' = ServerPrice[o] /\ quoteAge' = 0
       ELSE UNCHANGED <<total, quoteAge>>

ApplyQuote(o) ==
  /\ misreported' = (misreported \/ (/\ total # ServerPrice[o]
                                     /\ PagePrice[o] = ServerPrice[o]))
  /\ IF mode = "authoritative" /\ total # NoTotal
       THEN total' = ServerPrice[o] /\ quoteAge' = 0
       ELSE UNCHANGED <<total, quoteAge>>

\* The body of quotes[i] is there.  Nothing asks whether it is the newest.
Arrive(i) ==
  /\ quotes[i].phase = "body"
  /\ quotes' = RemoveAt(quotes, i)
  /\ ApplyQuote(quotes[i].order)
  /\ newest' = IF newest = "out" /\ i = Len(quotes) THEN "answered"
               ELSE IF newest = "answered" THEN "overtaken" ELSE newest
  /\ banked' = <<>>
  /\ UNCHANGED <<mode, card, timer, held, calm>>

\* The network, an error status, or the abort timer: the total is left alone.
Fail(i) ==
  /\ quotes' = RemoveAt(quotes, i)
  /\ newest' = IF newest = "out" /\ i = Len(quotes) THEN "lost" ELSE newest
  /\ banked' = <<>>
  /\ UNCHANGED <<mode, card, total, timer, quoteAge, held, calm, misreported>>

Due_Never(i) == FALSE
Due(i) == quotes[i].phase = "sent" /\ quotes[i].left = 0
Abort(i) == Due(i) /\ Fail(i)

Down(t) == IF t = Off THEN Off ELSE t - 1

\* Time passes unless something is due now.
Tick ==
  /\ timer # 0
  /\ held # 0
  /\ \A i \in DOMAIN quotes : ~Due(i)
  /\ timer' = Down(timer)
  /\ held' = Down(held)
  /\ quotes' = [i \in DOMAIN quotes |->
                  IF quotes[i].phase = "sent"
                    THEN [quotes[i] EXCEPT !.left = @ - 1] ELSE quotes[i]]
  /\ quoteAge' = IF quoteAge <= Timeout THEN quoteAge + 1 ELSE quoteAge
  /\ banked' = <<>>
  /\ UNCHANGED <<mode, card, total, newest, calm, misreported>>

Network == \E i \in DOMAIN quotes : Respond(i) \/ Arrive(i) \/ Fail(i)

CardNext == Customer \/ Refresh \/ Reclick \/ Network \/ Tick

CardSpec == CardInit /\ [][CardNext]_cardVars

\* The browser runs its timers; nothing obliges the server to answer, nor a
\* body whose headers came to end.
Fairness == /\ WF_cardVars(Tick)
            /\ WF_cardVars(Refresh)
            /\ WF_cardVars(Reclick)
            /\ WF_cardVars(\E i \in DOMAIN quotes : Abort(i))

CardFairSpec == CardSpec /\ Fairness

-----------------------------------------------------------------------------
\* Properties.

\* "verify: never blocks, never changes what is charged" (pricing.html:20-22):
\* whatever quotes come back, and however late, the total and the item that
\* goes into the cart are the page's, and no click is swallowed.
VerifyChargesPage ==
  mode = "verify" =>
    /\ total = Rendered(card)
    /\ held = Off
    /\ banked # <<>> => banked[2] = PagePrice[banked[1]]

Figures(o) == IF o = Blank THEN {NoTotal} ELSE {PagePrice[o], ServerPrice[o]}

\* As long as the order has never changed under a quote in flight, the card's
\* total and the cart's item are prices of their own order, the page's or the
\* server's, and no disagreement is logged of two prices that agree: the
\* request is built from the order on display, after the page rendered it.
RightWhileCalm ==
  calm => /\ total \in Figures(card)
          /\ banked # <<>> => banked[2] \in Figures(banked[1])
          /\ ~misreported

\* Authoritative mode settles on the server's figure: when the newest quote was
\* answered after every older one and nothing is scheduled, the total is the
\* server's price of the order on the card, whatever was edited meanwhile.
SettledIsServers ==
  /\ mode = "authoritative"
  /\ newest = "answered"
  /\ timer = Off
  /\ card # Blank
  => total = ServerPrice[card]

\* "never hold the customer for longer than the timeout" (pricing.html:302): a
\* swallowed click gets through, even if a reply's body never ends, unless the
\* customer keeps changing the card.
Released == []<>(held = Off) \/ []<><<Customer>>_cardVars

\* "Let it land rather than banking a stale number" and "falls back to the
\* page's own figure" (pricing.html:24-27, 301-302): the item that goes into
\* the cart has a price of its own order.  Not so when the order changed under
\* a quote in flight: the late answer is written over the new order's total.
BanksTheOrdersPrice == banked # <<>> => banked[2] \in Figures(banked[1])
=============================================================================
