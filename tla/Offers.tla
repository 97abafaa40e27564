------------------------------- MODULE Offers -------------------------------
(***************************************************************************)
(* One offer of a hotel: created and changed through the API and through   *)
(* the desk's form, which check it by different rules, found by the        *)
(* search, and priced by the calculation (offers/models.py, serializers.py *)
(* and views.py; manager/forms.py).  Money is whole units.  Texts, slug,   *)
(* pictures, category and the advance-booking limits, which no other code  *)
(* reads, are left out; so is package_price, which the checks ask for and  *)
(* nothing reads: a package passes them or not.                            *)
(***************************************************************************)
EXTENDS Integers

CONSTANTS
    Null,           \* an empty column
    NoOffer,        \* the offer is not there
    LastDay,        \* days are 0 .. LastDay, the first ones also "today"
    LastToday,      \* the last "today"
    Week,           \* the number of weekdays: 7
    Percent,        \* percentages the model uses
    Amount,         \* fixed amounts the model uses
    Limit,          \* limits of bookings the model uses, Null for none
    Length,         \* lengths of stay the model uses as limits
    BasePrice       \* prices per night a calculation is asked for: any number

ASSUME OffersAssumption ==
    /\ LastDay \in Nat /\ LastToday \in 0..LastDay /\ Week \in Nat \ {0}
    /\ Percent \subseteq 0..100 /\ Amount \subseteq Nat /\ Limit \subseteq Nat \cup {Null}
    /\ Length \subseteq Nat \ {0} /\ BasePrice \subseteq Int
ASSUME NullAssumption == Null \notin Nat

Day == 0..LastDay
Weekday == 0..(Week - 1)

(* What the field validators of the model admit.                           *)
Pricing == [type : {"percentage", "fixed_amount", "package"}, perNight : BOOLEAN,
            percent : Percent \cup {Null}, amount : Amount \cup {Null}]
Period == [from : Day, to : Day]
StayLimits == [minimum : Length \cup {Null}, maximum : Length \cup {Null}]
Switches == [active : BOOLEAN, limit : Limit]

Offer == [pricing : Pricing, period : Period, stay : StayLimits,
          switches : Switches, days : SUBSET Weekday]

ASSUME NoOfferAssumption == NoOffer \notin Offer

(* A stay whose price is asked for: the serializer refuses any other dates.*)
Query == {q \in [price : BasePrice, checkIn : Day, checkOut : Day] : q.checkIn < q.checkOut}

VARIABLES
    today,
    offer,
    checked     \* history: the last write named the offer's type and was checked whole

offerVars == <<today, offer, checked>>

OffersTypeOK ==
    /\ today \in 0..LastToday
    /\ offer \in Offer \cup {NoOffer}
    /\ checked \in BOOLEAN

OffersInit ==
    /\ today \in 0..LastToday
    /\ offer = NoOffer
    /\ checked = FALSE

----------------------------------------------------------------------------
(* The rules.                                                              *)

PeriodOrdered(period) == period.from <= period.to

StayOrdered(stay) ==
    stay.minimum # Null /\ stay.maximum # Null => stay.minimum <= stay.maximum

(* A value is there and is not 0.                                          *)
Truthy(x) == x # Null /\ x # 0

(* Mutant: only fixed amounts are asked for.                               *)
Priced_AmountOnly(pricing) ==
    pricing.type = "fixed_amount" => Truthy(pricing.amount)

Priced(pricing) ==
    /\ pricing.type = "percentage" => Truthy(pricing.percent)
    /\ pricing.type = "fixed_amount" => Truthy(pricing.amount)

(* Offer.clean, run by the desk's form on the row as it would become.      *)
Clean(o) == PeriodOrdered(o.period) /\ StayOrdered(o.stay) /\ Priced(o.pricing)

----------------------------------------------------------------------------
(* The requests of administrators and managers.                            *)

Write(o, whole) ==
    /\ offer' = o
    /\ checked' = whole
    /\ UNCHANGED today

(* POST /offers/: validate_offer_data on all that was sent.  offer_type has *)
(* a default, so a payload may leave it out; the row becomes a percentage  *)
(* offer and no rule about its price is applied.                           *)
ApiCreate(o, named) ==
    /\ offer = NoOffer
    /\ PeriodOrdered(o.period) /\ o.period.from >= today
    /\ StayOrdered(o.stay)
    /\ IF named THEN Priced(o.pricing) ELSE o.pricing.type = "percentage"
    /\ Write(o, named)

DeskCreate(o) ==
    /\ offer = NoOffer
    /\ o.days = Weekday         \* the form has no weekdays: the defaults
    /\ Clean(o)
    /\ Write(o, TRUE)

(* PUT or PATCH of some columns.  The rules see only the columns sent: one *)
(* that comes alone is compared with nothing, and a request with several   *)
(* does no more than several requests with one.  Changing the type needs   *)
(* the price that goes with it in the same request.                        *)
PatchPeriod(day, end) ==
    /\ offer # NoOffer
    /\ Write([offer EXCEPT !.period = IF end THEN [@ EXCEPT !.to = day]
                                             ELSE [@ EXCEPT !.from = day]], FALSE)

(* Mutant: the validators of the two columns are lost.                     *)
PatchStay_Zero(n, most) ==
    /\ offer # NoOffer
    /\ \E m \in {n, 0} :
        Write([offer EXCEPT !.stay = IF most THEN [@ EXCEPT !.maximum = m]
                                             ELSE [@ EXCEPT !.minimum = m]], FALSE)

PatchStay(n, most) ==
    /\ offer # NoOffer
    /\ Write([offer EXCEPT !.stay = IF most THEN [@ EXCEPT !.maximum = n]
                                            ELSE [@ EXCEPT !.minimum = n]], FALSE)

PatchPricing(p) ==
    /\ offer # NoOffer
    /\ \/ p.type = offer.pricing.type       \* the type is not sent
       \/ Priced(p)                         \* sent, with the price it needs
    /\ Write([offer EXCEPT !.pricing = p], FALSE)

PatchRest(s, days) ==
    /\ offer # NoOffer
    /\ Write([offer EXCEPT !.switches = s, !.days = days], FALSE)

(* The desk's form on an offer that exists; the parts the user left as they *)
(* were are checked with the rest.                                         *)
DeskEdit(pricing, period, stay, s) ==
    LET o == [offer EXCEPT !.pricing = pricing, !.period = period,
                           !.stay = stay, !.switches = s]
    IN  /\ offer # NoOffer
        /\ Clean(o)
        /\ Write(o, TRUE)

Delete ==
    /\ offer # NoOffer
    /\ Write(NoOffer, FALSE)

Midnight ==
    /\ today < LastToday
    /\ today' = today + 1
    /\ UNCHANGED <<offer, checked>>

OffersNext ==
    \/ /\ offer = NoOffer
       /\ \E o \in Offer : DeskCreate(o) \/ \E named \in BOOLEAN : ApiCreate(o, named)
    \/ \E day \in Day, end \in BOOLEAN : PatchPeriod(day, end)
    \/ \E n \in Length \cup {Null}, most \in BOOLEAN : PatchStay(n, most)
    \/ \E p \in Pricing : PatchPricing(p)
    \/ \E s \in Switches, days \in SUBSET Weekday : PatchRest(s, days)
    \/ /\ offer # NoOffer
       /\ \/ \E p \in Pricing : DeskEdit(p, offer.period, offer.stay, offer.switches)
          \/ \E d \in Period : DeskEdit(offer.pricing, d, offer.stay, offer.switches)
          \/ \E l \in StayLimits : DeskEdit(offer.pricing, offer.period, l, offer.switches)
          \/ \E s \in Switches : DeskEdit(offer.pricing, offer.period, offer.stay, s)
    \/ Delete
    \/ Midnight

OffersSpec == OffersInit /\ [][OffersNext]_offerVars

----------------------------------------------------------------------------
(* What the public endpoints answer.                                       *)

NightsOf(q) == q.checkIn .. (q.checkOut - 1)
Stayed(q) == q.checkOut - q.checkIn

(* is_valid: switched on, and today is in its period.                      *)
IsValid(o) ==
    o.switches.active /\ o.period.from <= today /\ today <= o.period.to

(* is_available: bookings_used starts at 0 and nothing ever increments it, *)
(* and a limit of 0 counts as none.                                        *)
IsAvailable(o) == IsValid(o) /\ (Truthy(o.switches.limit) => 0 < o.switches.limit)

AppliesTo(o, day) ==
    /\ IsValid(o)
    /\ day \in o.period.from .. o.period.to
    /\ (day % Week) \in o.days

WithinPeriod(o, q) ==
    {q.checkIn, q.checkOut} \subseteq o.period.from .. o.period.to

(* Mutant: the day of departure is asked for, too.                         *)
Matched_CheckOutDay(o, q) ==
    /\ today <= q.checkIn /\ IsValid(o)
    /\ o.stay.minimum # Null /\ o.stay.minimum <= Stayed(q)
    /\ o.period.from <= q.checkOut /\ o.period.to >= q.checkIn
    /\ \A day \in q.checkIn .. q.checkOut : (day % Week) \in o.days

(* Offer search with both dates and max_nights set to the length of stay:  *)
(* days that are past are refused, and a filter on an empty minimum_stay   *)
(* finds nothing.                                                          *)
Matched(o, q) ==
    /\ today <= q.checkIn /\ IsValid(o)
    /\ o.stay.minimum # Null /\ o.stay.minimum <= Stayed(q)
    /\ o.period.from <= q.checkOut /\ o.period.to >= q.checkIn
    /\ \A day \in NightsOf(q) : (day % Week) \in o.days

(* The calculation's chain of tests, up to the comparison with the minimum *)
(* stay, which raises TypeError where there is none.                       *)
Reached(o, q) == IsAvailable(o) /\ WithinPeriod(o, q)

Applicable(o, q) ==
    /\ Reached(o, q)
    /\ o.stay.minimum # Null /\ o.stay.minimum <= Stayed(q)
    /\ o.stay.maximum = Null \/ Stayed(q) <= o.stay.maximum
    /\ \A day \in NightsOf(q) : AppliesTo(o, day)

(* The column calculate_discount multiplies with.                          *)
Rate(pricing) ==
    CASE pricing.type = "percentage" -> pricing.percent
      [] pricing.type = "fixed_amount" -> pricing.amount
      [] OTHER -> 0

Raises(o, q) ==
    \/ Reached(o, q) /\ o.stay.minimum = Null
    \/ Applicable(o, q) /\ Rate(o.pricing) = Null

(* Mutant: the total is multiplied by the nights once more.                *)
Discount_NightsTwice(p, q) ==
    CASE p.type = "percentage" -> (q.price * Stayed(q) * p.percent * Stayed(q)) \div 100
      [] p.type = "fixed_amount" -> p.amount * (IF p.perNight THEN Stayed(q) ELSE 1)
      [] OTHER -> 0

(* calculate_discount; a percentage is the same per night and in total.    *)
Discount(p, q) ==
    CASE p.type = "percentage" -> (q.price * Stayed(q) * p.percent) \div 100
      [] p.type = "fixed_amount" -> p.amount * (IF p.perNight THEN Stayed(q) ELSE 1)
      [] OTHER -> 0

Original(q) == q.price * Stayed(q)
Discounted(o, q) ==
    LET rest == Original(q) - Discount(o.pricing, q) IN IF rest < 0 THEN 0 ELSE rest

(* The answer is validated by its own serializer, to two decimal places. A *)
(* product of two columns of two places has four, whatever its value, so a *)
(* percentage that applies is answered with 400.                           *)
Refused(o, q) == Applicable(o, q) /\ ~Raises(o, q) /\ o.pricing.type = "percentage"

----------------------------------------------------------------------------
(* Properties.                                                             *)

Computed(q) == offer # NoOffer /\ Applicable(offer, q) /\ ~Raises(offer, q)

(* views.py 446-459: whatever sequence of requests made the offer, a       *)
(* computed price is between nothing and the price without it, or nothing  *)
(* where that is negative, as the request may ask for a negative price per *)
(* night.  Price and savings add up to the price without the offer, but    *)
(* for a fixed amount that is more than the stay costs and for a negative  *)
(* price: there the savings answered are not what the guest saves.         *)
QuoteBounded ==
    \A q \in Query : Computed(q) =>
        /\ Discounted(offer, q) \in 0..(IF Original(q) < 0 THEN 0 ELSE Original(q))
        /\ \/ Discounted(offer, q) + Discount(offer.pricing, q) = Original(q)
           \/ /\ offer.pricing.type = "fixed_amount" \/ q.price < 0
              /\ Discounted(offer, q) = 0 /\ Discount(offer.pricing, q) > Original(q)

(* views.py 282-374 and 405-445: the search and the calculation are two    *)
(* readings of one row.  What the calculation applies the search finds,    *)
(* unless the stay has begun before today; what the search finds and the   *)
(* calculation refuses leaves the period of the offer at one end or is     *)
(* longer than its maximum stay.                                           *)
SearchAgrees ==
    offer # NoOffer => \A q \in Query :
        /\ Applicable(offer, q) /\ today <= q.checkIn => Matched(offer, q)
        /\ Matched(offer, q) /\ ~Applicable(offer, q) =>
              \/ ~WithinPeriod(offer, q)
              \/ offer.stay.maximum # Null /\ Stayed(q) > offer.stay.maximum

(* views.py:428: a calculation fails with an error on an offer without a   *)
(* minimum stay, and else only on one that was last written in parts or    *)
(* created without naming its type; an offer the form or a full creation   *)
(* wrote keeps every rule until then.                                      *)
FailsOnlyIncomplete ==
    /\ checked => offer # NoOffer /\ Clean(offer)
    /\ \A q \in Query : offer # NoOffer /\ Raises(offer, q) =>
            offer.stay.minimum = Null \/ ~checked

=============================================================================
