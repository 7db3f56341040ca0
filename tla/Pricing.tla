------------------------------- MODULE Pricing -------------------------------
(***************************************************************************)
(* The pricing engine: what an order costs under a loaded configuration.   *)
(*                                                                         *)
(* A request arrives from the portal (CalculatePrice, with the analysis of *)
(* an SVG), from the WhatsApp bot (HandleEstimate) or from the             *)
(* administrator's assistant (calcular_cotizacion), the last two with the  *)
(* measures of a rectangle.  All three end in Calculator.Calculate.        *)
(*                                                                         *)
(* Amounts are exact fractions, where the code has float64; a speed that   *)
(* is NULL or not positive is Zero, which the code treats alike; a         *)
(* thickness is a number of thousandths of a millimetre.                   *)
(***************************************************************************)
EXTENDS Fractions, Sequences

CONSTANTS
    Configs,      \* what ConfigLoader may have loaded
    Inquiries,    \* what the three callers may ask
    Quantities,   \* the quantities the properties compare
    MoreWork      \* by how much the properties lengthen a job

NoTech == -1      \* cut_technology_id is NULL; a pointer to 0 is another machine
NoMax == 0        \* max_qty is NULL
NoEngraving == 0  \* engrave_type_id of a job that is only cut
Vectorial == 1

VARIABLES
    config,       \* *PricingConfig
    request,      \* what is asked
    job,          \* what Calculate is given, once the request is accepted
    result,       \* *PriceResult, once Calculate has returned it
    reply,        \* what was answered
    before        \* the order priced before this one, with its price

pricingVars == <<config, request, job, result, reply, before>>

-----------------------------------------------------------------------------
\* The getters of the configuration.

Default ==
    [base_engrave_area_speed |-> Whole(500),
     base_engrave_line_speed |-> Whole(100),
     base_cut_speed          |-> Whole(20),
     setup_time_minutes      |-> Whole(5),
     complexity_auto_approve |-> Whole(6),
     complexity_needs_review |-> Whole(12),
     min_value_base          |-> Whole(2575),
     price_per_mm2           |-> Frac(515, 1000),
     min_area_mm2            |-> Whole(100),
     price_per_mm_cut        |-> Frac(25, 100),
     default_margin_percent  |-> Frac(40, 100),
     horas_trabajo_mes       |-> Whole(120),
     overhead_alquiler       |-> Zero,
     overhead_internet       |-> Zero]

\* A key that is missing, or whose value is no number, has its default.
Setting(c, key) ==
    IF key \in DOMAIN c.system THEN c.system[key] ELSE Default[key]

\* The first of the rows at some places, if there are any.
FirstOf(rows, places, otherwise) ==
    IF places = {} THEN otherwise
    ELSE rows[CHOOSE i \in places : \A k \in places : i <= k]

Reaches(bracket, quantity) == bracket.maxQty = NoMax \/ quantity <= bracket.maxQty

\* Mutant: a bracket begins above its least quantity.
BracketsApart(c, quantity) ==
    LET brackets == {i \in DOMAIN c.volumeDiscounts :
            /\ quantity > c.volumeDiscounts[i].minQty
            /\ Reaches(c.volumeDiscounts[i], quantity)}
    IN IF brackets = {} THEN Zero
       ELSE c.volumeDiscounts[CHOOSE i \in brackets : \A k \in brackets : k <= i].pct

\* The last bracket that contains the quantity; brackets come by min_qty.
GetVolumeDiscount(c, quantity) ==
    LET brackets == {i \in DOMAIN c.volumeDiscounts :
            /\ quantity >= c.volumeDiscounts[i].minQty
            /\ Reaches(c.volumeDiscounts[i], quantity)}
    IN IF brackets = {} THEN Zero
       ELSE c.volumeDiscounts[CHOOSE i \in brackets : \A k \in brackets : k <= i].pct

HoursPerMonth(c) ==
    IF Positive(Setting(c, "horas_trabajo_mes"))
    THEN Setting(c, "horas_trabajo_mes") ELSE Whole(120)

OverheadPerHour(c, tech) ==
    (Setting(c, "overhead_alquiler") \oplus Setting(c, "overhead_internet")
        \oplus c.techRates[tech].monthly) \oslash HoursPerMonth(c)

\* Of a technology without rates the machine is free.
GetCostPerMin(c, tech, work) ==
    IF tech \notin DOMAIN c.techRates THEN Zero
    ELSE (c.techRates[tech][work] \oplus OverheadPerHour(c, tech)) \oslash Whole(60)

GetMarginPercent(c, tech) ==
    IF tech \in DOMAIN c.techRates THEN c.techRates[tech].margin
    ELSE Setting(c, "default_margin_percent")

GetSetupFee(c, tech) ==
    IF tech \in DOMAIN c.techRates THEN c.techRates[tech].setupFee ELSE Zero

GetMaterialFactor(c, material) ==
    IF material \in DOMAIN c.materials THEN c.materials[material].factor ELSE One

GetEngraveTypeFactor(c, type) ==
    IF type \in DOMAIN c.engraveTypes THEN c.engraveTypes[type].factor ELSE One

GetEngraveTypeSpeedMultiplier(c, type) ==
    IF type \in DOMAIN c.engraveTypes THEN c.engraveTypes[type].speed ELSE One

GetUVPremiumFactor(c, tech) ==
    IF tech \in DOMAIN c.technologies THEN c.technologies[tech].uv ELSE Zero

GetSpotSize(c, tech) ==
    IF tech \in DOMAIN c.technologies /\ Positive(c.technologies[tech].spot)
    THEN c.technologies[tech].spot ELSE Frac(1, 10)

Share == {x \in Fraction : x \preceq One}
Bracket == [minQty : Nat, maxQty : Nat, pct : Share]
SpeedRow == [tech : Nat, material : Nat, thickness : Nat,
             cut : Fraction, engrave : Fraction, raster : Fraction, compatible : BOOLEAN]
CostRow == [material : Nat, thickness : Nat, perMm2 : Fraction, waste : Fraction]

\* What a shop enters, as in the seeds: no column is negative and no discount is
\* more than the price, though no handler refuses them.  The base speeds are
\* positive: divided by one that is not, a time is no number in the code.
ASSUME ShopsAssumption == \A c \in Configs :
    /\ \A t \in DOMAIN c.technologies :
        {c.technologies[t].spot, c.technologies[t].uv} \subseteq Fraction
    /\ \A t \in DOMAIN c.techRates :
        \A column \in {"engrave", "cut", "setupFee", "margin", "monthly"} :
            c.techRates[t][column] \in Fraction
    /\ \A m \in DOMAIN c.materials : c.materials[m].factor \in Fraction
    /\ \A e \in DOMAIN c.engraveTypes :
        {c.engraveTypes[e].factor, c.engraveTypes[e].speed} \subseteq Fraction
    /\ \A key \in DOMAIN c.system : c.system[key] \in Fraction
    /\ c.volumeDiscounts \in Seq(Bracket)
    /\ c.techMaterialSpeeds \in Seq(SpeedRow)
    /\ c.materialCosts \in Seq(CostRow)
    /\ Positive(Setting(c, "base_engrave_line_speed"))
    /\ Positive(Setting(c, "base_cut_speed"))

-----------------------------------------------------------------------------
\* The three lookups by thickness.  Each falls back to the row of thickness 0;
\* the speeds are matched within a hundredth, the others exactly.

Near(a, b) == a - b < 10 /\ b - a < 10

SpeedRows(c, tech, material) ==
    {i \in DOMAIN c.techMaterialSpeeds :
        /\ c.techMaterialSpeeds[i].tech = tech
        /\ c.techMaterialSpeeds[i].material = material}

NoSpeeds == [cut |-> Zero, engrave |-> Zero, raster |-> Zero, compatible |-> TRUE]

GetMaterialSpeed(c, tech, material, thickness) ==
    LET rows == c.techMaterialSpeeds
        Of(t) == {i \in SpeedRows(c, tech, material) : Near(rows[i].thickness, t)}
    IN FirstOf(rows, Of(thickness), FirstOf(rows, Of(0), NoSpeeds))

IsCompatible(c, tech, material, thickness) ==
    LET rows == c.techMaterialSpeeds
        Of(t) == {i \in SpeedRows(c, tech, material) : rows[i].thickness = t}
    IN FirstOf(rows, Of(thickness), FirstOf(rows, Of(0), NoSpeeds)).compatible

NoCost == [perMm2 |-> Zero, waste |-> Zero]

GetMaterialCost(c, material, thickness) ==
    LET rows == c.materialCosts
        Of(t) == {i \in DOMAIN rows :
                     rows[i].material = material /\ rows[i].thickness = t}
    IN FirstOf(rows, Of(thickness), FirstOf(rows, Of(0), NoCost))

-----------------------------------------------------------------------------
\* The time of a job, of which the geometry already stands for every piece.

PositiveOrOne(x) == IF Positive(x) THEN x ELSE One

\* Nothing to do takes no time, whatever the speed.
TimeOf(size, speed) == IF Positive(size) THEN size \oslash speed ELSE Zero

\* Each of the three speeds is the row's own or one of the shop; engraving is
\* slower or faster with its type, and the shop's lines slower on hard material.
EstimateWithGeometry(c, j, tech, g) ==
    LET mult == PositiveOrOne(GetEngraveTypeSpeedMultiplier(c, j.engraveType))
        hardness == PositiveOrOne(GetMaterialFactor(c, j.material))
        own == GetMaterialSpeed(c, tech, j.material, j.thickness)
        head == (IF Positive(own.engrave) THEN own.engrave
                 ELSE Setting(c, "base_engrave_line_speed") \oslash hardness) \otimes mult
        area == Setting(c, "base_engrave_area_speed")
        raster == IF Positive(own.raster) THEN own.raster \otimes mult
                  ELSE IF Positive(area) THEN area \otimes mult
                  ELSE head \otimes GetSpotSize(c, tech)
        cut == IF Positive(own.cut) THEN own.cut
               ELSE Setting(c, "base_cut_speed") \oslash hardness
        rasterMins == TimeOf(g.raster, raster)
        engraveMins == rasterMins \oplus TimeOf(g.vector, head)
        cutMins == TimeOf(g.cut, cut)
    IN [raster |-> rasterMins,
        engrave |-> engraveMins,
        cut |-> cutMins,
        total |-> Setting(c, "setup_time_minutes") \oplus engraveMins \oplus cutMins,
        usedFallback |->
            \/ Positive(g.raster) /\ ~Positive(own.raster) /\ ~Positive(own.engrave)
            \/ Positive(g.vector) /\ ~Positive(own.engrave)
            \/ Positive(g.cut) /\ ~Positive(own.cut)]

-----------------------------------------------------------------------------
\* The price.

OtherMachine(j) == j.cutTech \notin {NoTech, j.tech}
CutTech(j) == IF j.cutTech = NoTech THEN j.tech ELSE j.cutTech

\* Mutant: what is engraved is not cut.
ScaledByKind(j) ==
    LET q == Whole(j.quantity)
        engraved == Positive(j.analysis.vector) \/ Positive(j.analysis.raster)
    IN [cut |-> IF j.ignoreCut \/ engraved THEN Zero ELSE j.analysis.cut \otimes q,
        vector |-> j.analysis.vector \otimes q,
        raster |-> j.analysis.raster \otimes q,
        area |-> j.analysis.area \otimes q]

\* The geometry of all the pieces at once.
Scaled(j) ==
    LET q == Whole(j.quantity)
    IN [cut |-> IF j.ignoreCut THEN Zero ELSE j.analysis.cut \otimes q,
        vector |-> j.analysis.vector \otimes q,
        raster |-> j.analysis.raster \otimes q,
        area |-> j.analysis.area \otimes q]

\* With a second machine, its cutting is estimated apart; one setup in time.
TimeEstimate(c, j, g) ==
    LET engraved == EstimateWithGeometry(c, j, j.tech,
                        IF OtherMachine(j) THEN [g EXCEPT !.cut = Zero] ELSE g)
        cut == EstimateWithGeometry(c, j, j.cutTech,
                   [g EXCEPT !.raster = Zero, !.vector = Zero])
    IN IF OtherMachine(j)
       THEN [engraved EXCEPT !.cut = cut.cut,
                             !.total = @ \oplus cut.cut,
                             !.usedFallback = @ \/ cut.usedFallback]
       ELSE engraved

\* The material the shop provides; without a price for it, it is free.
CostMaterial(c, j, g) ==
    LET m == GetMaterialCost(c, j.material, j.thickness)
    IN IF j.included /\ Positive(m.perMm2)
       THEN g.area \otimes m.perMm2 \otimes (One \oplus m.waste)
       ELSE Zero

CostSetup(c, j) ==
    IF OtherMachine(j)
    THEN GetSetupFee(c, j.tech) \oplus GetSetupFee(c, j.cutTech)
    ELSE GetSetupFee(c, j.tech)

Premium(c, j) ==
    GetEngraveTypeFactor(c, j.engraveType)
        \otimes (One \oplus GetUVPremiumFactor(c, j.tech))

\* Cost and margin.  With two machines each has its margin, and the factors of
\* the engraving do not raise the cut.
HybridPrice(c, j, g, time) ==
    LET costEngrave == (time.engrave \otimes GetCostPerMin(c, j.tech, "engrave"))
                           \oplus CostMaterial(c, j, g)
        costCut == time.cut \otimes GetCostPerMin(c, CutTech(j), "cut")
        margin == One \oplus GetMarginPercent(c, j.tech)
        marginCut == One \oplus GetMarginPercent(c, j.cutTech)
        premium == margin \otimes Premium(c, j)
    IN IF OtherMachine(j)
       THEN (costEngrave \otimes premium) \oplus (costCut \otimes marginCut)
       ELSE (costEngrave \oplus costCut) \otimes premium

HasEngrave(g) == Positive(g.raster) \/ Positive(g.vector)
OnlyCut(g) == ~HasEngrave(g) /\ Positive(g.cut)

\* Mutant: an engraving under the minimum counts as none.
WorkAreaOrDrawing(c, g) ==
    LET engraved == g.raster \oplus (g.vector \oslash Whole(2))
        least == Setting(c, "min_area_mm2")
    IN IF least \preceq engraved THEN engraved ELSE Larger(g.area, least)

\* What is engraved, a line for half its length; failing that, what is occupied.
WorkArea(c, g) ==
    LET engraved == g.raster \oplus (g.vector \oslash Whole(2))
    IN Larger(IF Positive(engraved) THEN engraved ELSE g.area,
              Setting(c, "min_area_mm2"))

\* The value of the work, by perimeter when it is only cut.
ValuePrice(c, j, g) ==
    LET work == IF OnlyCut(g) THEN g.cut \otimes Setting(c, "price_per_mm_cut")
                ELSE WorkArea(c, g) \otimes Setting(c, "price_per_mm2")
    IN Larger(Setting(c, "min_value_base"), work)
           \otimes GetMaterialFactor(c, j.material) \otimes Premium(c, j)

\* The two prices, discounted and with the setup, of one piece and of all, and
\* the larger, which is charged.
Calculate(c, j) ==
    LET g == Scaled(j)
        time == TimeEstimate(c, j, g)
        share == Complement(GetVolumeDiscount(c, j.quantity))
        setup == CostSetup(c, j)
        hybrid == (HybridPrice(c, j, g, time) \otimes share) \oplus setup
        value == (ValuePrice(c, j, g) \otimes share) \oplus setup
        hybridTotal == Hundredths(hybrid)
        valueTotal == Hundredths(value)
    IN [hybridTotal |-> hybridTotal,
        hybridUnit |-> Hundredths(hybrid \oslash Whole(j.quantity)),
        valueTotal |-> valueTotal,
        valueUnit |-> Hundredths(value \oslash Whole(j.quantity)),
        final |-> Larger(hybridTotal, valueTotal),
        model |-> IF valueTotal \preceq hybridTotal THEN "hybrid" ELSE "value",
        detail |-> IF OnlyCut(g) THEN "perimeter" ELSE "area",
        time |-> time]

\* A drawing that occupies no area, as a straight line, is simple.  The roots
\* are exact, where the code stops after ten steps of Newton's from half the
\* area: that of a square metre is 3% too long.
ComplexityFactor(a) ==
    IF ~Positive(a.area) THEN Zero
    ELSE (a.cut \oplus a.vector \oplus (Root(a.raster) \oslash Whole(10))) \oslash Root(a.area)

Status(c, a) ==
    LET factor == ComplexityFactor(a)
    IN IF factor \preceq Setting(c, "complexity_auto_approve") THEN "auto_approved"
       ELSE IF factor \preceq Setting(c, "complexity_needs_review") THEN "needs_review"
       ELSE "rejected"

-----------------------------------------------------------------------------
\* The requests.

AtLeastOne(quantity) == IF quantity < 1 THEN 1 ELSE quantity

\* A rectangle stands for the drawing: its edge is cut, and engraved if the
\* engraving is vectorial; its area is engraved if it is of another type.
BuildSyntheticAnalysis(alto, ancho, incluyeCorte, type) ==
    LET perimeter == Whole(2 * (alto + ancho))
        area == Whole(alto * ancho)
    IN [cut |-> IF incluyeCorte THEN perimeter ELSE Zero,
        vector |-> IF type = Vectorial THEN perimeter ELSE Zero,
        raster |-> IF type > Vectorial THEN area ELSE Zero,
        area |-> area]

\* The job a request asks for, with the caller's defaults: one piece, of the
\* most common thickness, and engraved when it is not cut.  A cutting machine
\* numbered 0 is none for the assistant; the other two send a pointer to it,
\* and a machine without rates cuts for nothing (the database then refuses to
\* keep the portal's quote, 023_materials_cuttable.sql:11).
JobOf(r) ==
    IF r.channel = "portal" THEN [r.job EXCEPT !.quantity = AtLeastOne(@)]
    ELSE LET type == IF r.job.engraveType = NoEngraving /\ ~r.incluyeCorte
                     THEN Vectorial ELSE r.job.engraveType
         IN [r.job EXCEPT
                !.analysis = BuildSyntheticAnalysis(10 * r.alto, 10 * r.ancho,
                                                    r.incluyeCorte, type),
                !.engraveType = type,
                !.quantity = AtLeastOne(@),
                !.thickness = IF @ <= 0 THEN 3000 ELSE @,
                !.cutTech = IF r.channel = "assistant" /\ @ <= 0 THEN NoTech ELSE @,
                !.ignoreCut = @ /\ r.channel = "bot"]

Analysis == [cut : Fraction, vector : Fraction, raster : Fraction, area : Fraction]
Order == [analysis : Analysis, tech : Nat, material : Nat, engraveType : Nat,
          thickness : Int, quantity : Int, included : BOOLEAN,
          cutTech : Nat \cup {NoTech}, ignoreCut : BOOLEAN]

\* The portal sends an analysis, the other two measures, which nobody has checked.
ASSUME InquiriesAssumption == \A r \in Inquiries :
    \/ r \in [channel : {"portal"}, job : Order]
    \/ r \in [channel : {"bot", "assistant"}, job : Order,
              alto : Int, ancho : Int, incluyeCorte : BOOLEAN]

ASSUME ComparisonAssumption == Quantities \subseteq Nat /\ MoreWork \in Fraction

NoJob == <<>>
NoResult == <<>>

PricingInit ==
    /\ config \in Configs
    /\ request \in Inquiries
    /\ job = NoJob
    /\ result = NoResult
    /\ reply = [kind |-> "none"]
    /\ before = NoResult

Refuse(why) ==
    /\ reply' = [kind |-> why]
    /\ UNCHANGED <<config, request, job, result, before>>

Accept(asked) ==
    /\ job' = asked
    /\ UNCHANGED <<config, request, result, reply, before>>

Asked(channel) == request.channel = channel /\ job = NoJob /\ reply.kind = "none"

\* The portal: the engraving machine is checked against the material first.
CalculatePrice ==
    /\ Asked("portal")
    /\ LET asked == JobOf(request)
       IN IF 0 \in {asked.tech, asked.material, asked.engraveType}
          THEN Refuse("missing_fields")
          ELSE IF ~IsCompatible(config, asked.tech, asked.material, asked.thickness)
          THEN Refuse("incompatible")
          ELSE Accept(asked)

\* An estimate, of which nothing is checked but the measures, up to a metre.
Estimate ==
    LET asked == JobOf(request)
    IN IF ~({request.alto, request.ancho} \subseteq 1 .. 100) THEN Refuse("measures")
       ELSE IF 0 \in {asked.tech, asked.material} THEN Refuse("missing_fields")
       ELSE Accept(asked)

HandleEstimate == Asked("bot") /\ Estimate
ExecCalcularCotizacion == Asked("assistant") /\ Estimate

\* The quote that is saved: the price and everything it was made of.
ToQuoteModel(price, status) == [kind |-> "quote", price |-> price, status |-> status]

\* A reference price in whole colones.
Reference(price, status) ==
    [kind |-> "estimate", status |-> status,
     total |-> Nearest(price.final),
     unit |-> Nearest(price.final \oslash Whole(job.quantity))]

\* The price of the job, and the answer made of it.
Price ==
    /\ job /= NoJob
    /\ result = NoResult
    /\ result' = Calculate(config, job)
    /\ LET status == Status(config, job.analysis)
       IN reply' = IF request.channel = "portal" THEN ToQuoteModel(result', status)
                   ELSE Reference(result', status)
    /\ UNCHANGED <<config, request, job, before>>

\* Orders to compare an order with: more pieces of it, or more work on each.
Beside(j) ==
    {[j EXCEPT !.quantity = q] : q \in {n \in Quantities : n > j.quantity}}
        \cup {[j EXCEPT !.analysis[part] = @ \oplus MoreWork] :
                  part \in {"cut", "vector", "raster"}}

\* A second order under the same configuration.
OrderAgain ==
    /\ result /= NoResult
    /\ before = NoResult
    /\ before' = [job |-> job, price |-> result]
    /\ job' \in Beside(job)
    /\ result' = NoResult
    /\ reply' = [kind |-> "none"]
    /\ UNCHANGED <<config, request>>

PricingNext ==
    \/ CalculatePrice \/ HandleEstimate \/ ExecCalcularCotizacion
    \/ Price
    \/ OrderAgain

PricingSpec == PricingInit /\ [][PricingNext]_pricingVars

-----------------------------------------------------------------------------
\* Properties, of the order that was priced and of the one before it.

Priced == result /= NoResult
Compared == Priced /\ before /= NoResult
UnitPrice(price) == Larger(price.hybridUnit, price.valueUnit)

\* Brackets that adjoin, the last of them open, with discounts that grow.
Graduated(brackets) ==
    \A i \in DOMAIN brackets :
        /\ \A k \in DOMAIN brackets : i < k => brackets[i].pct \preceq brackets[k].pct
        /\ \/ brackets[i].maxQty = NoMax
           \/ \E k \in DOMAIN brackets :
                i < k /\ brackets[k].minQty <= brackets[i].maxQty + 1

\* Of a larger order no piece is dearer: setup, minimum value and minimum area
\* are spread, and no bracket of discounts is missed (calculator.go:106-305,
\* config_loader.go:174), where the table has no gaps.
UnitPriceNeverRises ==
    Compared /\ Graduated(config.volumeDiscounts) /\ job.quantity > before.job.quantity
        => UnitPrice(result) \preceq UnitPrice(before.price)

Kind(g) == IF HasEngrave(g) THEN "engraved" ELSE IF OnlyCut(g) THEN "cut" ELSE "nothing"

\* A longer cut, a longer line or a larger area never makes an order cheaper,
\* as long as it stays an order of its kind, which decides what its value is
\* measured by (calculator.go:260-305).
MoreWorkCostsMore ==
    (/\ Compared
     /\ job.quantity = before.job.quantity
     /\ Kind(Scaled(job)) = Kind(Scaled(before.job)))
        => before.price.final \preceq result.final

\* "PriceFinal = MAX(Hybrid, Value) -- proteccion de piso" (calculator.go:308):
\* whatever is added to a drawing, though it changes what the value is measured
\* by, is charged no less than machine, material and setup without it.
PriceFloor ==
    Compared /\ job.quantity = before.job.quantity
        => before.price.hybridTotal \preceq result.final

=============================================================================
