------------------------------ MODULE MCPricing ------------------------------
(***************************************************************************)
(* Small instances of Pricing: two technologies, two materials, three      *)
(* configurations of the shop and the orders that reach every branch.      *)
(***************************************************************************)
EXTENDS Pricing, TLC

CO2 == 1
UV == 2
NoSuch == 0
Wood == 1
Metal == 2
Raster == 2

Rates(engrave, cut, setup, margin, monthly) ==
    [engrave |-> Whole(engrave), cut |-> Whole(cut), setupFee |-> Whole(setup),
     margin |-> margin, monthly |-> Whole(monthly)]

Speed(tech, material, thickness, cut, engrave, raster, compatible) ==
    [tech |-> tech, material |-> material, thickness |-> thickness,
     cut |-> Whole(cut), engrave |-> Whole(engrave), raster |-> Whole(raster),
     compatible |-> compatible]

Tier(min, max, pct) == [minQty |-> min, maxQty |-> max, pct |-> pct]

\* Everything is configured; wood of 6 mm and metal are not for the CO2 laser.
Calibrated ==
    [technologies |-> CO2 :> [spot |-> Frac(1, 10), uv |-> Zero]
                      @@ UV :> [spot |-> Frac(1, 50), uv |-> Frac(1, 4)],
     techRates |-> CO2 :> Rates(60, 120, 5, Frac(1, 2), 7200)
                   @@ UV :> Rates(120, 60, 3, Frac(1, 4), 0),
     materials |-> Wood :> [factor |-> One] @@ Metal :> [factor |-> Frac(3, 2)],
     engraveTypes |-> Vectorial :> [factor |-> One, speed |-> One]
                      @@ Raster :> [factor |-> Frac(3, 2), speed |-> Frac(1, 2)],
     volumeDiscounts |-> <<Tier(1, 1, Zero), Tier(2, 4, Frac(1, 20)),
                           Tier(5, NoMax, Frac(1, 10))>>,
     system |-> [overhead_alquiler |-> Whole(7200), min_value_base |-> Whole(40),
                 price_per_mm2 |-> Frac(1, 2), min_area_mm2 |-> Whole(50)],
     techMaterialSpeeds |->
        <<Speed(CO2, Wood, 3000, 30, 600, 0, TRUE),
          Speed(CO2, Wood, 6000, 0, 0, 0, FALSE),
          Speed(UV, Wood, 0, 0, 600, 500, TRUE),
          Speed(CO2, Metal, 0, 0, 0, 0, FALSE)>>,
     materialCosts |-> <<[material |-> Wood, thickness |-> 3000,
                          perMm2 |-> Frac(1, 10), waste |-> Frac(1, 5)]>>]

\* Nothing is calibrated: every speed, fee and factor is a default.
Bare ==
    [technologies |-> <<>>, techRates |-> <<>>, materials |-> <<>>,
     engraveTypes |-> <<>>, volumeDiscounts |-> <<>>, system |-> <<>>,
     techMaterialSpeeds |-> <<>>, materialCosts |-> <<>>]

\* No base speed for areas, a price without minimum, a technology withdrawn.
Legacy ==
    [Calibrated EXCEPT
        !.techRates = CO2 :> Rates(60, 120, 5, Frac(1, 2), 0),
        !.volumeDiscounts = <<>>,
        !.system = [base_engrave_area_speed |-> Zero, min_value_base |-> Zero,
                    min_area_mm2 |-> Zero, horas_trabajo_mes |-> Zero,
                    price_per_mm_cut |-> One],
        !.materialCosts = <<[material |-> Wood, thickness |-> 0,
                             perMm2 |-> Frac(1, 100), waste |-> Zero]>>]

ThreeShops == {Calibrated, Bare, Legacy}

Drawing(cut, vector, raster, area) ==
    [cut |-> Whole(cut), vector |-> Whole(vector), raster |-> Whole(raster),
     area |-> Whole(area)]

NoDrawing == Drawing(0, 0, 0, 0)

\* A cut, a line of no area, an engraving of each kind, all of them at once.
Drawings == {Drawing(40, 0, 0, 100), Drawing(300, 0, 0, 0), Drawing(0, 60, 0, 400),
             Drawing(0, 0, 64, 400), Drawing(120, 60, 400, 400)}

Orders(drawings, types, quantities, thicknesses) ==
    [analysis : drawings, tech : {CO2, UV}, material : {Wood, Metal},
     engraveType : types, thickness : thicknesses, quantity : quantities,
     included : BOOLEAN, cutTech : {NoTech, NoSuch, CO2, UV}, ignoreCut : BOOLEAN]

FromPortal ==
    [channel : {"portal"},
     job : Orders(Drawings, {NoEngraving, Vectorial, Raster}, {0, 4}, {0, 3000, 6000})]

FromChat ==
    [channel : {"bot", "assistant"}, alto : {0, 1}, ancho : {4, 101},
     incluyeCorte : BOOLEAN,
     job : Orders({NoDrawing}, {NoEngraving, Vectorial, Raster}, {0, 4}, {0, 6000})]

AllInquiries == FromPortal \cup FromChat
SomeQuantities == {2, 5}

\* Areas that have a root keep one: 0, 64 and 400 more by 225, or four times.
Longer == Whole(225)
=============================================================================
