\* Three configurations of the shop, orders from the three channels.
SPECIFICATION PricingSpec
CONSTANTS
    Configs <- ThreeShops
    Inquiries <- AllInquiries
    Quantities <- SomeQuantities
    MoreWork <- Longer
INVARIANTS
    UnitPriceNeverRises
    MoreWorkCostsMore
    PriceFloor
\* Every request has one answer.
CHECK_DEADLOCK FALSE
