CONSTANTS
    s1 = s1
    m1 = m1
    Slug = {s1, s2}
    Card = {r1, m1}
    MockCard = {m1}
    SeedSlug = {s1}
    SeedCard <- SeedCards
    SeedPrice <- SeedPrices
    MockCost <- MockCosts
    Price = {10, 11}
    Cost = {19, 20}
    Scale = 2
    Margins = {0, 500}
    Task = {t1, t2}
    None = None
SYMMETRY Symmetry
SPECIFICATION Spec
INVARIANTS OrderedAtMargin IInv
PROPERTIES PauseHasCause
