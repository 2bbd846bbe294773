CONSTANTS
    None = None
    Infinity = 1000
    ModelIds <- MCModels
    Facts <- MCFacts
    Results <- MCResults
    Benchmarks = {"b1", "b2"}
    Bodies <- MCBodies
    Navigations <- MCNavigations
    Catalogues <- MCCatalogues
    Prices <- MCPrices
    Orders <- MCOrders
    Filters <- MCFilters
    PageSizes = {1, 2}
    Boards <- MCBoards
    FeaturedLimit = 2
    RelatedLimit = 2
    RankingCap = 3
    ActivityLimit = 3
    MaxCharge = 100
    MaxChanges = 2
SPECIFICATION PagesSpec
INVARIANTS WalkIsOneListing PagesShowWhatWasChosen WinnersAreShown BoardIsRanking
