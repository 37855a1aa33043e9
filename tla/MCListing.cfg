CONSTANTS
    Reviews <- MCReviews
    Field <- MCField
    RatingFilters <- MCRatingFilters
    SortColumns = {"date", "rating", "content"}
    Pages = {0, 1, 2, 7}
    Limits = {0, 2, 5}
    MaxLimit = 3
    Width = 4
SPECIFICATION Spec
INVARIANTS TypeOK WalkMissesNothing PageAsAnnounced
