\* Three clicks on a page with at most two requests under way, none of them lost: does the
\* bulletin board come to be that of the selected election?
SPECIFICATION Spec
CONSTANTS
    None = None
    MaxMoves = 3
    MaxCalls = 2
    MaxLosses = 0
PROPERTIES
    BoardSettles
