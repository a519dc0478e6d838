------------------------- MODULE MCCallGraphSearch -------------------------
EXTENDS CallGraphSearch

CONSTANTS f, g, h,
          Matches     \* the sets of functions the expression may match

Case == INSTANCE CallGraphCases

MCFunc == Case!MCFunc
MCQueries == Case!MCQueries
=============================================================================
