-------------------------- MODULE MC_WriteAheadLog --------------------------
EXTENDS WriteAheadLog

CONSTANTS d1, d2

PagesOne == {1}
PagesTwo == {1, 2}
ImagesTwo == {d1, d2}

=============================================================================
