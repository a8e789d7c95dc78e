--------------------------- MODULE MC_BufferPool ----------------------------
EXTENDS BufferPool

CONSTANTS a

FramesOne == {0}
FramesTwo == {0, 1}
PagesThree == {1, 2, 3}
DataOne == {a}

=============================================================================
