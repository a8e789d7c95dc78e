---------------------------- MODULE MC_TreePins -----------------------------
EXTENDS TreePins

CONSTANTS a

FramesOne == {0}
FramesTwo == {0, 1}
PagesFour == {1, 2, 3, 4}
DataOne == {a}

=============================================================================
