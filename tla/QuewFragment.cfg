\* Programs of the fragment: what they compute is what they say.
SPECIFICATION Spec
CONSTANTS
  NoSlot = NoSlot
  Programs <- FragmentPrograms
  MaxIterations = 3
  MaxDepth = 4
INVARIANTS
  RunsWhatItSays
PROPERTIES
  RunEnds
