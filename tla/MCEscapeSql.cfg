\* Quotes at every place of short values, and buffers that end at every place.
CONSTANTS
  Bytes = {x, q}
  Quote = q
  Values <- ShortValues
  Sizes <- SmallSizes
SPECIFICATION Spec
INVARIANTS
  TerminatorFits
  ReadsBack
  ValuesThatFitAreWhole
\* The function returns.
CHECK_DEADLOCK FALSE
