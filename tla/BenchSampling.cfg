\* Up to as many aggregators as the user interface lets one configure.
SPECIFICATION Spec
CONSTANT MaxAggregators = 50
CHECK_DEADLOCK FALSE
INVARIANT WeightsDecay
