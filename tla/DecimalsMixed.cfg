SPECIFICATION Spec
CONSTANT Sample <- MixedSample
INVARIANT CompareIsValueOrder
