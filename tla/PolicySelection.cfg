SPECIFICATION Spec
CONSTANT Values <- ThresholdValues
INVARIANTS NoOscillation StarvationIsAnswered
PROPERTY StarvationRulesOutFCFS
