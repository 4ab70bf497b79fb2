SPECIFICATION Spec
CONSTANTS
    Unparsable = Unparsable
    StoI <- MCStoI
    Configs <- MCConfigs
    Failures <- MCAllFailures
PROPERTIES
    RisesOnVerifiedFrequency
    ImplementsBuzzer
