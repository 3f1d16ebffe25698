\* Archives of up to two sections and a manifest, signed or not, version 2
\* packages and bare programs; one fault, and loads until two manifests are
\* listed.
SPECIFICATION Spec
CONSTANTS
    Block = 4
    IntBits = 4
    MaxId = 3
    ConstantValue <- MCConstantValue
    Nesting <- MCNesting
    Pushable <- MCPushable
    MaxSections = 2
    Keys = {"key"}
    Packaged <- MCPackages
    Programs <- MCPrograms
    ResourceId = {1, 2}
    MaxLoads = 2
INVARIANTS WrittenIsRead DamageIsNoticed DigestsVouch OnlyWrittenIsLoaded UsedIsRegistered
CHECK_DEADLOCK FALSE
