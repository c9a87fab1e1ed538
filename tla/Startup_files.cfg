SPECIFICATION Spec
CONSTANTS
    CommandLines <- MCCommandLines
    ConfigFiles <- MCConfigFiles
    SecretFiles <- MCSecretFiles
    None = None
INVARIANTS
    ValuesFallBack
    StartsIffComplete
CHECK_DEADLOCK FALSE
