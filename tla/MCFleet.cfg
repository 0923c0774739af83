SPECIFICATION Spec
CONSTANTS
    LowerCase <- LowerCaseOf
    DefaultLayer <- Default
    EnvironmentLayers <- Environments
    Instances = {"a", "b"}
    Environ <- EnvironOf
    Content <- ContentOf
    Inputs <- InputsOf
    Files <- FilesOf
    Items = {"x"}
    Plain <- PlainSymbols
INVARIANT OwnListKept
PROPERTY Precedence
