CONSTANTS
    Names <- SomeNames
    Inputs <- AllInputs
    V1 <- BeginWithV1
    Gvrs <- AllGvrs
SPECIFICATION Spec
CHECK_DEADLOCK FALSE
INVARIANT TypeOK
INVARIANT OnlyV1GroupsAreMisread
