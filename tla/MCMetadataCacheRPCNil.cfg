CONSTANTS
    Owner = {"mdc1", "mdc2"}
    NilOnError = TRUE
SPECIFICATION RPCSpec
INVARIANT OutcomePreserved
