CONSTANTS
    Owner = {"mdc1", "mdc2"}
    NilOnError = FALSE
SPECIFICATION RPCSpec
INVARIANT OutcomePreserved
