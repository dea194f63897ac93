CONSTANT Opener = {o1, o2, o3}
SPECIFICATION OWSpec
INVARIANT CreateOpenSucceeds
