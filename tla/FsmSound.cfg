SPECIFICATION Spec
CONSTANTS
    root = root
    branch = branch
    twig = twig
    other = other
    None = None
    Insts = {root, branch, twig, other}
    Programs <- Sound
INVARIANTS NoUseAfterFree FreedAreFinished TreeConsistent CascadeCompletes
PROPERTY TerminationEnds
