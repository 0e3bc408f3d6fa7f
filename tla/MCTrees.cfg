CONSTANTS
    Dirs = {"d"}
    Files = {"f", "g"}
    Links = {"inside", "outside"}
    Specials = {"fifo"}
    Root = "root"
    Parent <- Tree
    Intra = {"inside"}
SPECIFICATION Spec
INVARIANTS
    NothingLost
    OkMeansDone
