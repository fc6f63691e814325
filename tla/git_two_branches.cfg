SPECIFICATION Spec
CONSTANTS
    a = a
    b = b
    sp = sp
    repo = repo
    f1 = f1
    f2 = f2
    master = master
    devel = devel
    old = old
    new = new
    Nothing = Nothing
    EmptyFile = EmptyFile
    Sources = {a, b, sp}
    Repos = {repo}
    Repo <- MCRepo
    Branch <- MCTwoBranch
    Sparse = {sp}
    Names = {old, new}
    Files <- MCFiles
    Refreshers = {f1, f2}
    MaxCommits = 1
    RemoteMayFail = FALSE
INVARIANT UndisturbedSucceeds
