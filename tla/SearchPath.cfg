SPECIFICATION PathSpec
CONSTANTS
    here = here
    cwd = cwd
    env = env
    d1 = d1
    d2 = d2
    long = long
    NULL = NULL
    Dir <- MCDir
    Long = {long}
    Parent = here
    Cwd = cwd
    LinkEnv <- MCLinkEnv
    Path <- MCPath
    MaxPaths = 3
PROPERTIES AddKeepsLinks DeleteKeepsOtherLinks
