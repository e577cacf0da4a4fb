\* Two threads load files that are on no cycle: is one ever reported?
SPECIFICATION LoaderSpec
CONSTANTS
    p = p
    q = q
    r = r
    s = s
    Nobody = Nobody
    Files = {p, q, r, s}
    Threads = {t1, t2}
    Loads <- DagLoads
INVARIANTS
    NoFalseCycle
