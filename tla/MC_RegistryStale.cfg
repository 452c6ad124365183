CONSTANTS
    Threads = {t1}
    Coordinators = {c1, c2}
    NCpus = 2
    ShardBound = 2
    Domains = {d0, d1, e1}
    InitDomain = d0
    DomainIdOf <- MCDomainIdOf
    EmptyId = 9
    CallerId <- MCCallerId
    InitOutcomes = {"ok"}
    NoOne = NoOne
    NoDomain = NoDomain
    NoBlock = NoBlock
    MayPanic = FALSE
    t1 = t1
    t2 = t2
    c1 = c1
    c2 = c2
    d0 = d0
    d1 = d1
    e1 = e1
SPECIFICATION Spec
INVARIANT RegistryTracksProxy
