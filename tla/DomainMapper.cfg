CONSTANTS
    d1 = d1
    d2 = d2
    i1 = i1
    i2 = i2
    Domains = {d1, d2, d3}
    Ips = {i1, i2}
    Configs <- MCConfigs
    NoDomain = NoDomain
SPECIFICATION DMSpec
INVARIANTS
    MappingsAgree

