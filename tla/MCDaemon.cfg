SPECIFICATION FairSpec
CONSTANTS
    c1 = c1
    c2 = c2
    t1 = t1
    t2 = t2
    Conns = {c1, c2}
    Tenants = {t1, t2}
    BytesOf <- MCBytes
    QuantaOf <- MCQuanta
    Settings <- MCSettings
INVARIANTS
    PermitsConserved
    AnsweredOnce
    ExitsEmpty
PROPERTIES
    EverythingEnds
