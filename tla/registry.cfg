SPECIFICATION FairSpec
CONSTANTS
    c1 = c1
    c2 = c2
    c3 = c3
    o1 = o1
    o2 = o2
    t1 = t1
    t2 = t2
    Companies = {c1, c2, c3}
    Orgs = {o1, o2}
    TaxIds = {t1, t2}
    OrgOf <- MCOrgOf
    TaxIdOf <- MCTaxIdOf
    Limit <- MCLimit
    Before <- MCBefore
    Series = {1}
    Forms <- MCForms
    Saves = {s1, s2}
    Sweepers = {w1}
    MaxPuts = 3
    MaxMarks <- MCMaxMarks
    Late = {c1}
    Nobody = Nobody
INVARIANT TypeOK
INVARIANT ClaimsCoverConfig
INVARIANT SeriesUnique
INVARIANT EnabledWithinLimit
INVARIANT LevelRecorded
PROPERTY LevelArrives
CHECK_DEADLOCK FALSE
