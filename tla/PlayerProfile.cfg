\* Two players, three files and two overlapping requests; two faults.
SPECIFICATION Spec
CONSTANTS
    ana = ana
    bob = bob
    f1 = f1
    f2 = f2
    f3 = f3
    q1 = q1
    q2 = q2
    Players = {ana, bob}
    Kinds = {avatar, banner}
    Files = {f1, f2, f3}
    Requests = {q1, q2}
    CustomSlugs = {anna}
    Reserved = {admin}
    Images <- SentImages
    External = External
    MaxFaults = 2
    NoFile = NoFile
    Unchanged = Unchanged
SYMMETRY Symmetry
INVARIANTS
    ShownPicturesServe
    LeftoversExplained
    PublicPageFound
    FirstVisitSucceeds
