SPECIFICATION Spec
CONSTANTS
    a1 = a1
    a2 = a2
    n1 = n1
    n2 = n2
    Agent = {a1, a2}
    Name = {n1}
    Infra = {}
    Owner = {o1, o2}
    Marks <- MCMarks
    Templates <- MCTemplates
    Choices <- MCChoices
    Estates <- MCEstates
    Legacies <- MCLegacies
    MaxWrites = 1
    MaxRevision = 2
    None = None
SYMMETRY Symmetry
INVARIANTS
    ConflictMeansDrift
PROPERTIES
    AllOrNothing
    BindsWhatIsCurrent
    NeverWidens
    TakesEffectOnce
