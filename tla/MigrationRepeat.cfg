SPECIFICATION Spec
CONSTANTS
    a1 = a1
    a2 = a2
    n1 = n1
    n2 = n2
    Agent = {a1}
    Name = {n1, n2}
    Infra = {n2}
    Owner = {o1}
    Marks <- InfraMarks
    Templates <- MCTemplates
    Choices <- MCChoices
    Estates <- MCEstates
    Legacies <- MCLegacies
    MaxWrites = 0
    MaxRevision = 2
    None = None
INVARIANTS
    RepeatIsANoOp
