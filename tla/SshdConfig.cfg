SPECIFICATION Spec
CONSTANTS
    Dropins = {1, 2, 3}
    Ours = 2
    DropinPathVar = Unset
    Unset = Unset
    MaxLines = 3
INVARIANTS
    PlainConfigTakesEffect
    FindIsEffective
PROPERTY InstallOnlyManages
