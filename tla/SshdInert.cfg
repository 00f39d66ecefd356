SPECIFICATION Spec
CONSTANTS
    Dropins = {1, 2, 3}
    Ours = 2
    DropinPathVar = Unset
    Unset = Unset
    MaxLines = 2
INVARIANT InertNotAccepted
