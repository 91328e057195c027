SPECIFICATION Spec
CONSTANTS
    Uploads = {i1, i2, i3}
    Kinds = {"asset", "version"}
    Sizes = {1, 2}
    Limit = 4
    i1 = i1
    i2 = i2
    i3 = i3

PROPERTY FallbackEnforcesTheLimit
