\* The shortest way to a key that goes astray takes two keys: two slots do.
CONSTANTS
    MaxW = 2
    AnimTicks = 1
SPECIFICATION Spec
PROPERTIES
    KeysGoToFocus
