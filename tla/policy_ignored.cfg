SPECIFICATION Spec
CONSTANTS
    ctrl = ctrl
    alt = alt
    x = x
    left = left
    F9 = F9
    F10 = F10
    Ctrl = {ctrl}
    Alt = {alt}
    Plain = {x}
    Buttons = {left}
    Keyboard = {ctrl, alt, x, F9}
INVARIANTS IgnoredUntilReleased
