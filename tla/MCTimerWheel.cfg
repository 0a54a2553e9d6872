\* a wheel of 4 buckets, looked through twice a turn, started off an update
SPECIFICATION Spec
CONSTANTS
    c1 = c1
    c2 = c2
    Cookies = {c1, c2}
    BUCKET_MS = 2
    WHEEL_MS = 8
    UPDATE_INTERVAL = 4
    Start = 2
    MaxTime = 16
SYMMETRY CookieSymmetry
PROPERTY
    ImplementsWheelSpec
