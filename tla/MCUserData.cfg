SPECIFICATION Spec
CONSTANTS
    Phone = {d1, d2}
    Picture = {p1}
    NoPhone = NoPhone
    NoPicture = NoPicture
    Frames <- BothFrames
    MaxId = 2
    MaxRequests = 3
    MaxAttempts = 2
    MaxWire = 2
SYMMETRY Phones
INVARIANTS OwnPictures PushToOwnPhone
CHECK_DEADLOCK FALSE
