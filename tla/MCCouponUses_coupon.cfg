SPECIFICATION Spec
CONSTANTS
    ana = ana
    ben = ben
    b1 = b1
    b2 = b2
    b3 = b3
    Bookings = {b1, b2, b3}
    Customers = {ana, ben}
    Owner <- OwnerOf
    Calls = {r1, r2}
    Coupons <- Kinds
    MaxKills = 1
    NoBooking = NoBooking
INVARIANTS
    LimitsKept
    UsesFollowBookings
CONSTRAINT OneDisturbed
SYMMETRY Symmetry
CHECK_DEADLOCK FALSE
