CONSTANTS
    Mentioned = {"port", "thread_pool_size"}
    Numbers = {0, 5}
    Malformed = malformed
    Absent = absent
    Default = 2
    PortModulus = 4
    SizeModulus = 8
    MaxPool = 4
SPECIFICATION ConfigSpec
INVARIANT
    PortIsChecked
