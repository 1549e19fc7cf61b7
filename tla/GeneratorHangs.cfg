CONSTANTS
    a = a
    Alphabets <- OneAlphabet
    Lengths = {1, 257}
    ByteValues = 256
SPECIFICATION GenSpec
PROPERTY GenerationEnds
CHECK_DEADLOCK FALSE
