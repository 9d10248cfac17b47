SPECIFICATION Spec
CONSTANTS
    WordBits = 15
    FieldBits = 8
    Inputs <- MCInputs
    Authorities <- MCAuthorities
INVARIANTS TypeOK IndexInData ReadsWireFormat RoundTrip
PROPERTIES MovesOn
