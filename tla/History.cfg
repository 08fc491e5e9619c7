SPECIFICATION Spec
CONSTANTS
    MaxAge = 4
    MaxLen = 4
    MaxTime = 11
INVARIANTS TypeOK LookupExact WindowKept Bounded
