INIT Init
NEXT Next
INVARIANTS LookupDenotesMember
