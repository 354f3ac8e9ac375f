SPECIFICATION Spec
CONSTANT Clients = {c1, c2, c3}
INVARIANT ReadersNeverBlockEachOther
