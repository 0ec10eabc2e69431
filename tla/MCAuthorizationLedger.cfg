SPECIFICATION Spec
CONSTANTS
  Processes = {p1, p2, p3}
  Approvals = {a1, a2}
  Payloads = {m1, m2}
  NoPayload = NoPayload
  Nobody = Nobody
SYMMETRY Symmetry
INVARIANTS
  SingleUse
  DecisionsAreDurable
PROPERTIES
  GrantNumbersIncrease
  ImplementsFounderAuthority
