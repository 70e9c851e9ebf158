SPECIFICATION Spec
CONSTANTS
  None = None
  Attempt = {p1, p2, p3, p4}
  NaturalKey = {checking, savings, funding, settlement}
  SystemPurpose = {funding, settlement}
  Seeded = {funding}
INVARIANTS TypeOK OneAccountPerKey AnswersAgree
PROPERTIES RetryFindsIt
