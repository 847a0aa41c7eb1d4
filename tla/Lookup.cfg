SPECIFICATION Spec
CONSTANTS
  c1 = c1  c2 = c2
  Certs = {c1, c2}
  Unreadable = Unreadable
  Empty = Empty
  Broken = Broken
  None = None
  EidasTexts <- MCEidasTexts
  Csvs <- MCCsvs
  Chains <- MCChains
INVARIANT TypeOK
INVARIANT CsvAllOrNothing
INVARIANT StoredAsPublished
INVARIANT FoundIsPublished
INVARIANT ClearedIsFound
INVARIANT PemIsNotFound
INVARIANT ChainIsSplit
