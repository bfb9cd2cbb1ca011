CONSTANT Urls <- ScanUrls
SPECIFICATION Spec
INVARIANTS  PartsInOrder RfcAgreement
PROPERTIES AuthorityFrozen FirstDelimiterWins
CHECK_DEADLOCK FALSE
