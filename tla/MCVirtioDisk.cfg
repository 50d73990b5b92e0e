CONSTANTS
  Thread = {t1, t2, t3}
  Watched = t1
  Data <- MCData
  NUM = 7
  UINT16 = 14
  Nobody = Nobody
SPECIFICATION Spec
INVARIANTS ChainIntact TransferDone DescriptorsAccounted CompletionSeen
SYMMETRY Perms
