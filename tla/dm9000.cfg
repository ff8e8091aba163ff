CONSTANTS
  CONT_RX_PKT_CNT = 2
  RxRoom = 1
  IsC = FALSE
SPECIFICATION FairSpec
INVARIANT TypeOK
INVARIANT CopiesToMWCMD
INVARIANT MaskLifted
INVARIANT ClosedChipMasked
INVARIANT CountTracksChip
INVARIANT StoppedHasCompletion
PROPERTY RxServed
