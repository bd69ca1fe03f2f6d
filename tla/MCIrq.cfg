SPECIFICATION FairIrqSpec
CONSTANTS
  WORD = 3
  Wire = {0, 1, 3, 8, 12}
  InLine = {0, 1, 2, 8, 16, 39}
INVARIANTS IrqTypeOK InServiceMatched MaskAsAsked NoneLost KeyPending
PROPERTY Served
