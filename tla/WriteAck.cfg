CONSTANTS
  Shapes <- MCShapes
  WCs <- MCWCs
  MaxWrites = 2
  MaxGles = 3
SPECIFICATION Spec
INVARIANT TypeOK
PROPERTY AckCurrent
