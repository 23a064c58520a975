SPECIFICATION Spec
CONSTANTS
  BufferLength = 14
  Data <- SmallData
  StaleBytes = {0, 5}
INVARIANTS TypeOK Layout
PROPERTY FifoSpec
