SPECIFICATION Spec
CONSTANTS
  Width = 3
  Unset = Unset
  Fuel = 40
  Sources <- SourcesValue
  Inputs <- InputsValue
INVARIANTS
  MeaningIsKept
  IrStaysValid
PROPERTIES
  PassesEnd
