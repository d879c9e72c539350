SPECIFICATION LinkSpec
CONSTANTS
  Machines = {0, 1}
  MaxFaults = 3
INVARIANTS Exclusive RendererTransaction OptionsAgree LinkOwner
