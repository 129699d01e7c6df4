\* Two passes with loops, one without, one of the kernel.
CONSTANTS
  Passes <- MCPasses
  Outputs <- MCOutputs
  KernelTimes = {1, 4}
  CpuCount = 2
  Scale = 2
  None = None
  Text = Text
SPECIFICATION Spec
INVARIANTS AveragesOfReports CostIsDifference OverheadOfOne
