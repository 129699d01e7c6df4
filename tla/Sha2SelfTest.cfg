SPECIFICATION ProcessSpec
CONSTANTS
  Plus <- Sum
  S0 <- Sigma0
  S1 <- Sigma1
  S2 <- Sigma2
  S3 <- Sigma3
  F0 <- Majority
  F1 <- Choice
  K <- RoundConstant
  Get <- GetWord
  Initial <- InitialWord
  Inputs <- Tests
INVARIANT SelfTestPasses
PROPERTY ImplementsFips
