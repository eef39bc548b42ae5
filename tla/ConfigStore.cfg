SPECIFICATION ConfigSpec
CONSTANTS
  Byte <- MCByte
  Erased = 255
  MacBytes = 2
  SecretBytes = 1
  WordBytes = 2
  FallbackMac <- MCFallback
  Default <- MCDefault
  Settings <- MCSettings
  Programmed <- MCProgrammed
INVARIANT ConfigTypeOK
INVARIANT SavedBootsBack
INVARIANT DhcpSaveIsAtomic
INVARIANT NoHalfAddress
INVARIANT IdentityKept
