CONSTANTS
  ValidLabels <- Ascii
  IPv4Host = "4.ip.omsab.net"
  IPv6Host = "6.ip.omsab.net"
  APIHost = "api.cloudflare.com"
  LoopbackHosts <- MCLoopback
  WorkingDir <- MCWorkingDir
  CredentialsDir <- MCCredentialsDir
  Setups <- MCSetups
  BaseFs <- GoodFs
  BaseInodes <- GoodInodes
  Inodes <- MCInodes
  Tokens <- MCTokens
  OtherContents <- MCOtherContents
  OtherFile <- MCOtherFile
  OtherDir <- MCOtherDir
SPECIFICATION Spec
INVARIANTS TypeOK ConfigIsSound TokenPathMeans ChecksAgree TokenWasPrivate
CHECK_DEADLOCK FALSE
