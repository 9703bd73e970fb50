\* Internal auth under replay, tampering and forgery, with every config.
CONSTANTS
    Width = 5
    MaxSkew = 3
    MaxNow = 2
    Services <- MCServices
    Ops <- MCOps
    SDKDrifts <- MCSDKDrifts
    RawTimestamps <- MCRawTimestamps
    UserIds <- MCUserIds
    PlatformIds <- MCPlatformIds
SPECIFICATION Spec
INVARIANT AcceptedOnlyAuthorized
