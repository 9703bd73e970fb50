\* The skew window of validateInternalRequest at the int64 edge.
CONSTANTS
    Width = 5
    MaxSkew = 3
    MaxNow = 2
    Services <- MCServices
    Ops <- MCOps
    SDKDrifts <- MCSDKDrifts
    RawTimestamps <- MCRawTimestamps
    UserIds <- MCUserIds
    PlatformIds <- MCPlatformIds
SPECIFICATION Spec
INVARIANT AcceptedWithinSkew
