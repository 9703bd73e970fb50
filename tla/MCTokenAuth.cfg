\* JWTAuth over every header combination, token and configuration.
CONSTANTS
    u1 = u1
    u2 = u2
    Users <- MCUsers
    PlatformClaims = {2}
    ExtDefaultPlatformId = 5
    WebPlatformId = 5
SPECIFICATION Spec
INVARIANT TypeOK
INVARIANT AuthenticatedOnlyWithValidToken
