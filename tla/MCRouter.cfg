\* Every method, path and header combination, in and outside TEST, from any
\* caller and from every SDK wrapper under every client configuration.
CONSTANTS
    Users <- MCUsers
SPECIFICATION GatewaySpec
INVARIANT RejectedNeverHandled
INVARIANT HandledAsUser
INVARIANT SDKCallServed
