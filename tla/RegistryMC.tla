----------------------------- MODULE RegistryMC -----------------------------
EXTENDS Registry

CONSTANTS server, p1, c1, c2, box, offline, host, join

\* The host has a character of its own.
MCOwner == c1 :> p1 @@ c2 :> server
MCKind == offline :> "NONETWORK" @@ host :> "SERVER" @@ join :> "CLIENT"
MCMe == offline :> server @@ host :> server @@ join :> p1
\* The server gave c1 an id, dropped it and registered it again.
MCServerIds == offline :> <<>> @@ host :> <<>> @@ join :> <<c1, box, c1>>
=============================================================================
