--------------------------- MODULE ClientRegistry ---------------------------
(***************************************************************************)
(* The per-client OAuth configuration, internal/clients/config.go.  It is  *)
(* read from the environment before the server starts and never changes    *)
(* afterwards, so it is a constant: a map from the configured client ids   *)
(* to their configuration.                                                 *)
(***************************************************************************)
CONSTANTS
    Clients,    \* non-empty client ids
    NoClient,   \* the empty client_id
    URIs,       \* redirect URIs, records with fields site, slash, query
    Scopes,     \* the words of a scope parameter
    Secrets,    \* non-empty client secrets
    NoSecret,   \* the empty client_secret
    Registry,   \* Registry.clients
    RequireSecretForCodes

ClientIDs == Clients \cup {NoClient}

ClientConfig ==
    [ClientSecret : Secrets \cup {NoSecret},
     RedirectURIs : SUBSET URIs,
     AllowedScopes : SUBSET Scopes]

ASSUME RegistryAssumption ==
    /\ NoClient \notin Clients
    /\ NoSecret \notin Secrets
    /\ DOMAIN Registry \subseteq ClientIDs
    /\ \A id \in DOMAIN Registry : Registry[id] \in ClientConfig
    /\ RequireSecretForCodes \in BOOLEAN

\* Get(clientID) != nil
Configured(id) == id \in DOMAIN Registry

IsConfidential(id) == Configured(id) /\ Registry[id].ClientSecret # NoSecret

ValidateSecret(id, secret) ==
    IsConfidential(id) => secret = Registry[id].ClientSecret

\* An unconfigured client, and one without URIs, may use any URI.
ValidateRedirectURI(id, uri) ==
    Configured(id) /\ Registry[id].RedirectURIs # {}
        => uri \in Registry[id].RedirectURIs

ValidateScope(id, scope) ==
    Configured(id) /\ Registry[id].AllowedScopes # {}
        => scope \subseteq Registry[id].AllowedScopes

\* normalizeURI in internal/handlers: one trailing slash and the query go.
normalizeURI(uri) == [uri EXCEPT !.slash = FALSE, !.query = FALSE]
=============================================================================
