------------------------------ MODULE HaproxyCfg ------------------------------
(***************************************************************************)
(* Package internal/services/haproxycfg as the HAProxy service uses it:    *)
(* configuration records, name normalisation, validation, the edits of a   *)
(* configuration list, and the certificate file of a TLS configuration.    *)
(*                                                                         *)
(* A list of configurations is a set of records.  Its order is never seen: *)
(* RenderManagedBlock and ListConfigurations sort by name, and every       *)
(* search compares names, which are unique in a list (proved, not assumed).*)
(***************************************************************************)

CONSTANTS
    RawNames,        \* names as they arrive in a request
    Keys,            \* the trimmed, non-empty names
    TrimSpace,       \* strings.TrimSpace on RawNames
    Bodies,          \* everything of a configuration but its name and TLS
    InvalidBodies,   \* bodies ValidateConfiguration refuses
    RejectedBodies,  \* valid bodies HAProxy refuses to load (port in use...)
    UserPaths,       \* certificate paths a client may supply itself
    CertPaths,       \* the files of the certificates directory
    CertFile,        \* the file the service derives from a configuration name
    PEMs             \* certificate and key pairs supplied inline

ASSUME NameAssumption ==
    /\ "" \in RawNames /\ "" \notin Keys
    /\ Keys \subseteq RawNames
    /\ TrimSpace \in [RawNames -> Keys \cup {""}]
    /\ TrimSpace[""] = ""
    /\ \A k \in Keys : TrimSpace[k] = k

ASSUME BodyAssumption ==
    /\ "" \notin Bodies
    /\ InvalidBodies \subseteq Bodies
    /\ RejectedBodies \subseteq Bodies

ASSUME CertAssumption ==
    /\ "" \notin UserPaths /\ "" \notin CertPaths /\ "" \notin PEMs
    /\ UserPaths \cap CertPaths = {}
    /\ CertFile \in [Keys -> CertPaths]

\* A managed configuration: path is tls.certificate_path, pem stands for the
\* pair tls.certificate_pem, tls.private_key_pem; both "" means TLS is off.
Config == [name : Keys, body : Bodies,
           path : UserPaths \cup CertPaths \cup {""}, pem : PEMs \cup {""}]

\* A configuration in a request: its name is not normalised yet.
Request == [name : RawNames, body : Bodies,
            path : UserPaths \cup {""}, pem : PEMs \cup {""}]

NormalizeConfigurationName(name) == TrimSpace[name]

\* The checks on the remaining fields are the membership in InvalidBodies.
ValidateConfiguration(r) ==
    /\ NormalizeConfigurationName(r.name) # ""
    /\ r.body \notin InvalidBodies
    /\ ~(r.path # "" /\ r.pem # "")

-----------------------------------------------------------------------------
(* Searching and editing a list *)

NamesOf(list) == {c.name : c \in list}

Matching(list, key) == {c \in list : NormalizeConfigurationName(c.name) = key}

FirstMatch(list, key) == CHOOSE c \in Matching(list, key) : TRUE

StoredUntrimmed(r) == r
Stored(r) == [r EXCEPT !.name = NormalizeConfigurationName(r.name)]

NoMatchingEntry(list, key) == FALSE
HasMatch(list, key) == Matching(list, key) # {}

\* No two configurations of a list share a name.
DistinctNames(list) == \A c, d \in list : c.name = d.name => c = d

-----------------------------------------------------------------------------
(* Certificates: inline PEM data is moved to a file of the certificates    *)
(* directory that is named after the configuration.                        *)

NeedsCertificate(c) == c.path = "" /\ c.pem # ""

KeepsPEM(c) == [c EXCEPT !.path = CertFile[c.name]]
EnsureCertificatePath(c) ==
    IF NeedsCertificate(c)
      THEN [c EXCEPT !.path = CertFile[c.name], !.pem = ""]
      ELSE c
=============================================================================
