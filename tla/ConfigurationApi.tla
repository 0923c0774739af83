-------------------------- MODULE ConfigurationApi --------------------------
(***************************************************************************)
(* What a configuration goes through field by field: the messages of the   *)
(* gRPC controller and their conversions, ValidateConfiguration, the move  *)
(* of inline certificates to files, and the HAProxy sections rendered from *)
(* it.  A call is one step here; how calls interleave and fail on the way  *)
(* to HAProxy is HaproxyService.                                           *)
(*                                                                         *)
(* A pointer is a set: {} is nil.  Texts are the members of Texts, with    *)
(* functions for what the code asks of them.                               *)
(***************************************************************************)
EXTENDS Integers, SequencesExt

CONSTANTS
    Texts,       \* every string of a message
    TrimSpace,   \* strings.TrimSpace on Texts
    ToLower,     \* strings.ToLower on Texts
    UrlScheme,   \* the scheme of those texts that are absolute URLs
    PemType,     \* the block type of those texts that are PEM data
    DerFormats,  \* the formats, by PEM text, in which its bytes can be parsed
    CertFile,    \* the file in the certificates directory for a name
    Messages     \* HaproxyConfiguration messages that clients send

ASSUME TextAssumption ==
    /\ "" \in Texts /\ TrimSpace[""] = ""
    /\ TrimSpace \in [Texts -> Texts] /\ ToLower \in [Texts -> Texts]
    /\ \A t \in Texts : TrimSpace[TrimSpace[t]] = TrimSpace[t]
    /\ DOMAIN DerFormats = DOMAIN PemType /\ "" \notin DOMAIN PemType
    /\ CertFile \in [Texts -> Texts] /\ \A t \in Texts : TrimSpace[CertFile[t]] # ""

Pointer(values) == {p \in SUBSET values : \A v, w \in p : v = w}

BackendTarget == [name : Texts, address : Texts, port : Nat, checkInterval : Int]
TLSConfiguration ==
    [enabled : BOOLEAN, certificatePath : Texts, privateKeyPath : Texts,
     certificatePEM : Texts, privateKeyPEM : Texts, skipBackendTLSVerify : BOOLEAN]
Message ==
    [name : Texts, frontendName : Texts, bindAddress : Texts, bindPort : Nat, url : Texts,
     loadBalancing : Int, backendName : Texts, backends : Seq(Pointer(BackendTarget)),
     trafficMode : Int, autoHTTPSRedirect : BOOLEAN, tls : Pointer(TLSConfiguration)]

ASSUME MessageAssumption == Messages \subseteq Message

Blank(text) == TrimSpace[text] = ""
NormalizeConfigurationName(name) == TrimSpace[name]

-----------------------------------------------------------------------------
(* Conversions between messages and configurations.  The strings behind    *)
(* the enums are already in normal form.                                   *)

TrafficModes == <<"http", "tcp">>
LoadBalancingStrategies == <<"roundrobin", "leastconn", "source">>
UNSPECIFIED == 0

EnumOf(strings, string) ==
    IF \E n \in DOMAIN strings : strings[n] = string
      THEN CHOOSE n \in DOMAIN strings : strings[n] = string
      ELSE UNSPECIFIED

\* Both enums must have a value that the service knows.
Convertible(message) ==
    /\ message.loadBalancing \in DOMAIN LoadBalancingStrategies
    /\ message.trafficMode \in DOMAIN TrafficModes

\* Entries that are nil are dropped.
ToServiceBackendTargets(items) ==
    FlattenSeq([n \in DOMAIN items |-> SetToSeq(items[n])])

ToProtoBackendTargets(items) == [n \in DOMAIN items |-> {items[n]}]

ToService(message) ==
    [message EXCEPT !.loadBalancing = LoadBalancingStrategies[@],
                    !.trafficMode = TrafficModes[@],
                    !.backends = ToServiceBackendTargets(@)]

ForgetsStrategy(configuration) ==
    [configuration EXCEPT !.loadBalancing = 1,
                          !.trafficMode = EnumOf(TrafficModes, @),
                          !.backends = ToProtoBackendTargets(@)]
ToProtoConfiguration(configuration) ==
    [configuration EXCEPT !.loadBalancing = EnumOf(LoadBalancingStrategies, @),
                          !.trafficMode = EnumOf(TrafficModes, @),
                          !.backends = ToProtoBackendTargets(@)]

-----------------------------------------------------------------------------
(* Validation *)

KeyTypes == {"RSA PRIVATE KEY", "PRIVATE KEY", "EC PRIVATE KEY", "DSA PRIVATE KEY",
             "OPENSSH PRIVATE KEY"}

ValidateCertificatePEM(text) ==
    /\ text \in DOMAIN PemType
    /\ PemType[text] = "CERTIFICATE"
    /\ "x509" \in DerFormats[text]

ValidatePrivateKeyPEM(text) ==
    /\ text \in DOMAIN PemType
    /\ PemType[text] \in KeyTypes
    /\ DerFormats[text] \cap {"pkcs8", "pkcs1", "ec"} # {}

HasPathPair(t) == ~Blank(t.certificatePath) \/ ~Blank(t.privateKeyPath)
HasPEMPair(t) == ~Blank(t.certificatePEM) \/ ~Blank(t.privateKeyPEM)

AcceptsHalfAPair(t) ==
    IF ~t.enabled
      THEN ~HasPathPair(t) /\ ~HasPEMPair(t)
      ELSE /\ HasPEMPair(t) => /\ ValidateCertificatePEM(TrimSpace[t.certificatePEM])
                               /\ ValidatePrivateKeyPEM(TrimSpace[t.privateKeyPEM])
           /\ HasPathPair(t) # HasPEMPair(t)
ValidateTLSConfiguration(t) ==
    IF ~t.enabled
      THEN ~HasPathPair(t) /\ ~HasPEMPair(t)
      ELSE /\ HasPathPair(t) => ~Blank(t.certificatePath) /\ ~Blank(t.privateKeyPath)
           /\ HasPEMPair(t) => /\ ValidateCertificatePEM(TrimSpace[t.certificatePEM])
                               /\ ValidatePrivateKeyPEM(TrimSpace[t.privateKeyPEM])
           /\ HasPathPair(t) # HasPEMPair(t)

ValidPort(port) == port \in 1 .. 65535

ComparesNamesAsWritten(backends) ==
    /\ backends # <<>>
    /\ \A n \in DOMAIN backends :
          /\ ~Blank(backends[n].name) /\ ~Blank(backends[n].address)
          /\ ValidPort(backends[n].port) /\ backends[n].checkInterval > 0
          /\ \A k \in 1 .. n - 1 : backends[k].name # backends[n].name
ValidateBackends(backends) ==
    /\ backends # <<>>
    /\ \A n \in DOMAIN backends :
          /\ ~Blank(backends[n].name) /\ ~Blank(backends[n].address)
          /\ ValidPort(backends[n].port) /\ backends[n].checkInterval > 0
          /\ \A k \in 1 .. n - 1 :
                ToLower[TrimSpace[backends[k].name]] # ToLower[TrimSpace[backends[n].name]]

ValidateConfiguration(c) ==
    /\ ~Blank(c.name) /\ ~Blank(c.frontendName) /\ ~Blank(c.backendName)
    /\ c.trafficMode = "http" => /\ TrimSpace[c.url] \in DOMAIN UrlScheme
                                 /\ UrlScheme[TrimSpace[c.url]] \in {"http", "https"}
    /\ c.autoHTTPSRedirect => c.trafficMode = "http" /\ \E t \in c.tls : t.enabled
    /\ \A t \in c.tls : ValidateTLSConfiguration(t)
    /\ ~Blank(c.bindAddress) /\ ValidPort(c.bindPort)
    /\ ValidateBackends(c.backends)

-----------------------------------------------------------------------------
(* Certificates: the path wins, a complete inline pair goes to a file.     *)

IsInline(t) ==
    /\ t.enabled /\ Blank(t.certificatePath)
    /\ ~Blank(t.certificatePEM) /\ ~Blank(t.privateKeyPEM)

InlinePair(t) == <<TrimSpace[t.certificatePEM], TrimSpace[t.privateKeyPEM]>>

EnsureCertificatePath(c) ==
    [c EXCEPT !.tls = {IF IsInline(t)
                         THEN [t EXCEPT !.certificatePath = CertFile[c.name],
                                        !.certificatePEM = "", !.privateKeyPEM = ""]
                         ELSE t : t \in @}]

-----------------------------------------------------------------------------
(* Rendering: the directives that the fields of a configuration become.    *)

TLSEnabled(c) == \E t \in c.tls : t.enabled

\* TLS without a certificate path is an error.
Renderable(c) == \A t \in c.tls : t.enabled => ~Blank(t.certificatePath)

RenderFrontendSection(c) ==
    [frontend |-> c.frontendName, address |-> TrimSpace[c.bindAddress], port |-> c.bindPort,
     crt |-> {TrimSpace[t.certificatePath] : t \in {u \in c.tls : u.enabled}},
     mode |-> c.trafficMode, default_backend |-> c.backendName,
     redirect |-> c.autoHTTPSRedirect]

RenderBackendSection(c) ==
    [backend |-> c.backendName, mode |-> c.trafficMode, balance |-> c.loadBalancing,
     servers |-> [n \in DOMAIN c.backends |->
        [c.backends[n] EXCEPT !.address = TrimSpace[@]]],
     verifyNone |-> \E t \in c.tls : t.skipBackendTLSVerify]

-----------------------------------------------------------------------------
VARIABLES
    configurations,  \* the managed configurations, one for each name
    certificates,    \* the files of the certificates directory
    reply,           \* the last answer
    sent             \* ghost: the message that each name was last set by

vars == <<configurations, certificates, reply, sent>>

Refuse(code) ==
    /\ reply' = [code |-> code, shown |-> {}]
    /\ UNCHANGED <<configurations, certificates, sent>>

Exists(key) == \E c \in configurations : NormalizeConfigurationName(c.name) = key
Others(key) == {c \in configurations : NormalizeConfigurationName(c.name) # key}

\* The certificate files after those of a configuration were written.
KeepsOldFile(key, inline) ==
    [p \in DOMAIN certificates \cup {CertFile[key] : t \in inline} |->
        IF p \in DOMAIN certificates THEN certificates[p] ELSE InlinePair(CHOOSE t \in inline : TRUE)]
Written(key, inline) ==
    [p \in DOMAIN certificates \cup {CertFile[key] : t \in inline} |->
        IF p = CertFile[key] /\ inline # {} THEN InlinePair(CHOOSE t \in inline : TRUE) ELSE certificates[p]]

\* The stored configuration is persisted, its inline certificate in a file.
Put(message) ==
    LET key == NormalizeConfigurationName(message.name)
        stored == [ToService(message) EXCEPT !.name = key]
        ensured == EnsureCertificatePath(stored)
    IN  /\ configurations' = Others(key) \cup {ensured}
        /\ certificates' = Written(key, {t \in stored.tls : IsInline(t)})
        /\ sent' = [k \in DOMAIN sent \cup {key} |-> IF k = key THEN message ELSE sent[k]]
        /\ reply' = [code |-> "OK", shown |-> {ToProtoConfiguration(ensured)}]

\* A request is a pointer to a message.
Acceptable(message) == Convertible(message) /\ ValidateConfiguration(ToService(message))

CreateConfiguration(request) ==
    \/ /\ \A m \in request : ~Acceptable(m)
       /\ Refuse("InvalidArgument")
    \/ \E m \in request :
          /\ Acceptable(m)
          /\ IF Exists(NormalizeConfigurationName(m.name)) THEN Refuse("AlreadyExists") ELSE Put(m)

UpdateConfiguration(request) ==
    \/ /\ \A m \in request : ~Acceptable(m)
       /\ Refuse("InvalidArgument")
    \/ \E m \in request :
          /\ Acceptable(m)
          /\ IF Exists(NormalizeConfigurationName(m.name)) THEN Put(m) ELSE Refuse("NotFound")

\* Why a call that only names a configuration is refused.
NameError(name) ==
    IF Blank(name) THEN "InvalidArgument"
    ELSE IF Exists(NormalizeConfigurationName(name)) THEN "" ELSE "NotFound"

GetConfiguration(name) ==
    IF NameError(name) # "" THEN Refuse(NameError(name))
    ELSE /\ reply' = [code |-> "OK",
                      shown |-> {ToProtoConfiguration(c) :
                                    c \in configurations \ Others(NormalizeConfigurationName(name))}]
         /\ UNCHANGED <<configurations, certificates, sent>>

ListConfigurations ==
    /\ reply' = [code |-> "OK", shown |-> {ToProtoConfiguration(c) : c \in configurations}]
    /\ UNCHANGED <<configurations, certificates, sent>>

\* The certificate file stays.
DeleteConfiguration(name) ==
    IF NameError(name) # "" THEN Refuse(NameError(name))
    ELSE /\ configurations' = Others(NormalizeConfigurationName(name))
         /\ reply' = [code |-> "OK", shown |-> {}]
         /\ UNCHANGED <<certificates, sent>>

-----------------------------------------------------------------------------
Init ==
    /\ configurations = {}
    /\ certificates = [p \in {} |-> <<>>]
    /\ reply = [code |-> "", shown |-> {}]
    /\ sent = [key \in {} |-> <<>>]

\* A client sends a message, none at all, or one that it was shown.
Next ==
    \/ \E request \in {{}} \cup {{m} : m \in Messages} : CreateConfiguration(request)
    \/ \E request \in {{}} \cup {{m} : m \in Messages \cup reply.shown} : UpdateConfiguration(request)
    \/ \E name \in {m.name : m \in Messages} : GetConfiguration(name) \/ DeleteConfiguration(name)
    \/ ListConfigurations

Spec == Init /\ [][Next]_vars

-----------------------------------------------------------------------------
(* Correctness *)

\* What a message asks for: nil entries and blanks around the name do not
\* count, and an inline certificate is shown as the path of its file.
Meant(message) ==
    LET key == TrimSpace[message.name] IN
    [message EXCEPT
        !.name = key,
        !.backends = FlattenSeq([n \in DOMAIN @ |-> IF @[n] = {} THEN <<>> ELSE <<@[n]>>]),
        !.tls = {IF t.enabled /\ ~Blank(t.certificatePEM)
                   THEN [t EXCEPT !.certificatePath = CertFile[key],
                                  !.certificatePEM = "", !.privateKeyPEM = ""]
                   ELSE t : t \in @}]

\* Through the conversions to the service and back, the validation and the
\* certificate step, every configuration that is shown is the one last sent
\* under its name.
ShownAsSent == \A m \in reply.shown : m = Meant(sent[m.name])

\* A client that reads a configuration may send it back: it is accepted and
\* changes nothing, unless its certificate was sent inline.  Then the service
\* shows a certificate path without a private key path, and refuses that.
SendsBack ==
    \A c \in configurations :
        LET shown == ToProtoConfiguration(c)
            inline == \E t \in sent[c.name].tls : IsInline(t)
        IN  /\ Acceptable(shown) <=> ~inline
            /\ ~inline => EnsureCertificatePath(ToService(shown)) = c

\* Whatever was accepted can be rendered, and HAProxy can make sense of it: a
\* redirect to https stands in an http section that speaks TLS, TLS comes with
\* a certificate, and no two servers share a name, whatever its case.
RendersSoundly ==
    \A c \in configurations :
        LET front == RenderFrontendSection(c)
            back == RenderBackendSection(c)
        IN  /\ Renderable(c)
            /\ front.redirect => front.mode = "http" /\ front.crt # {}
            /\ "" \notin front.crt /\ (TLSEnabled(c) => front.crt # {})
            /\ front.default_backend = back.backend /\ front.mode = back.mode
            /\ \A n, k \in DOMAIN back.servers :
                  ToLower[TrimSpace[back.servers[n].name]] = ToLower[TrimSpace[back.servers[k].name]]
                      => n = k

\* A configuration sent with an inline certificate has that certificate in its
\* file, as long as no other name leads to the same file.
CertificatesKeptApart ==
    \A c \in configurations : \A t \in sent[c.name].tls :
        IsInline(t) /\ (\A key \in DOMAIN sent : CertFile[key] = CertFile[c.name] => key = c.name)
            => certificates[CertFile[c.name]] = InlinePair(t)
=============================================================================
