------------------------- MODULE MCConfigurationApi -------------------------
(***************************************************************************)
(* An instance of ConfigurationApi for TLC: three names, two of which lead *)
(* to one certificate file, and messages that differ from sound ones in a  *)
(* field, or in TLS settings of every combination.                         *)
(***************************************************************************)
EXTENDS ConfigurationApi

PemTypeOf ==
    "crt" :> "CERTIFICATE" @@ "crt2" :> "CERTIFICATE" @@ "junk" :> "CERTIFICATE"
    @@ "rsa" :> "RSA PRIVATE KEY" @@ "ssh" :> "OPENSSH PRIVATE KEY"

DerFormatsOf ==
    "crt" :> {"x509"} @@ "crt2" :> {"x509"} @@ "junk" :> {} @@ "rsa" :> {"pkcs1"} @@ "ssh" :> {}

UrlSchemeOf == "http://h" :> "http" @@ "https://h" :> "https" @@ "ftp://h" :> "ftp"

TextSet == {"", " ", "web", " web", "a b", "A_B", "s1", "S1 ", "S1", "s2", "addr", "/p",
            "/web.pem", "/a_b.pem", "http://h", "https://h", "ftp://h", "/h", "crt", " crt", "crt2",
            "junk", "rsa", "ssh"}

TrimSpaceOf == [t \in TextSet |->
    CASE t = " " -> "" [] t = " web" -> "web" [] t = "S1 " -> "S1" [] t = " crt" -> "crt"
      [] OTHER -> t]
ToLowerOf == [t \in TextSet |-> IF t \in {"S1", "S1 "} THEN "s1" ELSE t]
CertFileOf == [t \in TextSet |-> IF t = "web" THEN "/web.pem" ELSE "/a_b.pem"]

-----------------------------------------------------------------------------
Target(name, port) == {[name |-> name, address |-> "addr", port |-> port, checkInterval |-> 2]}

Plain(name) ==
    [name |-> name, frontendName |-> "web", bindAddress |-> "addr", bindPort |-> 80,
     url |-> "http://h", loadBalancing |-> 1, backendName |-> "web",
     backends |-> <<Target("s1", 80)>>, trafficMode |-> 1, autoHTTPSRedirect |-> FALSE,
     tls |-> {}]

TLS(enabled, path, keyPath, pem, keyPEM) ==
    [enabled |-> enabled, certificatePath |-> path, privateKeyPath |-> keyPath,
     certificatePEM |-> pem, privateKeyPEM |-> keyPEM, skipBackendTLSVerify |-> ~enabled]

Inline(name, pem) == [Plain(name) EXCEPT !.tls = {TLS(TRUE, "", " ", pem, "rsa")}]

Fields ==
    {[Plain("web") EXCEPT !.name = t] : t \in {"", " "}}
    \cup {[Plain(" web") EXCEPT !.loadBalancing = n, !.trafficMode = k] : n \in {0, 2, 4}, k \in {0, 2, 3}}
    \cup {[Plain("web") EXCEPT !.frontendName = " "], [Plain("web") EXCEPT !.backendName = ""],
          [Plain("web") EXCEPT !.bindAddress = " "]}
    \cup {[Plain("web") EXCEPT !.bindPort = n] : n \in {0, 65535, 65536}}
    \cup {[Plain("web") EXCEPT !.url = t] : t \in {" ", "/h", "ftp://h", "https://h"}}
    \cup {[Plain("web") EXCEPT !.backends = b] :
            b \in {<<>>, << {} >>, << {}, Target("s1", 65535) >>, <<Target("s1", 1), Target("s2", 80)>>,
                   <<Target("s1", 80), Target("S1 ", 80)>>, <<Target(" ", 80)>>,
                   <<Target("s1", 0)>>, <<Target("s1", 65536)>>}}
    \cup {[Plain("web") EXCEPT !.backends = <<{[t EXCEPT !.checkInterval = n]}>>] :
            t \in Target("s1", 80), n \in {-1, 0}}
    \cup {[Plain("web") EXCEPT !.backends = <<{[t EXCEPT !.address = " "]}>>] : t \in Target("s1", 80)}

Secured ==
    {[Plain("web") EXCEPT !.tls = {TLS(enabled, path, keyPath, pem, keyPEM)}] :
        enabled \in BOOLEAN, path \in {" ", "/p"}, keyPath \in {"", "/p"},
        pem \in {"", " crt", "junk"}, keyPEM \in {"", "rsa", "ssh", "crt"}}
    \cup {[Plain("web") EXCEPT !.autoHTTPSRedirect = TRUE, !.trafficMode = k, !.tls = t] :
            k \in {1, 2}, t \in {{}, {TLS(FALSE, "", "", "", "")}, {TLS(TRUE, "/p", "/p", "", "")}}}

MessageSet ==
    Fields \cup Secured \cup {Plain("A_B"), Inline("a b", "crt"), Inline("A_B", "crt2"), Inline("web", "crt2")}
=============================================================================
