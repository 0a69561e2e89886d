------------------------- MODULE GatewayCertificate -------------------------
(***************************************************************************)
(* The health of the TLS certificates of a Gateway: which Secrets the      *)
(* controller looks at, what it reads in them, and the reason it reports.  *)
(*                                                                         *)
(* A Gateway is a record with the sequence listeners, a listener being     *)
(*   hostname   its labels, <<>> where it names none                       *)
(*   protocol   "HTTPS", "HTTP", ...                                       *)
(*   refs       Nil without a tls section, else its certificateRefs, each  *)
(*              [group, kind, ns, name], "" where a field is nil; group    *)
(*              and ns may also be empty, which the code treats as nil     *)
(* A Secret is what tls.crt holds: the sequence of its PEM blocks, each    *)
(* the notAfter of a certificate or Nil for anything else; <<>> where      *)
(* there is no such key, no data or no PEM.                                *)
(***************************************************************************)
EXTENDS RouteTypes

CONSTANT WarnBefore     \* certWarnBefore

ASSUME WarnAssumption == WarnBefore \in Nat

\* The Secrets the loops over listeners and certificateRefs ask for, in order.
monitoredSecrets(gw, gwNs) ==
    LET refs(l) == IF l.protocol # "HTTPS" \/ l.refs = Nil THEN <<>> ELSE l.refs
        supported(ref) == ref.group = "" /\ ref.kind \in {"", "Secret"}
        all == SelectSeq(FlattenSeq([i \in DOMAIN gw.listeners |-> refs(gw.listeners[i])]), supported)
    IN  [k \in DOMAIN all |->
            [ns |-> IF all[k].ns = "" THEN gwNs ELSE all[k].ns, name |-> all[k].name]]

\* The first PEM block decides, Nil stands for an error.
parseTLSCertNotAfter(secret) == IF secret = <<>> THEN Nil ELSE Head(secret)

\* Bug: the last moments of the two periods count to the ones after them.
certificateExpiryStateLate(now, notAfter) ==
    IF now > notAfter THEN "CertificateExpired"
    ELSE IF notAfter - now < WarnBefore THEN "CertificateExpiring"
    ELSE "CertificateHealthy"

certificateExpiryState(now, notAfter) ==
    IF now >= notAfter THEN "CertificateExpired"
    ELSE IF notAfter - now <= WarnBefore THEN "CertificateExpiring"
    ELSE "CertificateHealthy"

\* The reason of the CertificateHealthy condition.  The first Secret that is
\* missing or cannot be read ends the loops; otherwise the certificate that
\* expires first decides.
evaluateGatewayCertificate(spec, gateways, secrets, now) ==
    LET gw     == gateways[gatewayRef(spec)]
        keys   == monitoredSecrets(gw, gatewayRef(spec).ns)
        expiry(k) == parseTLSCertNotAfter(secrets[keys[k]])
        broken == {k \in DOMAIN keys : secrets[keys[k]] = Nil \/ expiry(k) = Nil}
        first  == CHOOSE k \in broken : \A j \in broken : k <= j
    IN  IF gw = Nil THEN "GatewayNotFound"
        ELSE IF broken # {}
             THEN IF secrets[keys[first]] = Nil THEN "CertificateSecretMissing"
                  ELSE "CertificateParseError"
        ELSE IF keys = <<>> THEN "CertificateNotConfigured"
        ELSE certificateExpiryState(now, Min({expiry(k) : k \in DOMAIN keys}))

\* The condition is True for these reasons and False for all others.
CertificateOK == {"CertificateNotConfigured", "CertificateHealthy"}

=============================================================================
