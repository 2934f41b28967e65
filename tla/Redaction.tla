----------------------------- MODULE Redaction -----------------------------
(***************************************************************************)
(* Header redaction and request fingerprints (app/security.py).            *)
(*                                                                         *)
(* A header map is a function from lower-cased header names to the class   *)
(* of the value the client gave:                                           *)
(*   "absent"    the header is not in the request                          *)
(*   "plain"     an ordinary ASCII value                                   *)
(*   "nonascii"  a value httpx cannot put on the wire; _check_headers      *)
(*               (app/schemas.py) lets it through                          *)
(*   "marker"    the text ***REDACTED*** itself, which nothing forbids     *)
(***************************************************************************)

CONSTANTS Headers,    \* lower-cased header names
          Sensitive,  \* settings.sensitive_headers, restricted to Headers
          Excluded    \* generated transport headers, kept out of fingerprints

ASSUME SensitiveAssumption == Sensitive \subseteq Headers
ASSUME ExcludedAssumption  == Excluded \subseteq Headers

HeaderValue == {"absent", "plain", "nonascii", "marker"}

HeaderMap == [Headers -> HeaderValue]

NoHeaders == [h \in Headers |-> "absent"]

\* What is persisted: every sensitive value is replaced by the marker.
redact_headers(headers) ==
    [h \in Headers |-> IF h \in Sensitive /\ headers[h] # "absent"
                       THEN "marker"
                       ELSE headers[h]]

\* The names whose original values go to process memory. A value that is the
\* marker itself is not kept, even under a sensitive name.
sensitive_values(headers) ==
    {h \in Sensitive : headers[h] \notin {"absent", "marker"}}

\* The stored headers that look redacted, whether redact_headers or the client
\* wrote the marker.
redacted_header_names(stored) == {h \in Headers : stored[h] = "marker"}

\* The logical request a fingerprint stands for; `rest' is the destination, the
\* method, the payload and the timeout. SHA-256 is taken to be injective.
request_fingerprint(headers, rest) ==
    [rest    |-> rest,
     headers |-> [h \in Headers \ Excluded |-> redact_headers(headers)[h]]]

=============================================================================
