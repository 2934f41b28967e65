------------------------------ MODULE Signing ------------------------------
(***************************************************************************)
(* The signing contract of app/signing.py and the part of app/config.py    *)
(* that switches it on.                                                    *)
(*                                                                         *)
(* The text of a header is                                                 *)
(*   Stamp(t)     the decimal digits of a Unix time, as str(int) writes it *)
(*   a MAC        "sha256=" and the HMAC of a time and a body; two MACs    *)
(*                agree only if secret, time and body agree                *)
(*   Garbled      any other text: "+1790503200", "abc", "sha256=forged"    *)
(*   NoText       the header is missing or empty                           *)
(***************************************************************************)
EXTENDS Naturals

CONSTANTS Secrets,   \* signing secrets
          NoSecret,  \* the empty string
          Bodies,    \* request bodies, byte for byte
          Names      \* lower-cased header names

ASSUME NoSecretAssumption == NoSecret \notin Secrets

Stamp(t) == [kind |-> "stamp", at |-> t]
Garbled  == [kind |-> "garbled"]
NoText   == [kind |-> "none"]

compute_signature(secret, t, body) ==
    [kind |-> "mac", secret |-> secret, at |-> t, body |-> body]

Text == [kind : {"stamp"}, at : Nat]
        \cup [kind : {"mac"}, secret : Secrets, at : Nat, body : Bodies]
        \cup {Garbled, NoText}

Reasons == {"missing_signature", "missing_timestamp", "invalid_timestamp",
            "timestamp_out_of_tolerance", "signature_mismatch"}

\* Variants: the window is open at its ends; abs is forgotten.
OffByOne(now, t, tolerance) == now >= t + tolerance \/ t >= now + tolerance
WithoutAbs(now, t, tolerance) == t > now + tolerance

\* abs(now - t) > tolerance
OutOfTolerance(now, t, tolerance) == now > t + tolerance \/ t > now + tolerance

\* The reason for which verify_signature rejects, or "valid". A text that is
\* not the canonical form of an integer is an invalid timestamp.
verify_signature(secret, timestamp, signature, body, now, tolerance) ==
    IF signature = NoText THEN "missing_signature"
    ELSE IF timestamp = NoText THEN "missing_timestamp"
    ELSE IF timestamp.kind # "stamp" THEN "invalid_timestamp"
    ELSE IF OutOfTolerance(now, timestamp.at, tolerance)
    THEN "timestamp_out_of_tolerance"
    ELSE IF signature # compute_signature(secret, timestamp.at, body)
    THEN "signature_mismatch"
    ELSE "valid"

-----------------------------------------------------------------------------
Settings == [signing_enabled : BOOLEAN, signing_secret : Secrets \cup {NoSecret},
             signature_header : Names, timestamp_header : Names]

\* Settings.validate
Validated(s) ==
    s.signing_enabled => /\ s.signing_secret # NoSecret
                         /\ s.signature_header # s.timestamp_header

\* A variant that keeps a header the caller gave.
SignUnlessGiven(headers, s, t, body) ==
    [n \in Names |->
        CASE headers[n] # NoText -> headers[n]
          [] n = s.signature_header -> compute_signature(s.signing_secret, t, body)
          [] n = s.timestamp_header -> Stamp(t)
          [] OTHER -> NoText]

\* The two calls of _set_header in send_attempt: the timestamp, then the
\* signature, whatever the caller gave under these names.
SignOver(headers, s, t, body) ==
    [headers EXCEPT ![s.timestamp_header] = Stamp(t),
                    ![s.signature_header] =
                        compute_signature(s.signing_secret, t, body)]

=============================================================================
