------------------------------ MODULE MCSigned ------------------------------
(* Small instances of SignedCallbacks for TLC. *)
EXTENDS SignedCallbacks, TLC

CONSTANTS sig, ts,   \* the default header names
          other,     \* another name
          s1, s2,    \* two secrets
          d1         \* a body

Choice(enabled, key, signatureName, timestampName) ==
    [signing_enabled |-> enabled, signing_secret |-> key,
     signature_header |-> signatureName, timestamp_header |-> timestampName]

\* Signing off, on, on with a rotated secret, on under another name, and
\* configurations that must not start: no secret, one name for both headers.
AllSettings == {Choice(FALSE, NoSecret, sig, ts), Choice(TRUE, s1, sig, ts),
                Choice(TRUE, s2, sig, ts), Choice(TRUE, NoSecret, sig, ts),
                Choice(TRUE, s1, sig, sig), Choice(TRUE, s1, other, ts)}

Give(signature, timestamp) ==
    (sig :> signature) @@ (ts :> timestamp) @@ (other :> NoText)

\* Clients that give neither header, both forged, a signature alone, or their
\* own signature of this body.
AllHeaders == {Give(NoText, NoText), Give(Garbled, Garbled),
               Give(Garbled, NoText),
               Give(compute_signature(s1, 0, d1), Stamp(0))}
=============================================================================
