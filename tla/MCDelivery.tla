----------------------------- MODULE MCDelivery -----------------------------
(* Small instances of DeliveryService for TLC. *)
EXTENDS DeliveryService, TLC

CONSTANTS auth, trace,  \* a sensitive header and an ordinary one
          k1, emptyKey, \* an Idempotency-Key and the empty string
          p1, p2, pSurrogate

Map(a, t) == (auth :> a) @@ (trace :> t)

Create(key, payload, a, t) ==
    [key |-> key, payload |-> payload, headers |-> Map(a, t)]

\* The requests of an ordinary client: a keyed creation with a credential, the
\* same one without it, another payload, and a creation without a key.
Ordinary == {Create(k1, p1, "plain", "absent"), Create(k1, p1, "absent", "absent"),
             Create(k1, p2, "plain", "absent"), Create(None, p1, "plain", "plain")}

\* Requests that a client may also send: an empty key, a payload without a
\* UTF-8 form, a value that is not ASCII, the redaction marker as a value.
Odd == {Create(emptyKey, p1, "absent", "absent"),
        Create(k1, pSurrogate, "absent", "absent"),
        Create(None, pSurrogate, "absent", "absent"),
        Create(None, p1, "absent", "nonascii"),
        Create(k1, p1, "marker", "absent")}

AllCreates == Ordinary \cup Odd

\* Retries: nothing re-supplied, a fresh credential, a value httpx cannot send,
\* and a header that was never redacted.
AllRetries == {NoHeaders, Map("plain", "absent"), Map("nonascii", "absent"),
               Map("absent", "plain")}

\* Under a key that two workers race for, two requests that conflict; and a
\* delivery beside them.
Racing == Ordinary \ {Create(k1, p1, "absent", "absent")}

FewRetries == {NoHeaders, Map("plain", "absent")}

\* For the run of the liveness properties: a clean request, and one that httpx
\* cannot send, so that its handler ends with a 500 between the two commits.
LiveCreates == {Create(k1, p1, "absent", "absent"),
                Create(None, p1, "absent", "nonascii")}

\* For the runs with temporal properties, which admit no symmetry.
OneCreate == {Create(k1, p1, "absent", "absent")}

NoResupply == {NoHeaders}

Symmetric == Permutations(Calls)
=============================================================================
