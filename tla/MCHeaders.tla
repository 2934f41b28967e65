----------------------------- MODULE MCHeaders -----------------------------
(***************************************************************************)
(* Instances of HeaderPipeline: names that are sensitive by default, by    *)
(* settings, or never, in one or two spellings; names the service sets     *)
(* itself; a client that gives the marker as a value.                      *)
(***************************************************************************)
EXTENDS HeaderPipeline, TLC

CONSTANTS v1, v2

Perms == Permutations(Calls)

MCNames == {"authorization", "x-tag", "x-callback-id", "x-sent-at", "content-type"}

H(name, form, value) == [key |-> [name |-> name, form |-> form], value |-> value]

MCCreates ==
    { << H("authorization", "title", v1), H("x-tag", "title", v1) >>,
      << H("x-tag", "lower", v1), H("authorization", "lower", v2) >>,
      << H("authorization", "title", v1), H("authorization", "lower", v2) >>,
      << H("x-tag", "title", v1), H("x-tag", "lower", v2), H("x-tag", "padded", v2) >>,
      << H("x-tag", "title", REDACTED) >>,
      << H("x-tag", "title", REDACTED), H("x-tag", "lower", v2) >>,
      << H("authorization", "title", REDACTED), H("x-tag", "title", v2) >>,
      << H("x-tag", "title", v1), H("x-callback-id", "lower", v2),
         H("content-type", "lower", v2) >>,
      << H("x-sent-at", "title", v1), H("x-tag", "lower", v1) >> }

MCResupplies ==
    { << >>, << H("authorization", "lower", v2) >>, << H("x-tag", "title", v1) >>,
      << H("x-tag", "title", v1), H("x-tag", "lower", v2),
         H("authorization", "title", v1) >> }

Config(extra, signing_headers, signing_enabled) ==
    [sensitive |-> sensitive_headers(extra), signing_headers |-> signing_headers,
     signing_enabled |-> signing_enabled]

MCSettings ==
    { Config({}, {"x-sent-at"}, TRUE),
      Config({[name |-> "x-tag", form |-> "title"]}, {"x-sent-at"}, FALSE),
      Config({[name |-> "x-sent-at", form |-> "lower"]}, {"x-tag"}, TRUE) }

=============================================================================
