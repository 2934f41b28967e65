\* Two attempts of one delivery, every kind of settings and headers, skewed
\* clocks, a receiver that is switched to 503 and whose inbox is cleared.
SPECIFICATION Spec
CONSTANTS
  None = None
  sig = sig
  ts = ts
  other = other
  s1 = s1
  s2 = s2
  d1 = d1
  Names = {sig, ts, other}
  Secrets = {s1, s2}
  NoSecret = NoSecret
  Bodies = {d1}
  SettingsChoices <- AllSettings
  CallerHeaders <- AllHeaders
  ReceiverSecrets = {s1, NoSecret}
  Modes = {503}
  SignatureHeader = sig
  TimestampHeader = ts
  Tolerance = 1
  MaxSkew = 2
  MaxTime = 1
  MaxAttempts = 2
  MaxRestarts = 2
INVARIANTS
  TypeOK SignedAsRecorded RejectedOnlyIfLate AcceptedIsGenuine
  RejectionIsFinal InboxComplete
