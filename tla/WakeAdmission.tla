---------------------------- MODULE WakeAdmission ----------------------------
(***************************************************************************)
(* How a wake is admitted before its event is claimed, the clocks that     *)
(* bound it, and what native code is told when it ends.  Everything here   *)
(* is a function of its inputs.  Durations are milliseconds; timestamps    *)
(* are whole seconds, as in the code.                                      *)
(***************************************************************************)
EXTENDS HostContract

AsSecs(duration) == duration \div 1000

-----------------------------------------------------------------------------
(* Policy and time.                                                        *)

\* WakePolicy::new.
ValidWakePolicy(policy) ==
    /\ policy.maximum_event_age > 0 /\ policy.maximum_future_skew >= 0
    /\ policy.replay_retention >= policy.maximum_event_age + policy.maximum_future_skew
    /\ policy.maximum_payload_bytes > 0 /\ policy.maximum_relays > 0

AcceptsEventTime(policy, created_at, now) ==
    IF created_at > now
    THEN created_at - now <= AsSecs(policy.maximum_future_skew)
    ELSE now - created_at <= AsSecs(policy.maximum_event_age)

\* BackgroundBudget::new; what is left for execution is total - cleanup.
ValidBackgroundBudget(total, cleanup) == 0 < cleanup /\ cleanup < total

MaxBackgroundMilliseconds == 30000

\* operation_budget and native_extension_execution_duration.
ValidExecution(milliseconds) == milliseconds \in 1..MaxBackgroundMilliseconds

\* lease_duration_for_budget: rounded up to a second, and one more.
LeaseDurationForBudget(remaining) ==
    IF remaining = 0 THEN {}
    ELSE {AsSecs(remaining) + (IF remaining % 1000 = 0 THEN 0 ELSE 1) + 1}

-----------------------------------------------------------------------------
(* The envelope of a push notification.                                    *)

MaxWakePayloadJsonBytes == 131072
MaxEmbeddedWakeEventBytes == 65536

\* A canonical field hides the legacy one, also when its type is wrong.
FieldError(field, required) ==
    LET value == IF field.canonical = "absent" THEN field.legacy ELSE field.canonical
    IN  IF value = "absent" THEN (IF required THEN {"MissingField"} ELSE {})
        ELSE IF value = "text" THEN {} ELSE {"InvalidField"}

EnvelopeValidate(envelope) ==
    IF ~envelope.relay_valid THEN {"InvalidRelay"}
    ELSE IF ~envelope.event_id_valid THEN {"InvalidEventId"}
    ELSE IF ~envelope.wallet_key_valid THEN {"InvalidWalletServicePublicKey"}
    ELSE IF \E length \in envelope.embedded : length > MaxEmbeddedWakeEventBytes
    THEN {"EmbeddedEventTooLarge"}
    ELSE {}

\* WakeEnvelope::parse_json: its errors, {} for a valid payload.
EnvelopeParseJson(payload) ==
    IF payload.length > MaxWakePayloadJsonBytes THEN {"PayloadTooLarge"}
    ELSE IF ~payload.object THEN {"InvalidJson"}
    ELSE IF payload.protocol \notin {"absent", "nwc_wake"} THEN {"WrongProtocol"}
    ELSE IF FieldError(payload.relay, TRUE) # {} THEN FieldError(payload.relay, TRUE)
    ELSE IF FieldError(payload.event_id, TRUE) # {} THEN FieldError(payload.event_id, TRUE)
    ELSE IF FieldError(payload.wallet_key, TRUE) # {}
    THEN FieldError(payload.wallet_key, TRUE)
    ELSE IF FieldError(payload.event_json, FALSE) # {}
    THEN FieldError(payload.event_json, FALSE)
    ELSE IF payload.settlement_check \notin {"absent", "boolean"} THEN {"InvalidField"}
    ELSE EnvelopeValidate(payload.envelope)

\* An extension's wake is run, and otherwise rejected.
NativeWakeRuns(envelope, milliseconds) ==
    ValidExecution(milliseconds) /\ EnvelopeValidate(envelope) = {}

-----------------------------------------------------------------------------
(* NwcEventValidator.                                                      *)

\* A recipient tag names a key, or does not decode.
HasExactRecipient(event, wallet_key) == event.recipients = <<wallet_key>>

CiphertextMatches(encryption, content) ==
    IF encryption = "nip44_v2" THEN content.iv_marks = 0 /\ content.length >= 132
    ELSE content.iv_marks = 1 /\ content.before > 0 /\ content.after > 0

\* validate_request_for_replay: every check except freshness.
EventErrors(event, id, connection, maximum) ==
    IF event.length > maximum THEN {"PayloadTooLarge"}
    ELSE IF ~event.parses THEN {"MalformedEvent"}
    ELSE IF ~event.signed THEN {"InvalidSignature"}
    ELSE IF event.id # id THEN {"EventIdMismatch"}
    ELSE IF ~event.is_request THEN {"UnexpectedKind"}
    ELSE IF event.author # connection.client THEN {"UnexpectedAuthor"}
    ELSE IF ~HasExactRecipient(event, connection.wallet) THEN {"UnexpectedRecipient"}
    ELSE IF ~CiphertextMatches(connection.encryption, event.content)
    THEN {"InvalidCiphertext"}
    ELSE {}

EventRejection(error) ==
    CASE error = "InvalidCreatedAt" -> "EventOutsideFreshnessWindow"
      [] error = "EventIdMismatch" -> "EventMismatch"
      [] OTHER -> "InvalidEvent"

\* decrypt and build_response_event need the key of this connection, and a
\* text within the payload bound.
CryptoErrors(secret, connection, opens, length, maximum) ==
    IF secret # connection.wallet THEN {"SecretKeyMismatch"}
    ELSE IF ~opens THEN {"DecryptionFailed"}
    ELSE IF length > maximum THEN {"PlaintextTooLarge"}
    ELSE {}

-----------------------------------------------------------------------------
(* The head of WakeEngine::execute, up to the claim.                       *)

Admitted == [kind |-> "admitted", why |-> "none"]
Disposition(kind, why) == [kind |-> kind, why |-> why]

\* The event of the wake: embedded, or fetched from the relay it names.
EventAnswer(wake) == IF wake.embedded # {} THEN Ok(wake.embedded) ELSE wake.fetched

\* What stops a wake before its event is known, Admitted if nothing does.
BeforeEvent(wake) ==
    IF wake.cancelled THEN Disposition("queued_for_application", "Deadline")
    ELSE IF ~wake.relay_valid THEN Disposition("rejected", "InvalidWakePayload")
    ELSE IF wake.relay_approved = "busy"
    THEN Disposition("queued_for_application", "LedgerBusy")
    ELSE IF wake.relay_approved = "no" THEN Disposition("rejected", "RelayNotAllowed")
    ELSE IF wake.embedded = {} /\ wake.late
    THEN Disposition("queued_for_application", "Deadline")
    ELSE IF EventAnswer(wake).ok /\ EventAnswer(wake).value # {} THEN Admitted
    ELSE IF ~EventAnswer(wake).ok /\ EventAnswer(wake).kind = "Rejected"
    THEN Disposition("rejected", "InvalidEvent")
    ELSE Disposition("retry_after", "RelayUnavailable")

\* What stops an event whose author has, or has not, a connection.
OnEvent(wake, event, connection, maximum) ==
    IF event.length > maximum \/ ~event.parses
    THEN Disposition("rejected", "InvalidEvent")
    ELSE IF connection.state = "busy"
    THEN Disposition("queued_for_application", "LedgerBusy")
    ELSE IF connection.state # "active" \/ connection.expired
    THEN Disposition("rejected", "ConnectionUnavailable")
    ELSE IF wake.relay \notin connection.relays
    THEN Disposition("rejected", "RelayNotAllowed")
    ELSE LET errors == EventErrors(event, wake.event_id, connection, maximum)
         IN  IF errors = {} THEN Admitted
             ELSE Disposition("rejected", EventRejection(CHOOSE e \in errors : TRUE))

Admission(wake, event, connection, maximum) ==
    IF BeforeEvent(wake) # Admitted THEN BeforeEvent(wake)
    ELSE OnEvent(wake, event, connection, maximum)
=============================================================================
