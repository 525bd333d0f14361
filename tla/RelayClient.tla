---------------------------- MODULE RelayClient ----------------------------
(***************************************************************************)
(* NostrRelayTransport: one connection to a relay, one request, and the    *)
(* frames that come back.  Frames are a sequence that ends when the relay  *)
(* closes the socket or the read fails.  A frame is                        *)
(*   [kind |-> "text", ...] with its parsed JSON, "close", "error" with    *)
(*   its host error, or "other" (ping, pong, binary).                      *)
(* The first frame that is not ignored decides.                            *)
(***************************************************************************)
EXTENDS HostContract, Sequences

NwcRequestKind == 23194

Ignored == [decided |-> FALSE]
Decided(answer) == [decided |-> TRUE, answer |-> answer]

\* relay_io_error: a frame over the size limit is not retried.
IoError(oversized) == Err(IF oversized THEN "Rejected" ELSE "Unavailable")

\* parse_fetch_message.  `mine' is whether the frame names this subscription.
ParseFetchMessage(frame, id, maximum) ==
    IF ~frame.array THEN Decided(Err("Rejected"))
    ELSE CASE frame.label = "EVENT" /\ frame.mine ->
                  IF frame.event.id # id \/ frame.event.kind # NwcRequestKind
                  THEN Ignored
                  ELSE IF frame.event.length > maximum THEN Decided(Err("Rejected"))
                  ELSE Decided(Ok({frame.event}))
           [] frame.label = "EOSE" /\ frame.mine -> Decided(Ok({}))
           [] frame.label = "CLOSED" /\ frame.mine -> Decided(Err("Unavailable"))
           [] OTHER -> Ignored

\* parse_publish_ack.
ParsePublishAck(frame, id) ==
    IF ~frame.array THEN Decided(Err("Rejected"))
    ELSE IF frame.label # "OK" \/ frame.id # id THEN Ignored
    ELSE CASE frame.accepted = "true" -> Decided(Ok("published"))
           [] frame.accepted = "false" -> Decided(Err("Unavailable"))
           [] OTHER -> Decided(Err("Rejected"))

FetchFrame(frame, id, maximum) ==
    CASE frame.kind = "text" -> ParseFetchMessage(frame, id, maximum)
      [] frame.kind = "close" -> Decided(Ok({}))
      [] frame.kind = "error" -> Decided(IoError(frame.oversized))
      [] OTHER -> Ignored

PublishFrame(frame, id) ==
    CASE frame.kind = "text" -> ParsePublishAck(frame, id)
      [] frame.kind = "close" -> Decided(Err("Unavailable"))
      [] frame.kind = "error" -> Decided(IoError(frame.oversized))
      [] OTHER -> Ignored

IsFirst(i, S) == i \in S /\ \A j \in S : i <= j

\* relay_connect_error and the status check: a redirect is never followed.
ConnectError(connect) ==
    Err(IF connect = "redirect" THEN "Rejected" ELSE "Unavailable")

FetchDeciding(frames, id, maximum) ==
    {i \in 1..Len(frames) : FetchFrame(frames[i], id, maximum).decided}

FetchRelayEvent(connect, frames, id, maximum) ==
    IF maximum = 0 THEN Err("Rejected")
    ELSE IF connect # "open" THEN ConnectError(connect)
    ELSE LET S == FetchDeciding(frames, id, maximum)
         IN  IF S = {} THEN Ok({})
             ELSE FetchFrame(frames[CHOOSE i \in S : IsFirst(i, S)], id, maximum).answer

PublishDeciding(frames, id) == {i \in 1..Len(frames) : PublishFrame(frames[i], id).decided}

\* The event's own id is read from its JSON; one that has none is Rejected.
PublishRelayEvent(connect, frames, id) ==
    IF id = "none" THEN Err("Rejected")
    ELSE IF connect # "open" THEN ConnectError(connect)
    ELSE LET S == PublishDeciding(frames, id)
         IN  IF S = {} THEN Err("Unavailable")
             ELSE PublishFrame(frames[CHOOSE i \in S : IsFirst(i, S)], id).answer
=============================================================================
