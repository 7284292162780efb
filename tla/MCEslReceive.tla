---------------------------- MODULE MCEslReceive ----------------------------
(* Small instances of EslReceive, with messages in the server's formats.   *)
EXTENDS EslReceive

MCHeader == {"ct:auth", "ct:reply", "ct:api", "ct:plain", "ct:notice",
             "cl:1", "cl:3", "cl:x", "other"}

MCByte == MCHeader \cup {NUL, LF, CR, "b"}

MCNameOf(h) == CASE h \in {"cl:1", "cl:3", "cl:x"} -> "content-length"
                 [] h = "other" -> "other"
                 [] OTHER -> "content-type"

MCValueOf(h) == CASE h = "ct:auth" -> "auth/request"
                  [] h = "ct:reply" -> "command/reply"
                  [] h = "ct:api" -> "api/response"
                  [] h = "ct:plain" -> "text/event-plain"
                  [] h = "ct:notice" -> "text/disconnect-notice"
                  [] OTHER -> h

MCLengthOf(v) == CASE v = "cl:1" -> 1 [] v = "cl:3" -> 3 [] OTHER -> BadLength

AuthRequest == <<"ct:auth", LF, LF>>
Reply == <<"ct:reply", LF, "other", LF, LF>>
ApiResponse == <<"ct:api", LF, "cl:1", LF, LF, "b">>
PlainEvent == <<"cl:3", LF, "ct:plain", LF, LF, "b", LF, LF>>
Notice == <<"other", LF, "ct:notice", LF, "cl:1", LF, LF, "b">>
BadLengthMessage == <<"other", LF, "cl:x", LF, LF>>

MCMessages == {AuthRequest, ApiResponse, PlainEvent, Notice, BadLengthMessage}
MCTwoMessages == {AuthRequest, ApiResponse}

(* "prints the reply body if present" (README.md): the body of a response  *)
(* reaches the application as it was sent.                                 *)
BodiesIntact ==
  \A i \in 1 .. Len(delivered) :
    delivered[i].body # None => delivered[i].body \in {<<"b">>, <<"b", LF, LF>>}
=============================================================================
