------------------------------ MODULE WireRules ------------------------------
(***************************************************************************)
(* The packet matrix of pkg/wire/validate.go: which datagram either end    *)
(* accepts in which admission phase.  A packet is a record with the header *)
(* fields Validate reads; tlvs is the set of its extension types, critical *)
(* bit removed.  Version, reserved flags and unknown TLVs are Decode's     *)
(* concern and always right here, and the Reason of a refusal is left out: *)
(* it only labels a metric.                                                *)
(***************************************************************************)
EXTENDS Naturals

Pre == {"pre"}
Confirming == {"connected"}
Admitted == {"connected", "ready"}
Ready == {"ready"}

Tx == {"transaction_id"}
Limit == {"transmit_time_limit"}

\* One line of the table: directions, phases, whether requests and responses
\* exist, the rules for session, stream, sequence and payload, and the TLVs.
Rule(directions, phases, kinds, session, stream, sequence, payload, request, response, optional) ==
    [directions |-> directions, phases |-> phases, kinds |-> kinds,
     session |-> session, stream |-> stream, sequence |-> sequence, payload |-> payload,
     requestRequired |-> request, responseRequired |-> response,
     optional |-> optional]

C == {"client"}
S == {"server"}
Both == {"client", "server"}
Req == {"request"}
Rsp == {"response"}
Either == {"request", "response"}

\* The phases of KEEPALIVE, and a mutant: only the confirmation is one.
KeepalivePhasesOnce == Confirming
KeepalivePhases == Admitted

Rules ==
    [HELLO |-> Rule(C, Pre, Req, "zero", "zero", "zero", "empty",
                    Tx \cup {"node", "client_nonce"}, {}, {}),
     CHALLENGE |-> Rule(S, Pre, Rsp, "zero", "zero", "zero", "empty",
                    {}, Tx \cup {"server_nonce", "reflector_id", "display_name"}, {}),
     AUTHENTICATE |-> Rule(C, Pre, Req, "zero", "zero", "zero", "empty",
                    Tx \cup {"client_nonce", "server_nonce"}, {}, {"authentication_tag"}),
     WELCOME |-> Rule(S, Pre \cup Confirming, Rsp, "nonzero", "zero", "zero", "empty",
                    {}, Tx \cup {"reflector_id", "display_name"}, {}),
     KEEPALIVE |-> Rule(Both, KeepalivePhases, Either, "nonzero", "zero", "zero", "empty",
                    Tx, Tx, {}),
     DISCONNECT |-> Rule(Both, Admitted, Either, "nonzero", "zero", "zero", "empty",
                    Tx, Tx, {}),
     ERROR |-> Rule(Both, Pre \cup Admitted, Rsp, "any", "any", "zero", "empty",
                    {}, {"error_code"}, Tx \cup {"error_text"}),
     STREAM_REQUEST |-> Rule(C, Ready, Req, "nonzero", "nonzero", "zero", "empty",
                    Tx \cup {"source"}, {}, {}),
     STREAM_GRANT |-> Rule(S, Ready, Rsp, "nonzero", "nonzero", "zero", "empty",
                    {}, Tx \cup Limit, {}),
     STREAM_BUSY |-> Rule(S, Ready, Rsp, "nonzero", "nonzero", "zero", "empty",
                    {}, Tx, {}),
     STREAM_START |-> Rule(Both, Ready, Either, "nonzero", "nonzero", "zero", "empty",
                    Tx \cup Limit \cup {"node", "source"}, Tx, {}),
     STREAM_END |-> Rule(Both, Ready, Either, "nonzero", "nonzero", "any", "empty",
                    Tx, Tx \cup {"end_reason"}, {}),
     STREAM_REVOKE |-> Rule(Both, Ready, Either, "nonzero", "nonzero", "any", "empty",
                    Tx \cup {"end_reason"}, Tx, {}),
     AUDIO |-> Rule(Both, Ready, Req, "nonzero", "nonzero", "any", "nonempty",
                    {}, {}, {}),
     DATA |-> Rule(Both, Ready, Req, "nonzero", "nonzero", "any", "nonempty",
                    {"data_type"}, {}, {})]

checkNumber(rule, value) ==
    /\ rule = "zero" => value = 0
    /\ rule = "nonzero" => value # 0

\* A START or a REVOKE is a notification of the server and its answer one of
\* the client; a STREAM_END is asked by the client.
FlagsFit(p, direction) ==
    LET response == "response" \in p.flags
    IN  /\ ~{"response", "retry"} \subseteq p.flags
        /\ (IF response THEN "response" ELSE "request") \in Rules[p.type].kinds
        /\ p.type \in {"AUDIO", "DATA"} => p.flags = {}
        /\ p.type \in {"STREAM_START", "STREAM_REVOKE"} => (direction = "client" <=> response)
        /\ p.type = "STREAM_END" => (direction = "server" <=> response)

\* Validate(p, context) == nil
Valid(p, direction, phase) ==
    LET rule == Rules[p.type]
        required == IF "response" \in p.flags THEN rule.responseRequired
                    ELSE rule.requestRequired
    IN  /\ direction \in rule.directions
        /\ phase \in rule.phases
        /\ FlagsFit(p, direction)
        /\ checkNumber(rule.session, p.session)
        /\ checkNumber(rule.stream, p.stream)
        /\ rule.sequence = "zero" => p.sequence = 0
        /\ (rule.payload = "nonempty") <=> p.payload
        /\ required \subseteq p.tlvs
        /\ p.tlvs \subseteq required \cup rule.optional
=============================================================================
