----------------------------- MODULE Negotiation -----------------------------
(***************************************************************************)
(* How the three echo servers judge one HTTP/3 request and which response  *)
(* headers they choose: src/bin/tokio_quiche_wt_echo.rs, src/main.rs and   *)
(* scripts/aioquic-wt-echo.py.  The header fields arrive as a list, in     *)
(* which a name may occur again.                                           *)
(*                                                                         *)
(* A path is its part before the query and whether there is one; an offer  *)
(* of protocols is "token" when "quicast-wt-v0" is one of its tokens and   *)
(* "inside" when it only occurs within another.                            *)
(***************************************************************************)
EXTENDS Integers, Sequences, FiniteSets

CONSTANTS
  Methods, Protocols, Paths, Queries, Offers, Origins,   \* the values sent
  MaxFields     \* bound: the fields of one request

ASSUME NegotiationAssumption == Queries \subseteq BOOLEAN

Path(base, query) == [base |-> base, query |-> query]

(* The fields that any server looks at; those of the first kind occur once *)
(* in a request that the HTTP/3 libraries let through.                     *)
Pseudo == {"method", "protocol", "path"}
Names == Pseudo \cup {"offer", "origin"}
None == "none"  \* a field that is absent
NoFields == [n \in Names |-> IF n = "path" THEN Path(None, FALSE) ELSE None]
ValuesOf == [method |-> Methods, protocol |-> Protocols,
             path |-> {Path(b, q) : b \in Paths, q \in Queries},
             offer |-> Offers, origin |-> Origins]

(* The bases below the prefix "/wt".                                       *)
BelowWt == {"/wt", "/wt/", "/wt/basic", "/wt/h3-token", "/wt/protocol",
            "/wt/capsule", "/wt/init", "/wt/draft", "/wt/yggdrasil",
            "/wt/auto", "/wtx"}

Header(name, value) == [name |-> name, value |-> value]
PushProtocolCapsuleInit == {Header("wt-protocol", "quicast-wt-v0"),
                            Header("capsule-protocol", "?1"),
                            Header("webtransport-init", "u, bl, br")}
Cors(origin) == IF origin = None THEN {}
                ELSE {Header("access-control-allow-origin", origin),
                      Header("access-control-allow-credentials", "true"),
                      Header("vary", "origin")}
Yggdrasil(origin) == {Header("server", "yggdrasil")} \cup PushProtocolCapsuleInit
                     \cup Cors(origin)
Answer(status, headers) == [status |-> status, headers |-> headers]
NotFound == Answer("404", {})

-----------------------------------------------------------------------------
(* Mutated: the first of them is kept. *)
KeepFirst(fields, f) ==
  IF fields[f.name] = NoFields[f.name] THEN [fields EXCEPT ![f.name] = f.value] ELSE fields

(* The tokio-quiche server: from_headers keeps the last of the fields of   *)
(* one name.                                                               *)
Keep(fields, f) == [fields EXCEPT ![f.name] = f.value]

(* It compares whole paths, query included, and looks for the name of the  *)
(* protocol anywhere in the offer.                                         *)
TokioHeaders(fields) ==
  LET base       == IF fields.path.query THEN "with a query" ELSE fields.path.base
      negotiated == fields.offer \in {"token", "inside"}
  IN CASE base = "/wt/protocol" -> {Header("wt-protocol", "quicast-wt-v0")}
       [] base = "/wt/capsule" -> {Header("wt-protocol", "quicast-wt-v0"),
                                   Header("capsule-protocol", "?1")}
       [] base = "/wt/init" -> PushProtocolCapsuleInit
       [] base = "/wt/draft" -> {Header("sec-webtransport-http3-draft", "draft02")}
       [] base = "/wt/yggdrasil" \/ (base = "/wt/auto" /\ negotiated) ->
            Yggdrasil(fields.origin)
       [] OTHER -> {}

TokioIsHealth(fields) ==
  fields.method = "GET" /\ fields.path = Path("/healthz", FALSE)

TokioIsWebTransport(fields) ==
  /\ fields.method = "CONNECT"
  /\ fields.protocol \in {"webtransport", "webtransport-h3"}
  /\ fields.path.base \in BelowWt

TokioAnswer(fields) ==
  CASE TokioIsHealth(fields) -> Answer("200", {})
    [] TokioIsWebTransport(fields) -> Answer("200", TokioHeaders(fields))
    [] OTHER -> NotFound

-----------------------------------------------------------------------------
(* The aioquic server: header_map keeps the last field of a name, too; the *)
(* query is split off, and the offer taken apart at its commas.            *)
LastValue(l, name) ==
  LET at == {i \in DOMAIN l : l[i].name = name}
  IN IF at = {} THEN NoFields[name]
     ELSE l[CHOOSE i \in at : \A j \in at : j <= i].value

BaseOf(l) == LastValue(l, "path").base

AioquicHeaders(l) ==
  LET base == BaseOf(l)
  IN CASE base = "/wt/protocol" -> {Header("wt-protocol", "quicast-wt-v0")}
       [] base = "/wt/capsule" -> {Header("wt-protocol", "quicast-wt-v0"),
                                   Header("capsule-protocol", "?1")}
       [] base = "/wt/init" -> PushProtocolCapsuleInit
       [] base = "/wt/draft" -> {Header("sec-webtransport-http3-draft", "draft02")}
       [] \/ base = "/wt/yggdrasil"
          \/ base = "/wt/auto" /\ LastValue(l, "offer") = "token" ->
            Yggdrasil(LastValue(l, "origin"))
       [] OTHER -> {}

NoStore == Header("cache-control", "no-store")
AioquicHealth == {Header("content-type", "text/plain; charset=utf-8"),
                  Header("content-length", "3"), NoStore}

(* Unlike the tokio-quiche server it gives headers to a health check and   *)
(* to what it refuses.                                                     *)
AioquicAnswer(l) ==
  CASE LastValue(l, "method") = "GET" /\ BaseOf(l) = "/healthz" ->
         Answer("200", AioquicHealth)
    [] /\ LastValue(l, "method") = "CONNECT"
       /\ LastValue(l, "protocol") \in {"webtransport", "webtransport-h3"}
       /\ BaseOf(l) \in BelowWt -> Answer("200", AioquicHeaders(l))
    [] OTHER -> Answer("404", {NoStore})

-----------------------------------------------------------------------------
(* The quinn server takes any CONNECT below /wt for a session, without a   *)
(* query, and knows neither /wt/yggdrasil nor /wt/auto.                    *)
QuinnHeaders(base) ==
  CASE base = "/wt/protocol" -> {Header("wt-protocol", "quicast-wt-v0")}
    [] base = "/wt/capsule" -> {Header("wt-protocol", "quicast-wt-v0"),
                                Header("capsule-protocol", "?1")}
    [] base = "/wt/init" -> PushProtocolCapsuleInit
    [] base = "/wt/draft" -> {Header("sec-webtransport-http3-draft", "draft02")}
    [] OTHER -> {}

QuinnAnswer(l) ==
  IF LastValue(l, "method") = "CONNECT" /\ BaseOf(l) \in BelowWt
  THEN Answer("200", QuinnHeaders(BaseOf(l))) ELSE NotFound

-----------------------------------------------------------------------------
VARIABLES
  list,     \* the fields of the request as they came
  kept      \* what from_headers has kept of them
requestVars == <<list, kept>>

NegotiationInit == list = <<>> /\ kept = NoFields

(* The next field of the list.                                             *)
NextField ==
  /\ Len(list) < MaxFields
  /\ \E name \in Names \ {n \in Pseudo : kept[n] # NoFields[n]} :
     \E value \in ValuesOf[name] :
       LET f == Header(name, value)
       IN list' = Append(list, f) /\ kept' = Keep(kept, f)

NegotiationSpec == NegotiationInit /\ [][NextField]_requestVars

-----------------------------------------------------------------------------
(* A request that the page or the probe can make: no query, and an offer   *)
(* that names the protocol as a token or not at all.                       *)
Plain == ~kept.path.query /\ kept.offer # "inside"

(* The three servers are one test matrix (RESULTS.md:376, README.md:415):  *)
(* whatever the fields and their order, tokio-quiche and aioquic accept    *)
(* the same sessions, health checks and nothing else, and answer a session *)
(* with the same headers; and so does quinn, below a path that it knows.   *)
(* Health checks and refusals have headers from aioquic alone.             *)
Accepted(answer) == kept.method = "CONNECT" /\ answer.status = "200"
ServersAgree ==
  Plain =>
    /\ TokioAnswer(kept).status = AioquicAnswer(list).status
    /\ Accepted(TokioAnswer(kept)) => TokioAnswer(kept) = AioquicAnswer(list)
    /\ Accepted(TokioAnswer(kept)) /\ kept.path.base \notin {"/wt/yggdrasil", "/wt/auto"}
         => QuinnAnswer(list) = TokioAnswer(kept)
=============================================================================
