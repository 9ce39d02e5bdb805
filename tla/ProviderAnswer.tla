--------------------------- MODULE ProviderAnswer ---------------------------
(* The adapter of OpenAI-compatible providers                               *)
(* (packages/ai_gateway/openai_compatible.py): what a request comes to, as  *)
(* one of the error codes that AIGateway tells apart, and how much of what  *)
(* the provider charges reaches the gateway.                                *)
(*                                                                          *)
(* A request is [kind, mode, credential, url], its url [scheme, clean,      *)
(* host, http, private]: the two flags of the provider's configuration last.*)
(* What happens to it is [net, status, body, usage]; usage is the cost      *)
(* of the usage the body reports, None where it reports none.               *)
EXTENDS Integers, Sequences, SequencesExt

CONSTANT None

\* validate_provider_base_url and the credential resolver: before any network
\* call, except for looking up the host's name.
UrlAllowed(u) ==
    /\ u.scheme \in {"http", "https"} /\ u.clean
    /\ u.scheme = "http" => u.http
    /\ u.private \/ u.host = "public"
Unresolved(u) == ~u.private /\ u.host = "unknown"
Sent(req) ==
    /\ req.kind = "structured" => req.mode # "bad"
    /\ req.credential /\ UrlAllowed(req.url)

\* _http_error.
StatusCode(got) ==
    CASE got.status = 429 -> "limited"
      [] got.status \in {408, 504} -> "timeout"
      [] got.status \in (500 .. 599) \ {504} -> "limited"
      [] OTHER -> "refused"

\* _message_content and what each kind of request expects of it.
Readable(req, body) ==
    IF req.kind = "embedding" THEN body = "vectors" ELSE body \in {"text", "json", "object"}
Answered(req, body) ==
    CASE ~Readable(req, body) -> "garbled"
      [] req.kind = "structured" /\ body = "text" -> "parse"
      [] req.kind = "structured" /\ body = "json" -> "schema"
      [] OTHER -> "ok"

\* A request that is not sent is refused, but for a host without an address;
\* then the transport, the status and the body decide.
Reached(req) == Sent([req EXCEPT !.url.host = "public"]) /\ Unresolved(req.url)
CodeOf(req, got) ==
    CASE ~Sent(req) -> IF Reached(req) THEN "timeout" ELSE "refused"
      [] Sent(req) /\ got.net \in {"timeout", "network"} -> "timeout"
      [] Sent(req) /\ got.net = "protocol" -> "refused"
      [] Sent(req) /\ got.net = "answer" ->
           IF got.status \in 200 .. 299 THEN Answered(req, got.body) ELSE StatusCode(got)

\* The usage that reaches the gateway.
UsageOf(req, got) == IF CodeOf(req, got) \in {"ok", "parse"} THEN got.usage ELSE None

\* embed: sorted by index, 0 where there is none; the sort is stable.
VectorsOf(data) ==
    LET places == SetToSortSeq(DOMAIN data,
                      LAMBDA i, j : data[i].index < data[j].index
                                    \/ (data[i].index = data[j].index /\ i < j))
    IN  [i \in DOMAIN data |-> data[places[i]].vector]

----------------------------------------------------------------------------
\* The provider charges for an answer, and the gateway is told of no usage.
ChargedUnseen(req, got) ==
    /\ Sent(req) /\ got.net = "answer" /\ got.status \in 200 .. 299 /\ got.usage # None
    /\ UsageOf(req, got) = None

\* The gateway suspects a bill (suspects, its set of codes) wherever there is
\* one that it does not see, but for an answer that is JSON and no object; and
\* where nothing was sent it suspects none, but for a host without an address.
BillsSuspected(req, got, suspects) ==
    /\ ChargedUnseen(req, got) => CodeOf(req, got) \in suspects \union {"schema"}
    /\ ~Sent(req) => CodeOf(req, got) \notin suspects \/ Unresolved(req.url)

\* A text comes back with the vector that was computed for it, if the provider
\* numbers the answers or sends them in order.
VectorsInOrder(data, vectors) ==
    \/ \A i \in DOMAIN data : data[i].index = 0 /\ data[i].vector = vectors[i]
    \/ /\ {data[i].index : i \in DOMAIN data} = 0 .. Len(data) - 1
       /\ \A i \in DOMAIN data : data[i].vector = vectors[data[i].index + 1]
    => VectorsOf(data) = vectors
=============================================================================
