----------------------------- MODULE MCAIGateway -----------------------------
(* A small instance of AIGateway: one call falls back from a model that has a  *)
(* price to one that has none, of a provider with a budget of its own; another*)
(* call uses the first model only.                                            *)
EXTENDS AIGateway

CONSTANTS c1, c2, priced, unpriced, global, provider

TwoCalls == {c1, c2}
TwoModels == {priced, unpriced}
TwoBudgets == {global, provider}
Routes == [i \in TwoCalls |-> IF i = c1 THEN <<priced, unpriced>> ELSE <<priced>>]
Scopes == [t \in TwoModels |-> IF t = priced THEN {global} ELSE {global, provider}]
Prices == [t \in TwoModels |-> IF t = priced THEN 1 ELSE None]
EstimateOrTwice == {1, 2}
RetryUnpriced == [t \in TwoModels |-> IF t = unpriced THEN 1 ELSE 0]

\* One priced attempt fits into a day, and two into the month.
Strict == [enabled |-> TRUE, daily |-> 1, monthly |-> 2, policy |-> "allow_once"]
Off == [Strict EXCEPT !.enabled = FALSE]
FirstRules == [b \in TwoBudgets |-> Strict]
ProviderRules == [b \in TwoBudgets |-> IF b = provider THEN {Strict, Off} ELSE {}]

-----------------------------------------------------------------------------
(* The adapter, on every kind of request and answer.                         *)
Adapter == INSTANCE ProviderAnswer

Urls == [scheme : {"http", "https", "ftp"}, clean : BOOLEAN, http : BOOLEAN,
         host : {"public", "restricted", "unknown"}, private : BOOLEAN]
Requests == [kind : {"text", "structured", "embedding"}, mode : {"json_schema", "bad"},
             credential : BOOLEAN, url : Urls]
Nets == [net : {"timeout", "network", "protocol"}, status : {0}, body : {"none"},
         usage : {None}]
Refusals == [net : {"answer"}, status : {302, 400, 401, 403, 404, 408, 422, 429, 500, 503, 504},
             body : {"none"}, usage : {None}]
Bodies == [net : {"answer"}, status : {200},
           body : {"binary", "shapeless", "refusal", "text", "json", "object", "vectors"},
           usage : Costs \union {None}]
Outcomes == Nets \union Refusals \union Bodies

\* Answer's codes and costs are those of the adapter.
ASSUME AnswersCovered ==
  {<<Adapter!CodeOf(r, o), Adapter!UsageOf(r, o)>> : r \in Requests, o \in Outcomes}
    = ({"ok", "parse"} \X (Costs \union {None}))
      \union ({"schema", "limited", "timeout", "garbled", "refused"} \X {None})

\* What an answer was charged and nobody saw is suspected.
ASSUME BillsAreSuspected ==
  \A r \in Requests, o \in Outcomes : Adapter!BillsSuspected(r, o, PossiblyBilled)

\* Three texts come back with their vectors.
Three == [1 .. 3 -> [index : 0 .. 2, vector : {"u", "v", "w"}]]
ASSUME VectorsKeepTexts ==
  \A data \in Three : Adapter!VectorsInOrder(data, <<"u", "v", "w">>)
=============================================================================
