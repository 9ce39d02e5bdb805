--------------------------- MODULE MCEditorialDesk ---------------------------
(* A signal, a claim, a question, a scoring run and two drafting runs. *)
EXTENDS EditorialDesk, TLC

CONSTANTS s1, c1, u1, k1, d1, d2, None

SameNames == Permutations({d1, d2})

----------------------------------------------------------------------------
(* The verifier, on chains of one or two of everything: a real provider, one *)
(* that only pretends, and one whose validation did not pass.                *)
Gates == INSTANCE EndToEndGate WITH RunnableAt <- LAMBDA account, at : TRUE

Providers == [real |-> [fake |-> FALSE, enabled |-> TRUE, passed |-> TRUE],
              mock |-> [fake |-> TRUE, enabled |-> TRUE, passed |-> TRUE],
              other |-> [fake |-> FALSE, enabled |-> TRUE, passed |-> FALSE]]
Answered(provider, ok) ==
    [task |-> "draft_generation", provider |-> provider, ok |-> ok,
     attempts |-> {[provider |-> "mock", ok |-> TRUE], [provider |-> provider, ok |-> ok]}]
Invocations == {Answered(p, ok) : p \in DOMAIN Providers, ok \in BOOLEAN}
Produced(signals, attached, sources, made, shown, bundles, draft) ==
    [run |-> [ok |-> TRUE, crawler |-> TRUE, signals |-> signals], merged |-> FALSE,
     members |-> attached, sources |-> sources, trends |-> 1, scores |-> shown, candidate |-> TRUE,
     decisions |-> <<[candidate |-> TRUE, kind |-> "adopt"]>>, cards |-> 2, packs |-> bundles,
     draft |-> draft, invocations |-> made, providers |-> Providers]
DraftRows == [card : 1..2, pack : 1..2, ai : BOOLEAN, invocation : 1..2,
              references : SUBSET BOOLEAN]

\* Every collection of a chain that is written, and every writing of one that
\* is collected.
Two == SUBSET (1..2)
ASSUME ChainsFollowed ==
    /\ \A signals, attached, sources \in Two, made \in [1..2 -> Invocations] :
           Gates!VerifierTells(Produced(signals, attached, sources, made, <<1>>, <<2>>,
               [card |-> 2, pack |-> 1, ai |-> TRUE, invocation |-> 2, references |-> {TRUE}]))
    /\ \A made \in [1..2 -> Invocations], shown \in {<<>>, <<1>>, <<2, 1>>},
          bundles \in {<<>>, <<1>>, <<2>>, <<1, 2>>}, draft \in DraftRows :
           Gates!VerifierTells(Produced({1}, {1}, {1}, made, shown, bundles, draft))
=============================================================================
