-------------------------------- MODULE Claims --------------------------------
(***************************************************************************)
(* The verification of published claims (tools/verify_claims.py): every    *)
(* claim goes to N verifiers at once, through a local proxy or directly;   *)
(* a verdict that cites has its citation checked against the page; the     *)
(* verdicts left are counted.  Providers fail, models invent, pages come   *)
(* and go; the report is written at the end, or not at all.                *)
(***************************************************************************)
EXTENDS Naturals, Sequences, FiniteSets

CONSTANTS
    Claims,     \* how many claims the file has
    Verifiers,  \* verifiers per claim, also more than there are providers
    Pools       \* per route, its providers in order

ASSUME ClaimsAssumption ==
    {Claims, Verifiers} \subseteq Nat /\ DOMAIN Pools = {"proxy", "direct", "free"}

VARIABLE check \* the run: step, verifiers, tokens spent, the claims so far, each with the
               \* outcome of every verifier, and the report
claimsVars == <<check>>

\* auto takes the proxy when it answers, a refusal included.
ResolveVia(via, proxyIsUp) ==
    IF via # "auto" THEN via ELSE IF proxyIsUp THEN "proxy" ELSE "direct"

\* Every provider once before any of them twice.
SelectVerifiers(route) ==
    [i \in 1..Verifiers |-> Pools[route][((i - 1) % Len(Pools[route])) + 1]]

Pending == [call |-> "pending", cites |-> "nothing", page |-> "unread"]
ClaimsInit == check = [at |-> "off", verifiers |-> <<>>, claims |-> <<>>, report |-> <<>>]

\* The file is read whole; a claim without its fields, or no verifier, ends it there.
StartCheck ==
    /\ check.at = "off"
    /\ \E via \in {"auto", "proxy", "direct", "free"}, up, wellFormed \in BOOLEAN :
          check' = IF ~wellFormed \/ Verifiers = 0 THEN [check EXCEPT !.at = "refused"]
                   ELSE [check EXCEPT !.at = "claim", !.verifiers = SelectVerifiers(ResolveVia(via, up))]

\* What a model says: a call, and a url and a quote, or half of them.
ParseVerdict(answer) == answer.call \in {"supported", "refuted", "unresolved"}
Answers == [call : {"supported", "refuted", "unresolved", "garbage"},
            cites : {"nothing", "half", "both"}]

\* What a fetch of the cited page shows.
FetchUrl == {"quoted", "not_quoted", "unreachable", "broken"}

\* (mutant) a page that cannot be fetched is given the benefit of the doubt
GateTrusting(answer, page) ==
    IF answer.call = "unresolved" /\ answer.cites = "nothing" THEN answer.call
    ELSE IF answer.cites = "both" /\ page \in {"quoted", "unreachable"} THEN answer.call
    ELSE "fabricated_citation"
\* An empty unresolved has nothing to check; any other verdict needs its quote on its page.
ApplyCitationGate(answer, page) ==
    IF answer.call = "unresolved" /\ answer.cites = "nothing" THEN answer.call
    ELSE IF answer.cites = "both" /\ page = "quoted" THEN answer.call
    ELSE "fabricated_citation"

StartClaim ==
    /\ check.at = "claim" /\ Len(check.claims) < Claims
    /\ check' = [check EXCEPT !.at = "asked",
                              !.claims = Append(@, [i \in 1..Verifiers |-> Pending])]

Now == Len(check.claims)
Outcome(i, outcome) == check' = [check EXCEPT !.claims[Now][i] = outcome]
Failure == [call |-> "failed", cites |-> "nothing", page |-> "unread"]

\* No key, a refused or late call, an answer that does not parse, or a fetch that fails in a
\* way of its own: the provider counts as failed, and the others go on.
VerifierFails(i) ==
    /\ check.at = "asked" /\ check.claims[Now][i] = Pending
    /\ Outcome(i, Failure)

\* An answer is parsed and its citation fetched without another verifier in between; a page is
\* fetched only for a whole citation.
VerifierAnswers(i) ==
    /\ check.at = "asked" /\ check.claims[Now][i] = Pending
    /\ \E answer \in Answers, page \in FetchUrl :
          Outcome(i, IF ~ParseVerdict(answer) \/ (answer.cites = "both" /\ page = "broken") THEN Failure
                     ELSE [call |-> ApplyCitationGate(answer, page), cites |-> answer.cites,
                           page |-> IF answer.cites = "both" THEN page ELSE "unread"])

Votes(outcomes, call) == Cardinality({i \in DOMAIN outcomes : outcomes[i].call = call})
AggregateClaim(outcomes) ==
    [final |-> IF Votes(outcomes, "supported") > Votes(outcomes, "refuted") THEN "supported"
               ELSE IF Votes(outcomes, "refuted") > Votes(outcomes, "supported") THEN "refuted"
               ELSE "unresolved",
     citations |-> {i \in DOMAIN outcomes : outcomes[i].call \in {"supported", "refuted"}}]

\* gather waits for every verifier.
ClaimDone ==
    /\ check.at = "asked" /\ \A i \in 1..Verifiers : check.claims[Now][i] # Pending
    /\ check' = [check EXCEPT !.at = "claim"]

WriteReport ==
    /\ check.at = "claim" /\ Len(check.claims) = Claims
    /\ check' = [check EXCEPT !.at = "reported",
                              !.report = [k \in 1..Claims |-> AggregateClaim(check.claims[k])]]

ClaimsNext ==
    \/ StartCheck \/ StartClaim \/ ClaimDone \/ WriteReport
    \/ \E i \in 1..Verifiers : VerifierFails(i) \/ VerifierAnswers(i)

(***************************************************************************)
(* Properties                                                              *)
(***************************************************************************)

\* A call rests on pages: in the report a claim is supported, or refuted, only when more
\* verifiers said so with a quote that is on the page they cite than said the opposite.
CallsRestOnPages ==
    \A k \in DOMAIN check.report :
        LET shown(call) == Cardinality({i \in check.report[k].citations :
                /\ check.claims[k][i].call = call
                /\ check.claims[k][i].cites = "both" /\ check.claims[k][i].page = "quoted"})
        IN  /\ shown("supported") + shown("refuted") = Cardinality(check.report[k].citations)
            /\ check.report[k].final = "supported" => shown("supported") > shown("refuted")
            /\ check.report[k].final = "refuted" => shown("refuted") > shown("supported")
=============================================================================
