---------------------------- MODULE MCBackOffice ----------------------------
(***************************************************************************)
(* Small instances of the parts around the pipeline that share no state    *)
(* with it or with each other: one part moves in a behaviour, chosen at    *)
(* the start, while the others stay in one state they may start in.  The   *)
(* states of this specification are those of the parts, one after another. *)
(***************************************************************************)
EXTENDS Accounts, LoginThrottle, LiveStreams, TokenRefresh, Erasure, StandaloneTools,
        ApiTokens, ConfigEditor

CONSTANTS newer, d1, m1, u1   \* the jobs of MCQueues

VARIABLE part

Parts == {"accounts", "throttle", "streams", "tokens", "erasure", "tools", "api", "editor"}

\* The deal's jobs behind another's, newest first: each completed or active.
MCAge == <<newer, d1, m1, u1>>
MCQueues ==
  {[s \in QueueState |-> SelectSeq(MCAge, LAMBDA j : s = IF j \in active THEN "active" ELSE "completed")] :
     active \in SUBSET Job}

\* Phobs offers nothing, one unit or two, sold out or not, at different prices.
MCOffers(sku) == {[sku |-> sku, units |-> u, price |-> p] : u \in {0, 1}, p \in 0..2}
MCResponse ==
  {<<>>} \cup {<<a>> : a \in MCOffers("A")}
         \cup {<<a, b>> : a \in MCOffers("A"), b \in MCOffers("B")}

AccountsStays == account = NoRow
ErasureStays == inState["completed"] = MCAge /\ ran = {}
\* The API tokens are of different tenants, one way round.
MCTokens ==
  /\ \A t, u \in ApiToken : t # u => apiTokens[t].hub # apiTokens[u].hub
  /\ LET t == CHOOSE t \in ApiToken : TRUE
     IN  apiTokens[t].hub = CHOOSE h \in Tenant : TRUE
EditorStays == configRow = NoFields
ThrottleStays == \A a \in Attempt : attempt[a].ip = CHOOSE i \in Ip : TRUE

Init ==
  /\ part \in Parts
  /\ AccountsInit /\ (part # "accounts" => AccountsStays)
  /\ ThrottleInit /\ (part # "throttle" => ThrottleStays)
  /\ StreamsInit
  /\ TokensInit
  /\ ErasureInit /\ (part # "erasure" => ErasureStays)
  /\ ToolsInit
  /\ ApiInit /\ MCTokens
  /\ EditorInit /\ (part # "editor" => EditorStays)

Others(moving) ==
  /\ part = moving /\ UNCHANGED part
  /\ moving # "accounts" => UNCHANGED accountVars
  /\ moving # "throttle" => UNCHANGED throttleVars
  /\ moving # "streams" => UNCHANGED streamVars
  /\ moving # "tokens" => UNCHANGED tokenVars
  /\ moving # "erasure" => UNCHANGED erasureVars
  /\ moving # "tools" => UNCHANGED toolVars
  /\ moving # "api" => UNCHANGED apiVars
  /\ moving # "editor" => UNCHANGED editorVars

Next ==
  \/ Others("accounts") /\ AccountsNext
  \/ Others("throttle") /\ ThrottleNext
  \/ Others("streams") /\ StreamsNext
  \/ Others("tokens") /\ TokensNext
  \/ Others("erasure") /\ ErasureNext
  \/ Others("tools") /\ ToolsNext
  \/ Others("api") /\ ApiNext
  \/ Others("editor") /\ EditorNext

allVars == <<part, accountVars, throttleVars, streamVars, tokenVars, erasureVars, toolVars,
             apiVars, editorVars>>

Spec == Init /\ [][Next]_allVars

\* The moving part's state is of its type; the others' is one it starts in.
TypesOK ==
  CASE part = "accounts" -> AccountsTypeOK
    [] part = "throttle" -> ThrottleTypeOK
    [] part = "streams" -> StreamsTypeOK
    [] part = "tokens" -> TokensTypeOK
    [] part = "erasure" -> ErasureTypeOK
    [] part = "tools" -> ToolsTypeOK
    [] part = "api" -> ApiTokensTypeOK
    [] part = "editor" -> EditorTypeOK
=============================================================================
