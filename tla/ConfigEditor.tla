---------------------------- MODULE ConfigEditor ----------------------------
(***************************************************************************)
(* The page on which admins edit a tenant's configuration, in several      *)
(* browsers: the cached answer of its query, the form it filled from it,   *)
(* the edits, the PUT of the whole form and the refetch that follows.  The *)
(* server's side of the PUT is here one step; TenantConfig has its steps.  *)
(* The fields stand for the four ways a field is edited and sent: "main"   *)
(* always (the text fields, the property rules, the rate filters), "code"  *)
(* only if typed (the secrets), "days" and "skips" if the overrides were   *)
(* loaded: the conditions that skip a deal, and the other overrides.       *)
(***************************************************************************)
EXTENDS Integers

CONSTANTS
  Editor,      \* browsers with the page open
  Value,       \* what is typed into a field
  DefaultValue,  \* what it holds otherwise
  Unset,       \* an empty or missing field
  MaxEdits, MaxPuts   \* bounds

ASSUME ConfigEditorAssumption ==
  /\ Unset \notin Value \cup {DefaultValue}
  /\ {MaxEdits, MaxPuts} \subseteq Nat

VARIABLES
  configRow,   \* [ConfigField -> value]; "main" is Unset when there is no row
  puts,        \* writes of the row so far, its version
  edits,       \* edits so far
  editor       \* [Editor -> state of the page]

editorVars == <<configRow, puts, edits, editor>>

ConfigField == {"main", "code", "days", "skips"}
OverrideField == {"days", "skips"}
Content == Value \cup {DefaultValue, Unset}
Fields == [ConfigField -> Content]
NoFields == [f \in ConfigField |-> Unset]
NoPut == [state |-> "none", body |-> NoFields, typed |-> NoFields, base |-> 0]

EditorState ==
  [query: {"pending", "missing", "data"},   \* the query's status
   data: Fields, at: 0..MaxPuts,            \* its data, and the row's version they show
   fetching: BOOLEAN, hydrated: BOOLEAN,
   form: Fields,                            \* "days", "skips" Unset: overrides is null
   drawn: Content,                          \* "days" when the condition rows were drawn
   drawnTyped: Content,                     \* ghost: what had been typed into it then
   typed: Fields,                           \* ghost: edits since the page opened or saved
   base: 0..MaxPuts,                        \* ghost: version it was filled from
   put: [state: {"none", "sent", "ok"}, body: Fields, typed: Fields, base: 0..MaxPuts]]

Untouched == [query |-> "pending", data |-> NoFields, at |-> 0, fetching |-> TRUE,
              hydrated |-> FALSE, form |-> NoFields, drawn |-> Unset,
              drawnTyped |-> Unset, typed |-> NoFields, base |-> 0, put |-> NoPut]

EditorTypeOK ==
  /\ configRow \in Fields
  /\ puts \in 0..MaxPuts /\ edits \in 0..MaxEdits
  /\ editor \in [Editor -> EditorState]

\* A tenant with a configuration, or one that has only installed the app.
EditorInit ==
  /\ configRow \in {NoFields, [f \in ConfigField |-> DefaultValue]}
  /\ puts = 0 /\ edits = 0
  /\ editor = [e \in Editor |-> Untouched]

-----------------------------------------------------------------------------
\* The effect that fills the form, once, from whatever the query holds; a tenant
\* without a row gets the empty form.  A secret is never filled in.
FillAgain(p) ==
  IF p.query = "pending" THEN p
  ELSE LET form == IF p.query = "missing" THEN NoFields ELSE [p.data EXCEPT !["code"] = Unset]
       IN  [p EXCEPT !.hydrated = TRUE, !.form = form, !.drawn = form["days"], !.base = p.at]
Fill(p) == IF p.hydrated THEN p ELSE FillAgain(p)

\* Every change of the query or of "hydrated" runs the effect.
Becomes(e, p) == editor' = [editor EXCEPT ![e] = Fill(p)]

\* A query without data is pending while it is fetched; one with data keeps them.
Fetching(p) ==
  [p EXCEPT !.fetching = TRUE, !.query = IF @ = "data" THEN "data" ELSE "pending"]

\* GET /tenants/:hubId/config answers with the row, or that there is none.
QueryAnswers(e) ==
  /\ editor[e].fetching
  /\ Becomes(e, [editor[e] EXCEPT !.fetching = FALSE, !.data = configRow, !.at = puts,
                   !.query = IF configRow["main"] = Unset THEN "missing" ELSE "data"])
  /\ UNCHANGED <<configRow, puts, edits>>

\* The page is left, with no PUT under way, and opened again: the query's data are
\* kept, and fetched again unless they are fresh.
PageReopens(e) ==
  /\ editor[e].query # "pending" /\ editor[e].put.state = "none"
  /\ \E stale \in BOOLEAN :
       LET p == [Untouched EXCEPT !.query = editor[e].query, !.data = editor[e].data,
                                  !.at = editor[e].at, !.fetching = editor[e].fetching]
       IN  Becomes(e, IF stale \/ p.query = "missing" THEN Fetching(p) ELSE p)
  /\ UNCHANGED <<configRow, puts, edits>>

-----------------------------------------------------------------------------
Edits(e, form, typed, drawn, drawnTyped) ==
  /\ editor[e].query # "pending" /\ editor[e].hydrated
  /\ edits < MaxEdits /\ edits' = edits + 1
  /\ editor' = [editor EXCEPT ![e].form = form, ![e].typed = typed,
                              ![e].drawn = drawn, ![e].drawnTyped = drawnTyped]
  /\ UNCHANGED <<configRow, puts>>

\* setField, touch.
EditField(e, f, v) ==
  LET p == editor[e]
  IN  /\ f \notin OverrideField
      /\ Edits(e, [p.form EXCEPT ![f] = v], [p.typed EXCEPT ![f] = v], p.drawn, p.drawnTyped)

\* patch: an override other than a condition is spread over the current ones.
EditOverride(e, v) ==
  LET p == editor[e]
  IN  /\ p.form["days"] # Unset
      /\ Edits(e, [p.form EXCEPT !["days"] = v], [p.typed EXCEPT !["days"] = v],
               p.drawn, p.drawnTyped)

\* "+ Add condition" spreads the current overrides, and the condition rows are drawn again.
AddCondition(e, v) ==
  LET p == editor[e]
  IN  /\ p.form["skips"] # Unset
      /\ Edits(e, [p.form EXCEPT !["skips"] = v], [p.typed EXCEPT !["skips"] = v],
               p.form["days"], p.typed["days"])

\* A condition's own row was drawn when the conditions last changed, and spreads the
\* overrides as they were then: what was typed into another override since is dropped.
EditCondition(e, v) ==
  LET p == editor[e]
  IN  /\ p.form["skips"] # Unset
      /\ Edits(e, [p.form EXCEPT !["skips"] = v, !["days"] = p.drawn],
               [p.typed EXCEPT !["skips"] = v, !["days"] = p.drawnTyped],
               p.drawn, p.drawnTyped)

-----------------------------------------------------------------------------
\* The body has every field, the secret only if typed, the overrides only if loaded.
ClickSave(e) ==
  LET p == editor[e]
  IN  /\ p.query # "pending" /\ p.hydrated /\ p.put.state = "none"
      /\ p.form["main"] # Unset
      /\ editor' = [editor EXCEPT ![e].put = [state |-> "sent", body |-> p.form,
                                              typed |-> p.typed, base |-> p.base]]
      /\ UNCHANGED <<configRow, puts, edits>>

\* PUT: fields that are not in the body stay.  The first one inserts the row, with
\* defaults, and the request fails afterwards, in its history row: onError.
PutRow(e) ==
  LET body == editor[e].put.body
      new == configRow["main"] = Unset
  IN  /\ editor[e].put.state = "sent"
      /\ puts < MaxPuts /\ puts' = puts + 1
      /\ configRow' = [f \in ConfigField |->
           IF body[f] # Unset THEN body[f]
           ELSE IF new /\ f # "code" THEN DefaultValue ELSE configRow[f]]
      /\ editor' = [editor EXCEPT ![e].put = IF new THEN NoPut ELSE [@ EXCEPT !.state = "ok"]]
      /\ UNCHANGED edits

\* Refused by the validation, or never arrived: onError leaves the form.
PutRefused(e) ==
  /\ editor[e].put.state = "sent"
  /\ editor' = [editor EXCEPT ![e].put = NoPut]
  /\ UNCHANGED <<configRow, puts, edits>>

\* onSuccess fetches the row again and has the form filled again, at once: from the
\* data the query still has.
SaveAnswered(e) ==
  /\ editor[e].put.state = "ok"
  /\ Becomes(e, Fetching([editor[e] EXCEPT !.put = NoPut, !.hydrated = FALSE,
                                           !.typed = NoFields, !.drawnTyped = Unset]))
  /\ UNCHANGED <<configRow, puts, edits>>

\* The webhook token is rotated and the row fetched again; the form is left alone.
RotateToken(e) ==
  /\ editor[e].query = "data"
  /\ Becomes(e, Fetching(editor[e]))
  /\ UNCHANGED <<configRow, puts, edits>>

EditorNext == \E e \in Editor :
  \/ QueryAnswers(e)
  \/ PageReopens(e)
  \/ \E v \in Value :
       \/ \E f \in ConfigField : EditField(e, f, v)
       \/ EditOverride(e, v)
       \/ AddCondition(e, v)
       \/ EditCondition(e, v)
  \/ ClickSave(e)
  \/ PutRow(e)
  \/ PutRefused(e)
  \/ SaveAnswered(e)
  \/ RotateToken(e)

EditorSpec == EditorInit /\ [][EditorNext]_editorVars

-----------------------------------------------------------------------------
\* A save changes what the admin edited, to what was typed, and nothing else: if its
\* form was filled from the row as it still is, and the edits that a condition's row
\* drops are not counted as such (TenantConfig.tsx: what the form is filled from, when,
\* and what the PUT sends of it).
SavesWhatWasEdited ==
  [][\A e \in Editor :
       LET put == editor[e].put
           typed(f) == put.typed[f] # Unset
       IN  /\ puts' # puts /\ editor'[e].put # put
           /\ put.base = puts
           => \A f \in ConfigField :
                IF typed(f) THEN configRow'[f] = put.typed[f]
                ELSE configRow'[f] = configRow[f] \/ configRow["main"] = Unset]_editorVars
=============================================================================
