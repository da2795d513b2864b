------------------------- MODULE TenantConfigProofs -------------------------
(***************************************************************************)
(* The safety invariants of TenantConfig, for any number of requests and   *)
(* any bounds.  What the row says is only true together with what is in    *)
(* flight: the copy of the access code the maintenance step holds, and the *)
(* settings that requests have written and are still to record.  A row     *)
(* that is deleted by age moves its settings from one account to another.  *)
(***************************************************************************)
EXTENDS TenantConfig, TLAPS

\* While the maintenance step holds a code, the row still is as the admin saved it,
\* and the copy is that code too unless it was overtaken.  A code that was saved once
\* leaves nothing in the legacy column for the step to find.
Copy ==
  /\ sealing # None => ReadAccessCode = saved /\ (sealing = saved \/ overtaken)
  /\ overtaken => plain = None

Accounted == InHistory \cup unrecorded \cup purged

\* The settings in force are accounted for, or some request has yet to record them.
InForce ==
  \/ ~exists
  \/ settings \in Accounted
  \/ \E r \in Request : Pending(r) /\ request[r].settings = settings

IInv == TypeOK /\ Copy /\ CodeAsSaved /\ InForce

CodeInv == Copy /\ CodeAsSaved

-----------------------------------------------------------------------------
\* Saving an access code, in an update or a creation, keeps what is said of codes.
LEMMA SaveCodeInv ==
  ASSUME TypeOK, CodeInv, NEW c \in MaybeCode \cup {Keep}, SaveCode(c), UNCHANGED sealing
  PROVE  /\ CodeInv'
         /\ plain' \in MaybeCode /\ sealed' \in MaybeCode /\ saved' \in MaybeCode
         /\ overtaken' \in BOOLEAN
  BY ConfigAssumption DEF TypeOK, CodeInv, Copy, CodeAsSaved, SaveCode, ReadAccessCode, MaybeCode

\* Steps that leave the codes alone keep what is said of them.
LEMMA CodesUnchanged ==
  ASSUME CodeInv, UNCHANGED <<plain, sealed, sealing, saved, overtaken>>
  PROVE  CodeInv'
  BY DEF CodeInv, Copy, CodeAsSaved, ReadAccessCode

\* The settings in force stay accounted for when a request that is done with its own
\* goes idle, and nothing else changes but more being recorded.
LEMMA EndKeepsInForce ==
  ASSUME TypeOK, InForce, NEW r \in Request, End(r), UNCHANGED <<exists, settings>>,
         Accounted \subseteq Accounted', Pending(r) => request[r].settings \in Accounted'
  PROVE  InForce'
<1>1. \A q \in Request : request'[q] = IF q = r THEN Idle ELSE request[q]
  BY DEF End, TypeOK
<1>2. CASE ~exists \/ settings \in Accounted
  BY <1>2 DEF InForce
<1>3. CASE \E q \in Request : Pending(q) /\ request[q].settings = settings
  <2>1. PICK q \in Request : Pending(q) /\ request[q].settings = settings
    BY <1>3
  <2>2. CASE q = r
    BY <2>1, <2>2 DEF InForce
  <2>3. CASE q # r
    BY <1>1, <2>1, <2>3 DEF InForce, Pending
  <2> QED BY <2>2, <2>3
<1> QED BY <1>2, <1>3 DEF InForce

\* A request that was not pending may change as it likes.
LEMMA OthersKeepInForce ==
  ASSUME TypeOK, InForce, NEW r \in Request, NEW v,
         ~Pending(r), request' = [request EXCEPT ![r] = v],
         UNCHANGED <<exists, settings, history, unrecorded, purged>>
  PROVE  InForce'
<1>1. \A q \in Request : q # r => request'[q] = request[q]
  BY DEF TypeOK
<1> QED BY <1>1 DEF InForce, Pending, Accounted, InHistory

\* A new row adds its settings to the history.
LEMMA RecordAdds ==
  ASSUME TypeOK, NEW v \in Settings, history' = Append(history, v)
  PROVE  history' \in Seq(Settings) /\ InHistory' = InHistory \cup {v}
<1>1. /\ history \in Seq(Settings) /\ Len(history) \in Nat /\ Len(history') = Len(history) + 1
      /\ history' \in Seq(Settings) /\ history'[Len(history) + 1] = v
      /\ \A n \in 1..Len(history) : history'[n] = history[n]
  BY DEF TypeOK
<1>2. \A n \in 1..Len(history') : n \in 1..Len(history) \/ n = Len(history) + 1
  BY <1>1
<1> QED BY <1>1, <1>2 DEF InHistory

\* Zero is within every bound, and a counter below its bound may grow by one.
LEMMA Bounds ==
  /\ 0 \in Settings /\ 0 \in Token /\ 0 \in 0..MaxFaults
  /\ \A n \in Settings : n < MaxWrites => n + 1 \in Settings
  /\ \A n \in Token : n < MaxTokens => n + 1 \in Token
  /\ \A n \in 0..MaxFaults : n < MaxFaults => n + 1 \in 0..MaxFaults
  BY ConfigAssumption DEF Settings, Token

-----------------------------------------------------------------------------
\* A row is either absent or as it was before the vault; no request is under way.
LEMMA InitInv == Init => IInv
<1> SUFFICES ASSUME Init PROVE IInv
  OBVIOUS
<1>1. plain \in MaybeCode /\ exists \in BOOLEAN
  BY DEF Init, MaybeCode
<1>2. TypeOK
  <2>1. <<>> \in Seq(Settings) /\ <<0>> \in Seq(Settings)
    BY Bounds
  <2>2. (history = <<>> \/ history = <<0>>) /\ unrecorded \subseteq Settings
    BY Bounds DEF Init
  <2> QED
    BY <1>1, <2>1, <2>2, Bounds DEF Init, TypeOK, Idle, PC, MaybeCode
<1>3. Copy /\ CodeAsSaved /\ InForce
  BY DEF Init, Copy, CodeAsSaved, InForce, ReadAccessCode, Accounted, InHistory
<1> QED BY <1>2, <1>3 DEF IInv

\* A request reads whether there is a row, or is refused one.
LEMMA ReadInv ==
  ASSUME IInv, NEW r \in Request, ReadExisting(r) \/ CreateRefused(r)
  PROVE  IInv'
<1> USE DEF IInv
<1>1. TypeOK'
  BY Bounds DEF TypeOK, ReadExisting, CreateRefused, End, Idle, PC, row
<1>2. CodeInv'
  BY CodesUnchanged DEF CodeInv, ReadExisting, CreateRefused, row
<1>3. ~Pending(r)
  BY DEF Pending, ReadExisting, CreateRefused, At
<1>4. \E v : request' = [request EXCEPT ![r] = v]
  BY DEF ReadExisting, CreateRefused, End, TypeOK
<1>5. InForce'
  BY <1>3, <1>4, OthersKeepInForce DEF ReadExisting, CreateRefused, row
<1> QED BY <1>1, <1>2, <1>5 DEF CodeInv

\* The request that writes settings is the one that owes their history row.
LEMMA WriteInv ==
  ASSUME IInv, NEW r \in Request, NEW c \in MaybeCode \cup {Keep}, Create(r, c) \/ Update(r, c)
  PROVE  IInv'
<1> USE DEF IInv
<1>1. CodeInv' /\ plain' \in MaybeCode /\ sealed' \in MaybeCode /\ saved' \in MaybeCode
        /\ overtaken' \in BOOLEAN
  BY SaveCodeInv DEF CodeInv, Create, Update, MaybeCode
<1>2. settings' \in Settings
  BY Bounds DEF TypeOK, Create, Update, WriteSettings
<1>3. token' \in Token /\ tokens' \in Token
  BY Bounds DEF TypeOK, Create, Update, NewToken
<1>4. \E v \in [pc: {"created", "reread"}, settings: {settings'}, token: Token] :
         request' = [request EXCEPT ![r] = v]
  <2>1. CASE Create(r, c)
    BY <1>3, <2>1 DEF Create
  <2>2. CASE Update(r, c)
    BY <2>2, Bounds DEF Update
  <2> QED BY <2>1, <2>2
<1>5. TypeOK'
  <2>1. request' \in [Request -> [pc: PC, settings: Settings, token: Token]]
    BY <1>2, <1>4 DEF TypeOK, PC
  <2>2. exists' \in BOOLEAN /\ sealing' \in MaybeCode /\ history' \in Seq(Settings)
          /\ unrecorded' \subseteq Settings /\ purged' \subseteq Settings /\ faults' \in 0..MaxFaults /\ shown' \subseteq Token
    BY DEF TypeOK, Create, Update
  <2> QED BY <1>1, <1>2, <1>3, <2>1, <2>2 DEF TypeOK
<1>6. request'[r].pc \in {"created", "reread"} /\ request'[r].settings = settings'
  BY <1>4 DEF TypeOK
<1>7. InForce'
  BY <1>6 DEF InForce, Pending
<1> QED BY <1>1, <1>5, <1>7 DEF CodeInv

\* What the request reads back are the settings in force.
LEMMA RereadInv ==
  ASSUME IInv, NEW r \in Request, Reread(r)
  PROVE  IInv'
<1> USE DEF IInv, Reread
<1>1. TypeOK'
  BY DEF TypeOK, PC, row
<1>2. CodeInv'
  BY CodesUnchanged DEF CodeInv, row
<1>3. request'[r].pc = "record" /\ request'[r].settings = settings /\ settings' = settings
  BY DEF TypeOK, row
<1>4. InForce'
  BY <1>3 DEF InForce, Pending
<1> QED BY <1>1, <1>2, <1>4 DEF CodeInv

\* A request ends: with its history row, without it, or with the token shown.
LEMMA EndInv ==
  ASSUME IInv, NEW r \in Request, CreateFails(r) \/ Record(r) \/ ShowToken(r) \/ Abort(r)
  PROVE  IInv'
<1> USE DEF IInv
<1>1. request[r].settings \in Settings /\ request[r].token \in Token
  BY DEF TypeOK
<1>2. TypeOK'
  <2>1. request' \in [Request -> [pc: PC, settings: Settings, token: Token]]
    BY Bounds DEF TypeOK, CreateFails, Record, ShowToken, Abort, End, Idle, PC
  <2>2. faults' \in 0..MaxFaults
    BY Bounds DEF TypeOK, CreateFails, Record, ShowToken, Abort, Fault
  <2>3. /\ history' \in Seq(Settings) /\ unrecorded' \subseteq Settings
        /\ purged' \subseteq Settings /\ shown' \subseteq Token
    BY <1>1, RecordAdds DEF TypeOK, CreateFails, Record, ShowToken, Abort
  <2> QED BY <2>1, <2>2, <2>3 DEF TypeOK, CreateFails, Record, ShowToken, Abort, row
<1>3. CodeInv'
  BY CodesUnchanged DEF CodeInv, CreateFails, Record, ShowToken, Abort, row
<1>4. Accounted \subseteq Accounted' /\ (Pending(r) => request[r].settings \in Accounted')
  <2>1. CASE Record(r)
    BY <1>1, <2>1, RecordAdds DEF Record, Accounted
  <2>2. CASE CreateFails(r) \/ ShowToken(r) \/ Abort(r)
    BY <2>2 DEF CreateFails, ShowToken, Abort, Accounted, InHistory, Pending, At
  <2> QED BY <2>1, <2>2
<1>5. InForce'
  BY <1>4, EndKeepsInForce DEF CreateFails, Record, ShowToken, Abort, row
<1> QED BY <1>2, <1>3, <1>5 DEF CodeInv

\* A rotation and the allow-list write settings that no history row is due for.
LEMMA UnrecordedInv ==
  ASSUME IInv, Allow \/ \E r \in Request : Rotate(r)
  PROVE  IInv'
<1> USE DEF IInv
<1>1. /\ settings' \in Settings /\ settings' \in unrecorded'
      /\ unrecorded' \subseteq Settings
  BY Bounds DEF TypeOK, Rotate, Allow, WriteUnrecorded, WriteSettings
<1>2. token' \in Token /\ tokens' \in Token
  BY Bounds DEF TypeOK, Rotate, Allow, NewToken
<1>3. request' \in [Request -> [pc: PC, settings: Settings, token: Token]]
  BY <1>2, Bounds DEF TypeOK, Rotate, Allow, PC
<1>4. TypeOK'
  BY <1>1, <1>2, <1>3 DEF TypeOK, Rotate, Allow
<1>5. CodeInv'
  BY CodesUnchanged DEF CodeInv, Rotate, Allow
<1>6. InForce'
  BY <1>1 DEF InForce, Accounted
<1> QED BY <1>4, <1>5, <1>6 DEF CodeInv

\* A row that is deleted by age is known to have been deleted.
LEMMA PurgeInv ==
  ASSUME IInv, NEW n \in 1..Len(history), PurgeHistory(n)
  PROVE  IInv'
<1> USE DEF IInv
<1> DEFINE L == Len(history)
<1>1. /\ history \in Seq(Settings) /\ L \in Nat /\ n \in Nat /\ n <= L
      /\ history' = SubSeq(history, n + 1, L)
      /\ purged' = purged \cup {history[m] : m \in 1..n}
  BY DEF TypeOK, PurgeHistory
<1>2. /\ history' \in Seq(Settings) /\ Len(history') = L - n
      /\ \A m \in 1..(L - n) : history'[m] = history[m + n]
  BY <1>1
<1>3. \A m \in 1..L : m \in 1..n \/ (m - n \in 1..(L - n) /\ (m - n) + n = m)
  BY <1>1
<1>4. \A m \in 1..L : history[m] \in purged' \/ history[m] \in InHistory'
  <2> SUFFICES ASSUME NEW m \in 1..L, m \notin 1..n PROVE history[m] \in InHistory'
    BY <1>1
  <2>1. m - n \in 1..Len(history') /\ history'[m - n] = history[m]
    BY <1>2, <1>3
  <2> QED BY <2>1 DEF InHistory
<1>5. Accounted \subseteq Accounted'
  BY <1>1, <1>4 DEF Accounted, InHistory, PurgeHistory
<1>6. TypeOK'
  <2>1. \A m \in 1..n : history[m] \in Settings
    BY <1>1
  <2>2. purged' \subseteq Settings
    BY <1>1, <2>1 DEF TypeOK
  <2> QED BY <1>2, <2>2 DEF TypeOK, PurgeHistory, row
<1>7. CodeInv'
  BY CodesUnchanged DEF CodeInv, PurgeHistory, row
<1>8. InForce'
  BY <1>5 DEF InForce, Pending, PurgeHistory, row
<1> QED BY <1>6, <1>7, <1>8 DEF CodeInv

\* The maintenance step: the copy it takes is the saved code, because a row that was
\* ever saved anew has no legacy code to copy.
LEMMA SealInv ==
  ASSUME IInv, SealSelect \/ SealWrite \/ SealFails
  PROVE  IInv'
<1> USE DEF IInv
<1>1. TypeOK'
  <2>1. CASE SealSelect
    BY <2>1 DEF SealSelect, TypeOK, row
  <2>2. CASE SealWrite
    BY <2>2 DEF SealWrite, TypeOK, MaybeCode
  <2>3. CASE SealFails
    BY <2>3, Bounds DEF SealFails, Fault, TypeOK, row, MaybeCode
  <2> QED BY <2>1, <2>2, <2>3
<1>2. Copy' /\ CodeAsSaved'
  BY DEF SealSelect, SealWrite, SealFails, row, Copy, CodeAsSaved, ReadAccessCode
<1>3. InForce'
  BY DEF InForce, Pending, Accounted, InHistory, SealSelect, SealWrite, SealFails, row
<1> QED BY <1>1, <1>2, <1>3

-----------------------------------------------------------------------------
\* Every step keeps the invariant.
THEOREM ConfigInvariance == Spec => []IInv
<1>1. IInv /\ [Next]_vars => IInv'
  <2> SUFFICES ASSUME IInv, [Next]_vars PROVE IInv'
    OBVIOUS
  <2>1. ASSUME NEW r \in Request, Step(r) PROVE IInv'
    BY <2>1, ReadInv, WriteInv, RereadInv, EndInv, UnrecordedInv DEF Step
  <2>2. CASE SealSelect \/ SealWrite \/ SealFails
    BY <2>2, SealInv
  <2>3. CASE UNCHANGED vars
    BY <2>3 DEF vars, row, IInv, TypeOK, Copy, CodeAsSaved, InForce, ReadAccessCode, Pending,
                Accounted, InHistory
  <2>4. CASE Allow
    BY <2>4, UnrecordedInv
  <2>5. ASSUME NEW n \in 1..Len(history), PurgeHistory(n) PROVE IInv'
    BY <2>5, PurgeInv
  <2> QED BY <2>1, <2>2, <2>3, <2>4, <2>5 DEF Next
<1> QED BY InitInv, <1>1, PTL DEF Spec

\* The columns, requests and ghosts have their types in every reachable state.
THEOREM ConfigTypeCorrect == Spec => []TypeOK
<1>1. IInv => TypeOK
  BY DEF IInv
<1> QED BY <1>1, ConfigInvariance, PTL

\* The access code the pipeline reads is the one saved last, unless it was saved
\* between the two statements of the maintenance step (config.ts 46-59).
THEOREM CodeIsAsSaved == Spec => []CodeAsSaved
<1>1. IInv => CodeAsSaved
  BY DEF IInv
<1> QED BY <1>1, ConfigInvariance, PTL

\* With no update under way, the settings in force are in the history - or they were
\* written where no history is kept, their request failed before its row, or a row of
\* them was deleted by age (adminApi.ts 343-359, maintenance.ts 69-74).
THEOREM SettingsRecorded == Spec => []SettingsInForceRecorded
<1>1. IInv => SettingsInForceRecorded
  BY DEF IInv, InForce, Accounted, SettingsInForceRecorded
<1> QED BY <1>1, ConfigInvariance, PTL
=============================================================================
