---------------------------- MODULE MetaApps_proofs ----------------------------
(***************************************************************************)
(* Proofs about MetaApps, for every number of apps, calls and flows.       *)
(*                                                                         *)
(* A call that has read an app stands still while others write and delete  *)
(* it; the invariant says what remains true of it: its app was created and *)
(* is never created again, and its settings are among those asked for.     *)
(***************************************************************************)
EXTENDS MetaApps, TLAPS

\* Who has an app, or a gate of one, has one that was created.
Existing ==
    /\ \A a \in Apps : app[a] # NoApp => a \in created
    /\ \A a \in used : app[a] # NoApp

\* Some request has named these scopes for the app.
ScopesNamed(a, scopes) == \E t \in named[a] : scopes = t.scopes

\* What a call holds.
CallOK(c) ==
    /\ step[c] # "free" => call[c] \in Call /\ call[c].app \in created
    /\ step[c] = "selected" => read[c] \in AppRow
    /\ step[c] \in Underway /\ call[c].op = "update" =>
          call[c].with \in named[call[c].app]
    /\ step[c] = "selected" => ScopesNamed(call[c].app, read[c].scopes)

\* What a flow holds: its code is spent before it has a token, and it has none
\* of its own to give twice.
FlowOK(f) ==
    /\ flow[f] # "off" => dialog[f] \in Dialog
    /\ flow[f] \in {"exchange", "upgrade", "pages"} => config[f] \in AppRow
    /\ flow[f] \in {"upgrade", "pages", "granted"} =>
          f \in spent /\ bearerOf[f] = dialog[f].key
    /\ grants[f] \in {0, 1}
    /\ f \notin spent \/ flow[f] \in {"upgrade", "pages"} => grants[f] = 0

Calling == \A c \in Calls : CallOK(c)
Flowing == \A f \in Flows : FlowOK(f)

AppsInv == AppsTypeOK /\ Existing /\ Calling /\ Flowing
           /\ DeletedOnceForAll /\ SettingsNamedTogether

-----------------------------------------------------------------------------
LEMMA InitApps == AppsInit => AppsInv
<1> SUFFICES ASSUME AppsInit PROVE AppsInv
    OBVIOUS
<1>1. AppsTypeOK
    BY DEF AppsInit, AppsTypeOK
<1>2. Existing /\ Calling /\ Flowing
    BY DEF AppsInit, Existing, Calling, CallOK, Flowing, FlowOK, Underway
<1>3. DeletedOnceForAll /\ SettingsNamedTogether
    BY DEF AppsInit, DeletedOnceForAll, SettingsNamedTogether
<1> QED BY <1>1, <1>2, <1>3 DEF AppsInv

\* The row an update writes.
LEMMA AppliedRow ==
    ASSUME NEW row \in AppRow, NEW with \in Settings
    PROVE  /\ Applied(row, with) \in AppRow
           /\ Applied(row, with).secret = with.secret
           /\ Applied(row, with).redirect = with.redirect
           /\ \/ Applied(row, with).scopes = with.scopes
              \/ with.scopes = NoScopes /\ Applied(row, with).scopes = row.scopes
BY DEF Applied, AppRow, Settings

\* The settings of an update.
LEMMA UpdateSettings ==
    ASSUME NEW m \in Call
    PROVE  /\ m.app \in Apps /\ m.op \in {"update", "delete"}
           /\ m.op = "update" => m.with \in Settings
BY DEF Call

\* An update or deletion that has selected its app.
LEMMA Selected ==
    ASSUME AppsInv, NEW c \in Calls, step[c] = "selected"
    PROVE  /\ call[c] \in Call /\ call[c].app \in Apps /\ read[c] \in AppRow
           /\ call[c].op = "update" =>
                 /\ call[c].with \in Settings
                 /\ Applied(read[c], call[c].with) \in AppRow
<1>1. call[c] \in Call /\ read[c] \in AppRow
    BY DEF AppsInv, Calling, CallOK
<1> QED BY <1>1, UpdateSettings, AppliedRow

-----------------------------------------------------------------------------
(* The administration of apps.                                             *)

\* The types.
LEMMA AdministerTypes ==
    ASSUME AppsInv, AdministerApps
    PROVE  AppsTypeOK'
<1> USE DEF AppsTypeOK, calls, flows, appTable, Step, Return, Told, Underway, CallAnswers
<1>0. AppsTypeOK
    BY DEF AppsInv
<1>1. ASSUME NEW a \in Apps, GatesChange(a) PROVE AppsTypeOK'
    BY <1>0, <1>1 DEF GatesChange
<1>2. ASSUME NEW a \in Apps, NEW row \in AppRow, CreateMetaApp(a, row) PROVE AppsTypeOK'
  <2>1. [secret |-> row.secret, redirect |-> row.redirect, scopes |-> row.scopes] \in Settings
      BY DEF AppRow, Settings
  <2>2. app' \in [Apps -> AppRow \cup {NoApp}] /\ created' \subseteq Apps
      BY <1>0, <1>2 DEF CreateMetaApp
  <2>3. named' \in [Apps -> SUBSET Settings]
      BY <1>0, <1>2, <2>1 DEF CreateMetaApp
  <2> QED BY <1>0, <1>2, <2>2, <2>3 DEF CreateMetaApp
<1>3. ASSUME NEW c \in Calls, NEW m \in Call, CallArrives(c, m) PROVE AppsTypeOK'
  <2>1. m.op = "update" => m.with \in Settings
      BY UpdateSettings
  <2>2. named' \in [Apps -> SUBSET Settings]
      BY <1>0, <1>3, <2>1 DEF CallArrives
  <2>3. call' \in [Calls -> Call \cup {NoApp}]
        /\ step' \in [Calls -> {"free"} \cup Underway \cup CallAnswers]
      BY <1>0, <1>3 DEF CallArrives
  <2> QED BY <1>0, <1>3, <2>2, <2>3 DEF CallArrives
<1>4. ASSUME NEW c \in Calls, SelectApp(c) PROVE AppsTypeOK'
  <2>1. call[c].app \in Apps
      BY <1>4, UpdateSettings DEF SelectApp, AppsInv, Calling, CallOK
  <2> QED BY <1>0, <1>4, <2>1 DEF SelectApp
<1>5. ASSUME NEW c \in Calls, SelectAbsent(c) \/ CallFails(c) PROVE AppsTypeOK'
    BY <1>0, <1>5 DEF SelectAbsent, CallFails
<1>6. ASSUME NEW c \in Calls, UpdateApp(c) PROVE AppsTypeOK'
  <2>1. call[c].app \in Apps /\ Applied(read[c], call[c].with) \in AppRow
      BY <1>6, Selected DEF UpdateApp
  <2>2. app' \in [Apps -> AppRow \cup {NoApp}]
      BY <1>0, <1>6, <2>1 DEF UpdateApp
  <2>3. step' \in [Calls -> {"free"} \cup Underway \cup CallAnswers]
        /\ read' \in [Calls -> AppRow \cup {NoApp}]
      BY <1>0, <1>6 DEF UpdateApp
  <2> QED BY <1>0, <1>6, <2>2, <2>3 DEF UpdateApp
<1>7. ASSUME NEW c \in Calls, DeleteApp(c) PROVE AppsTypeOK'
  <2>1. app' \in [Apps -> AppRow \cup {NoApp}]
      BY <1>0, <1>7, Selected DEF DeleteApp
  <2>2. step' \in [Calls -> {"free"} \cup Underway \cup CallAnswers]
        /\ read' \in [Calls -> AppRow \cup {NoApp}]
      BY <1>0, <1>7 DEF DeleteApp
  <2> QED BY <1>0, <1>7, <2>1, <2>2 DEF DeleteApp
<1> QED BY <1>1, <1>2, <1>3, <1>4, <1>5, <1>6, <1>7 DEF AdministerApps

\* A new app: no call is about it yet.
LEMMA CreateKeeps ==
    ASSUME AppsInv, NEW a \in Apps, NEW row \in AppRow, CreateMetaApp(a, row)
    PROVE  Existing' /\ Calling' /\ DeletedOnceForAll' /\ SettingsNamedTogether'
<1> USE DEF AppsInv, AppsTypeOK, CreateMetaApp, calls
<1>1. \A c \in Calls : step[c] # "free" => call[c].app # a
    BY DEF Calling, CallOK
<1>2. app'[a] = row /\ \A b \in Apps \ {a} : app'[b] = app[b]
    BY DEF AppRow
<1>3. /\ named'[a] = {[secret |-> row.secret, redirect |-> row.redirect, scopes |-> row.scopes]}
      /\ \A b \in Apps \ {a} : named'[b] = named[b]
    OBVIOUS
<1>4. row # NoApp
    BY NoAppIsNothing
<1>5. Existing'
    BY <1>2, <1>4 DEF Existing
<1>6. ASSUME NEW c \in Calls PROVE CallOK(c)'
  <2>1. CallOK(c)
      BY DEF Calling
  <2>2. step[c] # "free" => call[c].app \in Apps \ {a}
      BY <1>1, <2>1, UpdateSettings DEF CallOK
  <2> QED BY <1>3, <2>1, <2>2 DEF CallOK, Underway, ScopesNamed
<1>7. DeletedOnceForAll'
  <2>1. ASSUME NEW c \in Calls, step[c] = "done"
        PROVE  call[c].app \in Apps \ {a}
      BY <1>1, <2>1, UpdateSettings DEF Calling, CallOK
  <2> QED BY <1>2, <2>1 DEF DeletedOnceForAll
<1>8. SettingsNamedTogether'
    BY <1>2, <1>3 DEF SettingsNamedTogether
<1> QED BY <1>5, <1>6, <1>7, <1>8 DEF Calling

\* A new call.
LEMMA ArriveKeeps ==
    ASSUME AppsInv, NEW c \in Calls, NEW m \in Call, CallArrives(c, m)
    PROVE  Existing' /\ Calling' /\ DeletedOnceForAll' /\ SettingsNamedTogether'
<1> USE DEF AppsInv, AppsTypeOK, CallArrives, Step
<1>1. /\ step'[c] = "select" /\ call'[c] = m
      /\ \A d \in Calls \ {c} : step'[d] = step[d] /\ call'[d] = call[d]
    OBVIOUS
<1>2. m.app \in Apps /\ \A a \in Apps : named[a] \subseteq named'[a]
    BY UpdateSettings
<1>3. m.op = "update" => m.with \in named'[m.app]
    BY <1>2
<1>4. ASSUME NEW d \in Calls PROVE CallOK(d)'
  <2>1. CASE d = c
      BY <1>1, <1>3, <2>1 DEF CallOK, Underway
  <2>2. CASE d # c
    <3>1. CallOK(d) /\ (step[d] # "free" => call[d].app \in Apps)
        BY UpdateSettings DEF Calling, CallOK
    <3> QED BY <1>1, <1>2, <2>2, <3>1 DEF CallOK, Underway, ScopesNamed
  <2> QED BY <2>1, <2>2
<1>5. Existing'
    BY DEF Existing
<1>6. DeletedOnceForAll'
    BY <1>1 DEF DeletedOnceForAll
<1>7. SettingsNamedTogether'
    BY <1>2 DEF SettingsNamedTogether
<1> QED BY <1>4, <1>5, <1>6, <1>7 DEF Calling

\* A call is answered without a change of the table.
LEMMA AnswerKeeps ==
    ASSUME AppsInv, NEW c \in Calls, UNCHANGED <<appTable, call>>,
           NEW place, Step(c, place),
           place = "selected" => /\ step[c] = "select" /\ read'[c] \in AppRow
                                 /\ ScopesNamed(call[c].app, read'[c].scopes),
           place # "select", place # "done", step[c] \in Underway,
           \A d \in Calls \ {c} : read'[d] = read[d]
    PROVE  Existing' /\ Calling' /\ DeletedOnceForAll' /\ SettingsNamedTogether'
<1> USE DEF AppsInv, AppsTypeOK, appTable, Step
<1>1. step'[c] = place /\ \A d \in Calls \ {c} : step'[d] = step[d]
    OBVIOUS
<1>2. ASSUME NEW d \in Calls PROVE CallOK(d)'
    BY <1>1 DEF Calling, CallOK, Underway, ScopesNamed
<1>3. DeletedOnceForAll'
    BY <1>1 DEF DeletedOnceForAll
<1> QED BY <1>2, <1>3 DEF Calling, Existing, SettingsNamedTogether

\* An update of an app that is still there.
LEMMA UpdateKeeps ==
    ASSUME AppsInv, NEW c \in Calls, UpdateApp(c)
    PROVE  Existing' /\ Calling' /\ DeletedOnceForAll' /\ SettingsNamedTogether'
<1> DEFINE a == call[c].app
           row == Applied(read[c], call[c].with)
<1> USE DEF AppsInv, AppsTypeOK
<1>1. a \in Apps /\ row \in AppRow /\ row # NoApp
      /\ row.secret = call[c].with.secret /\ row.redirect = call[c].with.redirect
      /\ \/ row.scopes = call[c].with.scopes
         \/ call[c].with.scopes = NoScopes /\ row.scopes = read[c].scopes
    BY Selected, AppliedRow, NoAppIsNothing DEF UpdateApp
<1>2. call[c].with \in named[a] /\ ScopesNamed(a, read[c].scopes)
    BY <1>1 DEF UpdateApp, Calling, CallOK, Underway
<1>3. /\ step'[c] \in {"done", "failed", "notFound"} /\ call[c].op = "update"
      /\ \A d \in Calls \ {c} : step'[d] = step[d] /\ read'[d] = read[d]
      /\ UNCHANGED <<used, created, named, call>>
    BY DEF UpdateApp, Told, Step, Return
<1>4. /\ app'[a] = IF app[a] # NoApp THEN row ELSE NoApp
      /\ \A b \in Apps \ {a} : app'[b] = app[b]
    BY <1>1 DEF UpdateApp
<1> HIDE DEF row
<1>5. Existing'
    BY <1>1, <1>3, <1>4 DEF Existing
<1>6. ASSUME NEW d \in Calls PROVE CallOK(d)'
  <2>1. CallOK(d) /\ step[c] = "selected"
      BY DEF Calling, UpdateApp
  <2> QED BY <1>3, <2>1 DEF CallOK, Underway, ScopesNamed
<1>7. DeletedOnceForAll'
  <2>1. ASSUME NEW d \in Calls, step'[d] = "done", call[d].op = "delete"
        PROVE  d # c /\ step[d] = "done" /\ app'[call[d].app] = NoApp
    <3>1. d # c /\ step[d] = "done"
        BY <1>3, <2>1
    <3>2. app[call[d].app] = NoApp /\ call[d].app \in Apps
        BY <2>1, <3>1, UpdateSettings DEF DeletedOnceForAll, Calling, CallOK
    <3> QED BY <1>4, <3>1, <3>2
  <2> QED BY <1>3, <2>1 DEF DeletedOnceForAll
<1>8. SettingsNamedTogether'
  <2>1. ASSUME NEW b \in Apps \ {a}, app'[b] # NoApp
        PROVE  \E s \in named'[b] :
            /\ app'[b].secret = s.secret /\ app'[b].redirect = s.redirect
            /\ \/ app'[b].scopes = s.scopes
               \/ s.scopes = NoScopes /\ \E t \in named'[b] : app'[b].scopes = t.scopes
      BY <1>3, <1>4, <2>1 DEF SettingsNamedTogether
  <2>2. app'[a] # NoApp =>
           \E s \in named'[a] :
            /\ app'[a].secret = s.secret /\ app'[a].redirect = s.redirect
            /\ \/ app'[a].scopes = s.scopes
               \/ s.scopes = NoScopes /\ \E t \in named'[a] : app'[a].scopes = t.scopes
      BY <1>1, <1>2, <1>3, <1>4 DEF ScopesNamed
  <2> QED BY <2>1, <2>2 DEF SettingsNamedTogether
<1> QED BY <1>5, <1>6, <1>7, <1>8 DEF Calling

\* A deletion: whoever was told so before was told of another app.
LEMMA DeleteKeeps ==
    ASSUME AppsInv, NEW c \in Calls, DeleteApp(c)
    PROVE  Existing' /\ Calling' /\ DeletedOnceForAll' /\ SettingsNamedTogether'
<1> DEFINE a == call[c].app
<1> USE DEF AppsInv, AppsTypeOK
<1>1. a \in Apps /\ step[c] = "selected" /\ call[c].op = "delete"
    BY Selected DEF DeleteApp
<1>2. /\ step'[c] \in {"done", "failed", "notFound"}
      /\ \A d \in Calls \ {c} : step'[d] = step[d] /\ read'[d] = read[d]
      /\ UNCHANGED <<used, created, named, call>>
    BY DEF DeleteApp, Told, Step, Return
<1>3. CASE UNCHANGED app
  <2>1. step'[c] # "done" \/ (app[a] # NoApp /\ a \notin used /\ app'[a] = NoApp)
      BY <1>1 DEF DeleteApp, Told, Step
  <2>2. step'[c] # "done"
      BY <1>3, <2>1
  <2>3. ASSUME NEW d \in Calls PROVE CallOK(d)'
      BY <1>1, <1>2 DEF Calling, CallOK, Underway, ScopesNamed
  <2>4. DeletedOnceForAll'
      BY <1>2, <1>3, <2>2 DEF DeletedOnceForAll
  <2> QED BY <1>2, <1>3, <2>3, <2>4 DEF Calling, Existing, SettingsNamedTogether
<1>4. CASE app[a] # NoApp /\ a \notin used /\ app' = [app EXCEPT ![a] = NoApp]
  <2>1. app'[a] = NoApp /\ \A b \in Apps \ {a} : app'[b] = app[b]
      BY <1>1, <1>4
  <2>2. Existing' /\ SettingsNamedTogether'
      BY <1>2, <1>4, <2>1 DEF Existing, SettingsNamedTogether
  <2>3. ASSUME NEW d \in Calls PROVE CallOK(d)'
      BY <1>1, <1>2 DEF Calling, CallOK, Underway, ScopesNamed
  <2>4. ASSUME NEW d \in Calls \ {c}, step'[d] = "done", call[d].op = "delete"
        PROVE  /\ call[d].app \in Apps \ {a}
               /\ app'[call[d].app] = NoApp /\ call[d].app \notin used
    <3>1. call[d].app \in Apps
        BY <1>2, <2>4, UpdateSettings DEF Calling, CallOK
    <3> QED BY <1>2, <1>4, <2>1, <2>4, <3>1 DEF DeletedOnceForAll
  <2>5. DeletedOnceForAll'
    <3>1. ASSUME NEW d \in Calls, step'[d] = "done", call[d].op = "delete"
          PROVE  app'[call[d].app] = NoApp /\ call[d].app \notin used
        BY <1>4, <2>1, <2>4, <3>1
    <3>2. ASSUME NEW d \in Calls, NEW e \in Calls \ {d},
                 step'[d] = "done", call[d].op = "delete",
                 step'[e] = "done", call[e].op = "delete"
          PROVE  call[e].app # call[d].app
      <4>1. CASE d # c /\ e # c
          BY <1>2, <3>2, <4>1 DEF DeletedOnceForAll
      <4>2. CASE d = c \/ e = c
          BY <2>4, <3>2, <4>2
      <4> QED BY <4>1, <4>2
    <3> QED BY <1>2, <3>1, <3>2 DEF DeletedOnceForAll
  <2> QED BY <2>2, <2>3, <2>5 DEF Calling
<1> QED BY <1>3, <1>4 DEF DeleteApp

LEMMA AdministerKeeps ==
    ASSUME AppsInv, AdministerApps
    PROVE  Existing' /\ Calling' /\ Flowing' /\ DeletedOnceForAll' /\ SettingsNamedTogether'
<1>1. UNCHANGED flows
    BY DEF AdministerApps, GatesChange, CreateMetaApp, CallArrives, SelectApp, SelectAbsent,
           UpdateApp, DeleteApp, CallFails
<1>2. Flowing'
    BY <1>1 DEF AppsInv, Flowing, FlowOK, flows
<1>3. ASSUME NEW a \in Apps, GatesChange(a)
      PROVE  Existing' /\ Calling' /\ DeletedOnceForAll' /\ SettingsNamedTogether'
    BY <1>3 DEF GatesChange, AppsInv, AppsTypeOK, Existing, Calling, CallOK, ScopesNamed,
                DeletedOnceForAll, SettingsNamedTogether, calls
<1>4. ASSUME NEW c \in Calls, SelectApp(c)
      PROVE  Existing' /\ Calling' /\ DeletedOnceForAll' /\ SettingsNamedTogether'
  <2>1. call[c].app \in Apps
      BY <1>4, UpdateSettings DEF SelectApp, AppsInv, Calling, CallOK
  <2>0. ScopesNamed(call[c].app, app[call[c].app].scopes)
      BY <1>4, <2>1 DEF SelectApp, AppsInv, SettingsNamedTogether, ScopesNamed
  <2>2. read'[c] \in AppRow /\ read'[c] = app[call[c].app] /\ \A d \in Calls \ {c} : read'[d] = read[d]
      BY <1>4, <2>1 DEF SelectApp, AppsInv, AppsTypeOK
  <2> QED BY <1>4, <2>0, <2>2, AnswerKeeps DEF SelectApp, Underway
<1>5. ASSUME NEW c \in Calls, SelectAbsent(c) \/ CallFails(c)
      PROVE  Existing' /\ Calling' /\ DeletedOnceForAll' /\ SettingsNamedTogether'
  <2>1. \A d \in Calls \ {c} : read'[d] = read[d]
      BY <1>5 DEF SelectAbsent, CallFails, Return, AppsInv, AppsTypeOK
  <2> QED BY <1>5, <2>1, AnswerKeeps DEF SelectAbsent, CallFails, Underway
<1> QED BY <1>2, <1>3, <1>4, <1>5, CreateKeeps, ArriveKeeps, UpdateKeeps, DeleteKeeps
        DEF AdministerApps

-----------------------------------------------------------------------------
(* OAuth.                                                                  *)

LEMMA OAuthKeeps ==
    ASSUME AppsInv, NEW f \in Flows, OAuth(f)
    PROVE  AppsTypeOK' /\ Flowing' /\ UNCHANGED <<appTable, calls>>
<1> USE DEF AppsTypeOK, Flowing, InCallback, To
<1> DEFINE Others == \A h \in Flows \ {f} :
              /\ flow'[h] = flow[h] /\ dialog'[h] = dialog[h] /\ config'[h] = config[h]
              /\ bearerOf'[h] = bearerOf[h] /\ grants'[h] = grants[h]
              /\ h \in spent' <=> h \in spent
           Aim == AppsTypeOK' /\ FlowOK(f)' /\ Others /\ UNCHANGED <<appTable, calls>>
<1>0. AppsTypeOK /\ FlowOK(f)
    BY DEF AppsInv
<1>1. ASSUME NEW a \in Apps, StartOAuth(f, a) PROVE Aim
  <2>1. [app |-> a, key |-> app[a].key, redirect |-> app[a].redirect] \in Dialog
      BY <1>0, <1>1 DEF StartOAuth, Dialog, AppRow
  <2> QED BY <1>0, <1>1, <2>1 DEF StartOAuth, FlowOK, appTable, calls
<1>2. ASSUME NEW a \in Apps, SelectConfig(f, a) PROVE Aim
  <2>1. app[a] \in AppRow
      BY <1>0, <1>2 DEF SelectConfig
  <2> QED BY <1>0, <1>2, <2>1 DEF SelectConfig, FlowOK, appTable, calls
<1>3. ASSUME Callback(f) PROVE Aim
    BY <1>0, <1>3 DEF Callback, FlowOK, appTable, calls
<1>4. ASSUME ExchangeCode(f) PROVE Aim
  <2>1. config[f] \in AppRow /\ config[f].key \in AppKeys
      BY <1>0, <1>4 DEF ExchangeCode, FlowOK, AppRow
  <2> QED BY <1>0, <1>4, <2>1 DEF ExchangeCode, FlowOK, appTable, calls
<1>5. ASSUME UpgradeToken(f) \/ CallbackFails(f) PROVE Aim
    BY <1>0, <1>5 DEF UpgradeToken, CallbackFails, FlowOK, appTable, calls
<1>6. ASSUME FetchUserPages(f) PROVE Aim
    BY <1>0, <1>6 DEF FetchUserPages, FlowOK, appTable, calls
<1>7. Aim
    BY <1>1, <1>2, <1>3, <1>4, <1>5, <1>6 DEF OAuth
<1>8. ASSUME NEW h \in Flows \ {f} PROVE FlowOK(h)'
    BY <1>7 DEF AppsInv, FlowOK
<1> QED BY <1>7, <1>8

\* The inductive invariant.
LEMMA AppsInvariant == AppsSpec => []AppsInv
<1>1. AppsInv /\ [AppsNext]_appVars => AppsInv'
  <2> SUFFICES ASSUME AppsInv, [AppsNext]_appVars PROVE AppsInv'
      OBVIOUS
  <2>1. CASE AdministerApps
      BY <2>1, AdministerTypes, AdministerKeeps DEF AppsInv
  <2>2. ASSUME NEW f \in Flows, OAuth(f) PROVE AppsInv'
      BY <2>2, OAuthKeeps DEF AppsInv, appTable, calls, Existing, Calling, CallOK, ScopesNamed,
                              DeletedOnceForAll, SettingsNamedTogether
  <2>3. CASE UNCHANGED appVars
      BY <2>3 DEF appVars, AppsInv, AppsTypeOK, Existing, Calling, CallOK, ScopesNamed, Flowing, FlowOK,
                  DeletedOnceForAll, SettingsNamedTogether
  <2> QED BY <2>1, <2>2, <2>3 DEF AppsNext
<1> QED BY InitApps, <1>1, PTL DEF AppsSpec

-----------------------------------------------------------------------------
\* The table, the calls and the flows have the shape the code gives them.
THEOREM AppsTypeCorrect == AppsSpec => []AppsTypeOK
<1>1. AppsInv => AppsTypeOK
    BY DEF AppsInv
<1> QED BY AppsInvariant, <1>1, PTL

\* DeleteMetaApp reads before it deletes: one call is told of it, and neither
\* an update nor a new app brings it back.
THEOREM DeletedOnce == AppsSpec => []DeletedOnceForAll
<1>1. AppsInv => DeletedOnceForAll
    BY DEF AppsInv
<1> QED BY AppsInvariant, <1>1, PTL

\* UpdateMetaApp reads before it writes: two updates do not mix, but for the
\* scopes that one of them does not name.
THEOREM SettingsKept == AppsSpec => []SettingsNamedTogether
<1>1. AppsInv => SettingsNamedTogether
    BY DEF AppsInv
<1> QED BY AppsInvariant, <1>1, PTL

\* HandleCallback: the token is of the app of the dialog, and given once.
THEOREM TokenIsOfDialog == AppsSpec => []TokenOfOwnDialog
<1>1. AppsInv => TokenOfOwnDialog
    BY DEF AppsInv, Flowing, FlowOK, TokenOfOwnDialog
<1> QED BY AppsInvariant, <1>1, PTL
=============================================================================
