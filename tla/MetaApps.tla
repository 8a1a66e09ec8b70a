------------------------------- MODULE MetaApps -------------------------------
(***************************************************************************)
(* Meta apps and the OAuth flow through which a user grants their pages to *)
(* one: the administration RPCs on the table meta_apps, StartMetaOAuth and *)
(* MetaOAuthCallback.                                                      *)
(*                                                                         *)
(* Updating and deleting an app are two statements each, the callback is a *)
(* query and three calls of the Graph API; other calls run between them.   *)
(* What Meta does with a code and a token is external: a code is bound to  *)
(* the app and the redirect URI of its dialog and can be spent once.       *)
(*                                                                         *)
(* The columns app_id and uri, which never change, are one key; name and   *)
(* verify token, which are written as the secret is, are left out.         *)
(***************************************************************************)
EXTENDS Naturals

CONSTANTS
    Apps,        \* UUIDs the database can issue
    AppKeys,     \* apps registered at Meta
    Secrets,     \* app secrets
    SecretOf,    \* the secret Meta has for each app
    Redirects,   \* OAuth redirect URIs
    ScopeLists,  \* lists of scopes a caller may name
    Calls,       \* slots for administration calls
    Flows,       \* slots for OAuth flows
    NoScopes,    \* no scopes named
    NoApp        \* absent row, call, dialog or token

AppRow == [key : AppKeys, secret : Secrets, redirect : Redirects, scopes : ScopeLists]
Settings == [secret : Secrets, redirect : Redirects, scopes : ScopeLists \cup {NoScopes}]
Call == [op : {"update"}, app : Apps, with : Settings] \cup [op : {"delete"}, app : Apps]
Dialog == [app : Apps, key : AppKeys, redirect : Redirects]

ASSUME SecretsAtMeta == SecretOf \in [AppKeys -> Secrets]
ASSUME NoScopesAreNone == NoScopes \notin ScopeLists
ASSUME NoAppIsNothing == NoApp \notin AppRow \cup Call \cup Dialog \cup AppKeys

VARIABLES
    app,       \* table meta_apps
    used,      \* apps that a row of facebook or gate_waba refers to
    created,   \* UUIDs that have been given to an app
    call,      \* the administration call in each slot
    step,      \* where it stands, at last its answer
    read,      \* the row it has selected
    named,     \* history: the settings asked for, by app
    flow,      \* where each OAuth flow stands
    dialog,    \* what StartOAuth put into the dialog URL
    spent,     \* flows whose code Meta has exchanged
    config,    \* the row the callback has selected
    bearerOf,  \* the app of the token it holds
    grants     \* how often the callback of a flow was answered with a token

appTable == <<app, used, created, named>>
calls == <<call, step, read>>
flows == <<flow, dialog, spent, config, bearerOf, grants>>
appVars == <<app, used, created, named, call, step, read,
             flow, dialog, spent, config, bearerOf, grants>>

Underway == {"selected", "select"}
CallAnswers == {"done", "notFound", "failed"}
InCallback == {"config", "exchange", "upgrade", "pages"}

-----------------------------------------------------------------------------
AppsInit ==
    /\ app = [a \in Apps |-> NoApp]
    /\ used = {}
    /\ created = {}
    /\ named = [a \in Apps |-> {}]
    /\ call = [c \in Calls |-> NoApp]
    /\ step = [c \in Calls |-> "free"]
    /\ read = [c \in Calls |-> NoApp]
    /\ flow = [f \in Flows |-> "off"]
    /\ dialog = [f \in Flows |-> NoApp]
    /\ spent = {}
    /\ config = [f \in Flows |-> NoApp]
    /\ bearerOf = [f \in Flows |-> NoApp]
    /\ grants = [f \in Flows |-> 0]

Step(c, place) == step' = [step EXCEPT ![c] = place]
Return(c) == read' = [read EXCEPT ![c] = NoApp]

-----------------------------------------------------------------------------
(* Administration.                                                         *)

\* CreateMetaApp: app_id and uri are unique. Without scopes the insert fails,
\* for the column is NOT NULL and an empty list is passed as NULL.
CreateMetaApp(a, row) ==
    /\ a \notin created
    /\ \A b \in Apps : app[b] # NoApp => app[b].key # row.key
    /\ app' = [app EXCEPT ![a] = row]
    /\ created' = created \cup {a}
    /\ named' = [named EXCEPT ![a] =
          {[secret |-> row.secret, redirect |-> row.redirect, scopes |-> row.scopes]}]
    /\ UNCHANGED <<used, calls, flows>>

CallArrives(c, m) ==
    /\ step[c] \notin Underway
    /\ m.app \in created
    /\ Step(c, "select")
    /\ call' = [call EXCEPT ![c] = m]
    /\ named' = IF m.op = "update"
                THEN [named EXCEPT ![m.app] = @ \cup {m.with}]
                ELSE named
    /\ UNCHANGED <<app, used, created, read, flows>>

\* UpdateMetaApp and DeleteMetaApp read the app first.
SelectApp(c) ==
    /\ step[c] = "select"
    /\ app[call[c].app] # NoApp
    /\ read' = [read EXCEPT ![c] = app[call[c].app]]
    /\ Step(c, "selected")
    /\ UNCHANGED <<appTable, call, flows>>

SelectAbsent(c) ==
    /\ step[c] = "select"
    /\ app[call[c].app] = NoApp
    /\ Step(c, "notFound")
    /\ UNCHANGED <<appTable, call, read, flows>>

\* A mutant: the scopes are written whether or not the caller names them.
AppliedBlindly(row, with) ==
    [row EXCEPT !.secret = with.secret, !.redirect = with.redirect, !.scopes = with.scopes]

\* A mutant: the scopes that were read are written back in every case.
AppliedWithoutScopes(row, with) ==
    [row EXCEPT !.secret = with.secret, !.redirect = with.redirect]

\* ApplyTo: the handler names every setting but the scopes, which are those
\* that were read if the caller names none.
Applied(row, with) ==
    [row EXCEPT !.secret = with.secret, !.redirect = with.redirect,
                !.scopes = IF with.scopes = NoScopes THEN @ ELSE with.scopes]

\* The statement took effect; its result may still be lost.
Told(c) == \E answer \in {"done", "failed"} : Step(c, answer)

UpdateApp(c) ==
    LET a == call[c].app
    IN /\ step[c] = "selected" /\ call[c].op = "update"
       /\ IF app[a] # NoApp
          THEN app' = [app EXCEPT ![a] = Applied(read[c], call[c].with)] /\ Told(c)
          ELSE UNCHANGED app /\ Step(c, "notFound")
       /\ Return(c)
       /\ UNCHANGED <<used, created, named, call, flows>>

\* A mutant: the number of deleted rows is not looked at.
DeleteAppAgain(c) ==
    /\ step[c] = "selected" /\ call[c].op = "delete"
    /\ IF call[c].app \in used THEN UNCHANGED app /\ Step(c, "failed")
       ELSE app' = [app EXCEPT ![call[c].app] = NoApp] /\ Step(c, "done")
    /\ Return(c)
    /\ UNCHANGED <<used, created, named, call, flows>>

\* The tables of gates refer to the app: it is not deleted under a gate.
DeleteApp(c) ==
    LET a == call[c].app
    IN /\ step[c] = "selected" /\ call[c].op = "delete"
       /\ CASE app[a] = NoApp -> UNCHANGED app /\ Step(c, "notFound")
            [] app[a] # NoApp /\ a \in used -> UNCHANGED app /\ Step(c, "failed")
            [] OTHER -> app' = [app EXCEPT ![a] = NoApp] /\ Told(c)
       /\ Return(c)
       /\ UNCHANGED <<used, created, named, call, flows>>

\* A statement fails.
CallFails(c) ==
    /\ step[c] \in Underway
    /\ Step(c, "failed")
    /\ Return(c)
    /\ UNCHANGED <<appTable, call, flows>>

\* The first gate of an app comes, the last one goes.
GatesChange(a) ==
    /\ app[a] # NoApp
    /\ used' = IF a \in used THEN used \ {a} ELSE used \cup {a}
    /\ UNCHANGED <<app, created, named, calls, flows>>

-----------------------------------------------------------------------------
(* OAuth.                                                                  *)

To(f, place) == flow' = [flow EXCEPT ![f] = place]

\* StartOAuth: the state in the URL is the caller's to compare.
StartOAuth(f, a) ==
    /\ flow[f] = "off"
    /\ app[a] # NoApp
    /\ dialog' = [dialog EXCEPT ![f] = [app |-> a, key |-> app[a].key,
                                        redirect |-> app[a].redirect]]
    /\ To(f, "dialog")
    /\ UNCHANGED <<appTable, calls, spent, config, bearerOf, grants>>

\* The user confirms, and the client calls MetaOAuthCallback with the code; it
\* may call again.
Callback(f) ==
    /\ flow[f] \in {"dialog", "granted", "refused"}
    /\ To(f, "config")
    /\ bearerOf' = [bearerOf EXCEPT ![f] = NoApp]
    /\ UNCHANGED <<appTable, calls, dialog, spent, config, grants>>

\* HandleCallback reads the app that the caller names, perhaps another one.
SelectConfig(f, a) ==
    /\ flow[f] = "config"
    /\ app[a] # NoApp
    /\ config' = [config EXCEPT ![f] = app[a]]
    /\ To(f, "exchange")
    /\ UNCHANGED <<appTable, calls, dialog, spent, bearerOf, grants>>

\* A mutant: an error in the body of the answer is not looked at.
ExchangeUnchecked(f) ==
    /\ flow[f] = "exchange"
    /\ spent' = spent \cup {f}
    /\ bearerOf' = [bearerOf EXCEPT ![f] = config[f].key]
    /\ To(f, "upgrade")
    /\ UNCHANGED <<appTable, calls, dialog, config, grants>>

\* exchangeCodeForToken: what Meta checks, and a token that may get lost.
ExchangeCode(f) ==
    /\ flow[f] = "exchange"
    /\ f \notin spent
    /\ config[f].key = dialog[f].key /\ config[f].redirect = dialog[f].redirect
    /\ config[f].secret = SecretOf[config[f].key]
    /\ spent' = spent \cup {f}
    /\ \/ /\ bearerOf' = [bearerOf EXCEPT ![f] = config[f].key]
          /\ To(f, "upgrade")
          /\ UNCHANGED config
       \/ /\ config' = [config EXCEPT ![f] = NoApp]
          /\ To(f, "refused")
          /\ UNCHANGED bearerOf
    /\ UNCHANGED <<appTable, calls, dialog, grants>>

\* upgradeToLongLivedToken, with the settings that were read before.
UpgradeToken(f) ==
    /\ flow[f] = "upgrade"
    /\ config[f].key = bearerOf[f] /\ config[f].secret = SecretOf[config[f].key]
    /\ To(f, "pages")
    /\ UNCHANGED <<appTable, calls, dialog, spent, config, bearerOf, grants>>

\* fetchUserPages; an error of the Graph API reads as a user without pages.
FetchUserPages(f) ==
    /\ flow[f] = "pages"
    /\ grants' = [grants EXCEPT ![f] = @ + 1]
    /\ To(f, "granted")
    /\ config' = [config EXCEPT ![f] = NoApp]
    /\ UNCHANGED <<appTable, calls, dialog, spent, bearerOf>>

\* No such app, a failing query, a refusal of Meta, a call that breaks off.
CallbackFails(f) ==
    /\ flow[f] \in InCallback
    /\ To(f, "refused")
    /\ config' = [config EXCEPT ![f] = NoApp]
    /\ bearerOf' = [bearerOf EXCEPT ![f] = NoApp]
    /\ UNCHANGED <<appTable, calls, dialog, spent, grants>>

-----------------------------------------------------------------------------
AdministerApps ==
    \/ \E a \in Apps : GatesChange(a) \/ \E row \in AppRow : CreateMetaApp(a, row)
    \/ \E c \in Calls :
          \/ \E m \in Call : CallArrives(c, m)
          \/ SelectApp(c) \/ SelectAbsent(c) \/ UpdateApp(c) \/ DeleteApp(c)
          \/ CallFails(c)

OAuth(f) ==
    \/ \E a \in Apps : StartOAuth(f, a) \/ SelectConfig(f, a)
    \/ Callback(f) \/ ExchangeCode(f) \/ UpgradeToken(f)
    \/ FetchUserPages(f) \/ CallbackFails(f)

AppsNext == AdministerApps \/ \E f \in Flows : OAuth(f)

AppsSpec == AppsInit /\ [][AppsNext]_appVars

-----------------------------------------------------------------------------
(* Properties.                                                             *)

\* The table, the calls and the flows have the shape the code gives them.
AppsTypeOK ==
    /\ app \in [Apps -> AppRow \cup {NoApp}]
    /\ used \subseteq Apps
    /\ created \subseteq Apps
    /\ named \in [Apps -> SUBSET Settings]
    /\ call \in [Calls -> Call \cup {NoApp}]
    /\ step \in [Calls -> {"free"} \cup Underway \cup CallAnswers]
    /\ read \in [Calls -> AppRow \cup {NoApp}]
    /\ flow \in [Flows -> {"off", "dialog", "granted", "refused"} \cup InCallback]
    /\ dialog \in [Flows -> Dialog \cup {NoApp}]
    /\ spent \subseteq Flows
    /\ config \in [Flows -> AppRow \cup {NoApp}]
    /\ bearerOf \in [Flows -> AppKeys \cup {NoApp}]

\* An app that a call was told it deleted is gone for good, no gate is left
\* that refers to it, and nobody else was told the same: not by a second call
\* that had read it too, nor by an update that writes what it read before.
DeletedOnceForAll ==
    \A c \in Calls : step[c] = "done" /\ call[c].op = "delete" =>
        /\ app[call[c].app] = NoApp
        /\ call[c].app \notin used
        /\ \A d \in Calls \ {c} : step[d] = "done" /\ call[d].op = "delete" =>
              call[d].app # call[c].app

\* The settings of an app are those of one request, although updates read the
\* row before they write it.  The one exception are the scopes when that request
\* names none: they are scopes some request named, those it read, and may undo
\* the scopes of an update that overlaps it.
SettingsNamedTogether ==
    \A a \in Apps : app[a] # NoApp =>
        \E s \in named[a] :
            /\ app[a].secret = s.secret /\ app[a].redirect = s.redirect
            /\ \/ app[a].scopes = s.scopes
               \/ s.scopes = NoScopes /\ \E t \in named[a] : app[a].scopes = t.scopes

\* A callback that succeeds holds a token of the app whose dialog the user
\* confirmed, whichever app it was called for and however its settings change
\* between the calls, and no second callback gets a token for the same code.
TokenOfOwnDialog ==
    \A f \in Flows :
        /\ flow[f] \in {"pages", "granted"} => bearerOf[f] = dialog[f].key
        /\ grants[f] <= 1
=============================================================================
